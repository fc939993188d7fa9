------------------------ MODULE ProviderCalls_proofs ------------------------
(***************************************************************************)
(* What the ledger is certain of is so, for any retries, any number of     *)
(* looks at a deployment, and any bytes; and what is shown of an operation *)
(* is what the ledger has of it.                                           *)
(***************************************************************************)
EXTENDS OperationEvents, TLAPS

ResourceOf(op) == IF op = "publish" THEN "site" ELSE "object"
NoEffect(op) == IF op = "publish" THEN HostingNoEffect ELSE StorageNoEffect

\* What the entry `e` of `r` says is so.
Holds(r, e) ==
    IF r = "object" THEN object = IF e = Absent THEN Absent ELSE e.value
    ELSE IF e = Absent THEN made = 0
    ELSE made \in Deployment /\ made = e.value /\ build[made] = "ready"

SettledHold ==
    \A r \in Resource : Settleable(r) /\ r \notin inexact => Holds(r, entry[r])

\* An operation in progress is announced, and was admitted.
PendingOK ==
    call # Absent =>
        /\ entry[ResourceOf(call.op)] # Absent
        /\ entry[ResourceOf(call.op)].status = "Pending"
        /\ previous # Absent => previous.status = "Confirmed"

GoneOK == access = "gone" => object = Absent

\* Nothing has happened to what the entry was about.
Untouched ==
    ResourceOf(call.op) \notin inexact /\ disturbed = {} =>
        Holds(ResourceOf(call.op), previous)

BeforeOK ==
    /\ call.stage = "content" => call.op = "put"
    /\ call.stage = "client" => call.op = "publish"
    /\ call.stage \in {"content", "client", "credential"} => Untouched
    /\ call.op = "publish" /\ call.stage \in {"client", "credential", "send"} =>
          made < MaxDeployments
    /\ call.op = "put" /\ call.stage \in {"credential", "send"} =>
          call.read \in Bytes
    /\ call.stage \in {"content", "client", "credential"} => call.tries = 0

\* A deletion is asked for again only on an answer that proves nothing; who
\* has no access has done nothing.
SendOK ==
    call.stage = "send" =>
        /\ call.tries = 0 \/ access # "granted" => Untouched
        /\ call.op # "delete" => call.tries = 0

PollOK ==
    call.stage = "poll" =>
        /\ call.op = "publish" /\ call.asked
        /\ call.id \in Deployment /\ made = call.id
        /\ build[call.id] # "none"
        /\ disturbed = {} => access = "granted"
        /\ call.seen = "ready" /\ "content" \notin disturbed =>
              build[call.id] = "ready"

SettleOK ==
    call.stage = "settle" =>
        /\ call.op = "put" /\ call.answer = "ok" =>
              /\ call.read \in Bytes
              /\ "content" \notin disturbed => object = call.read
        /\ call.op = "delete" /\ call.answer = "ok"
              /\ "content" \notin disturbed => object = Absent
        /\ call.op = "delete" => call.answer # "NotFound"
        /\ call.op = "publish" /\ call.answer = "ok" =>
              /\ call.id \in Deployment
              /\ "content" \notin disturbed =>
                    made = call.id /\ build[call.id] = "ready"
        /\ call.answer \in NoEffect(call.op) => Untouched
        /\ call.answer \notin NoEffect(call.op) \cup {"ok"} =>
              call.asked \/ ~call.built

StageOK ==
    call # Absent => BeforeOK /\ SendOK /\ PollOK /\ SettleOK

CallsInv == TypeOK /\ SettledHold /\ PendingOK /\ GoneOK /\ StageOK

-----------------------------------------------------------------------------

LEMMA SettledHoldIsTrue == SettledHold => SettledIsTrue
BY DEF SettledHold, SettledIsTrue, Holds, Resource

LEMMA InitCalls == Init => CallsInv
<1> SUFFICES ASSUME Init PROVE CallsInv
  OBVIOUS
<1>1. TypeOK
  BY DEF Init, TypeOK
<1>2. SettledHold
  BY DEF Init, SettledHold, Holds, Resource
<1>3. PendingOK /\ GoneOK /\ StageOK
  BY DEF Init, PendingOK, GoneOK, StageOK
<1>4. QED BY <1>1, <1>2, <1>3 DEF CallsInv

\* A step of an operation that leaves the service and the ledger alone.
LEMMA QuietStep ==
  ASSUME CallsInv, call # Absent, Quiet,
         call' \in Call, call'.op = call.op, StageOK'
  PROVE  CallsInv'
<1> USE DEF CallsInv
<1>1. /\ credential' = credential /\ access' = access /\ object' = object
      /\ made' = made /\ build' = build /\ entry' = entry
      /\ previous' = previous /\ disturbed' = disturbed /\ inexact' = inexact
  BY DEF Quiet, service
<1>2. TypeOK'
  BY <1>1 DEF TypeOK
<1>3. SettledHold'
  BY <1>1 DEF SettledHold, Settleable, Holds
<1>4. PendingOK' /\ GoneOK'
  BY <1>1 DEF PendingOK, GoneOK
<1>5. QED BY <1>2, <1>3, <1>4

LEMMA QuietValues ==
  ASSUME Quiet
  PROVE  /\ credential' = credential /\ access' = access /\ object' = object
         /\ made' = made /\ build' = build /\ entry' = entry
         /\ previous' = previous /\ disturbed' = disturbed
         /\ inexact' = inexact
BY DEF Quiet, service

LEMMA ContentStep ==
  ASSUME CallsInv, ReadContent
  PROVE  CallsInv'
<1> USE DEF CallsInv
<1>1. call \in Call /\ call # Absent /\ call.stage = "content" /\ Quiet
  BY DEF ReadContent, At, TypeOK
<1>2. call.op = "put" /\ Untouched /\ call.tries = 0
  BY <1>1 DEF StageOK, BeforeOK
<1>3. CASE \E b \in Bytes :
             call' = [call EXCEPT !.read = b, !.stage = "credential"]
  <2>1. /\ call' \in Call /\ call'.op = "put" /\ call'.stage = "credential"
        /\ call'.read \in Bytes /\ call'.tries = 0
    BY <1>1, <1>2, <1>3 DEF Call
  <2>2. StageOK'
    BY <1>1, <1>2, <2>1, QuietValues
    DEF StageOK, BeforeOK, SendOK, PollOK, SettleOK, Untouched, Holds,
        ResourceOf
  <2>3. QED BY <1>1, <1>2, <2>1, <2>2, QuietStep
<1>4. CASE Answer("Io")
  <2>1. /\ call' \in Call /\ call'.op = "put" /\ call'.stage = "settle"
        /\ call'.answer = "Io"
    BY <1>1, <1>2, <1>4 DEF Call, Answer, Error
  <2>2. StageOK'
    BY <1>1, <1>2, <2>1, QuietValues
    DEF StageOK, BeforeOK, SendOK, PollOK, SettleOK, Untouched, Holds,
        ResourceOf, NoEffect, StorageNoEffect
  <2>3. QED BY <1>1, <1>2, <2>1, <2>2, QuietStep
<1>5. QED BY <1>3, <1>4 DEF ReadContent

\* Nothing is sent, and the error tells nobody so.
LEMMA UnbuiltStep ==
  ASSUME CallsInv, call # Absent, Quiet,
         NEW e \in {"Other", "Network"}, Unbuilt(e)
  PROVE  CallsInv'
<1> USE DEF CallsInv
<1>1. call \in Call
  BY DEF TypeOK
<1>2. /\ call' \in Call /\ call'.op = call.op /\ call'.stage = "settle"
      /\ call'.answer = e /\ ~call'.built
  BY <1>1 DEF Unbuilt, Call, Error
<1>3. e \notin NoEffect(call.op) /\ e \notin {"ok", "NotFound"}
  BY DEF NoEffect, StorageNoEffect, HostingNoEffect
<1>4. StageOK'
  BY <1>2, <1>3 DEF StageOK, BeforeOK, SendOK, PollOK, SettleOK
<1>5. QED BY <1>2, <1>4, QuietStep

LEMMA ClientStep ==
  ASSUME CallsInv, BuildClient
  PROVE  CallsInv'
<1> USE DEF CallsInv
<1>1. call \in Call /\ call # Absent /\ call.stage = "client" /\ Quiet
  BY DEF BuildClient, At, TypeOK
<1>2. /\ call.op = "publish" /\ Untouched /\ made < MaxDeployments
      /\ call.tries = 0
  BY <1>1 DEF StageOK, BeforeOK
<1>3. CASE call' = [call EXCEPT !.stage = "credential"]
  <2>1. /\ call' \in Call /\ call'.op = "publish"
        /\ call'.stage = "credential" /\ call'.tries = 0
    BY <1>1, <1>2, <1>3 DEF Call
  <2>2. StageOK'
    BY <1>1, <1>2, <2>1, QuietValues
    DEF StageOK, BeforeOK, SendOK, PollOK, SettleOK, Untouched, Holds,
        ResourceOf
  <2>3. QED BY <1>1, <1>2, <2>1, <2>2, QuietStep
<1>4. CASE Unbuilt("Other")
  BY <1>1, <1>4, UnbuiltStep
<1>5. QED BY <1>3, <1>4 DEF BuildClient

LEMMA CredentialStep ==
  ASSUME CallsInv, ReadCredential
  PROVE  CallsInv'
<1> USE DEF CallsInv
<1>1. call \in Call /\ call # Absent /\ call.stage = "credential" /\ Quiet
  BY DEF ReadCredential, At, TypeOK
<1>2. /\ Untouched /\ call.tries = 0
      /\ call.op = "publish" => made < MaxDeployments
      /\ call.op = "put" => call.read \in Bytes
  BY <1>1 DEF StageOK, BeforeOK
<1>3. CASE call' = [call EXCEPT !.stage = "send"]
  <2>1. /\ call' \in Call /\ call'.op = call.op /\ call'.stage = "send"
        /\ call'.tries = 0 /\ call'.read = call.read
    BY <1>1, <1>2, <1>3 DEF Call
  <2>2. StageOK'
    BY <1>1, <1>2, <2>1, QuietValues
    DEF StageOK, BeforeOK, SendOK, PollOK, SettleOK, Untouched, Holds
  <2>3. QED BY <1>1, <2>1, <2>2, QuietStep
<1>4. ASSUME NEW e \in {"AuthenticationRequired", "AuthenticationFailed"},
             Answer(e)
      PROVE  CallsInv'
  <2>1. /\ call' \in Call /\ call'.op = call.op /\ call'.stage = "settle"
        /\ call'.answer = e
    BY <1>1, <1>4 DEF Call, Answer, Error
  <2>2. StageOK'
    BY <1>1, <1>2, <2>1, QuietValues
    DEF StageOK, BeforeOK, SendOK, PollOK, SettleOK, Untouched, Holds,
        NoEffect, StorageNoEffect, HostingNoEffect
  <2>3. QED BY <1>1, <2>1, <2>2, QuietStep
<1>5. \/ call' = [call EXCEPT !.stage = "send"]
      \/ Answer("AuthenticationRequired") \/ Answer("AuthenticationFailed")
  BY DEF ReadCredential, TypeOK
<1>6. QED BY <1>3, <1>4, <1>5

LEMMA LookStep ==
  ASSUME CallsInv, Look
  PROVE  CallsInv'
<1> USE DEF CallsInv
<1>1. call \in Call /\ call # Absent /\ call.stage = "poll" /\ Quiet
  BY DEF Look, At, TypeOK
<1>2. /\ call.op = "publish" /\ call.asked
      /\ call.id \in Deployment /\ made = call.id
      /\ call.seen = "ready" /\ "content" \notin disturbed =>
            build[call.id] = "ready"
  BY <1>1 DEF StageOK, PollOK
<1>3. PICK a \in {"ok", "Integrity", "Other", "Network"} :
        /\ call' = [call EXCEPT !.answer = a, !.stage = "settle"]
        /\ a = "ok" => call.seen = "ready"
  BY DEF Look, Answer
<1>4. /\ call' \in Call /\ call'.op = "publish" /\ call'.stage = "settle"
      /\ call'.answer = a /\ call'.id = call.id /\ call'.asked
  BY <1>1, <1>2, <1>3 DEF Call, Error
<1>5. StageOK'
  BY <1>1, <1>2, <1>3, <1>4, QuietValues
  DEF StageOK, BeforeOK, SendOK, PollOK, SettleOK, NoEffect, HostingNoEffect
<1>6. QED BY <1>1, <1>2, <1>4, <1>5, QuietStep

\* A look that is refused means that the access has changed since the
\* deployment was created.
LEMMA GetStep ==
  ASSUME CallsInv, GetDeployment
  PROVE  CallsInv'
<1> USE DEF CallsInv
<1>1. /\ call \in Call /\ call # Absent /\ call.stage = "poll"
      /\ call.seen = "pending" /\ Quiet
  BY DEF GetDeployment, At, TypeOK
<1>2. /\ call.op = "publish" /\ call.asked
      /\ call.id \in Deployment /\ made = call.id
      /\ build[call.id] \in {"building", "ready", "failed"}
      /\ disturbed = {} => access = "granted"
  BY <1>1 DEF StageOK, PollOK, TypeOK
<1>3. CASE \E s \in Seen(build[call.id]) :
             call' = [call EXCEPT !.seen = s, !.tries = 0, !.polls = @ + 1]
  <2>1. PICK s \in Seen(build[call.id]) :
             call' = [call EXCEPT !.seen = s, !.tries = 0,
                                  !.polls = call.polls + 1]
    BY <1>1, <1>3
  <2>2. /\ s \in {"pending", "ready", "failed", "unclear"}
        /\ s = "ready" => build[call.id] = "ready"
    BY <1>2, <2>1 DEF Seen
  <2>3. call.polls + 1 \in Nat
    BY <1>1 DEF Call
  <2>4. /\ call' \in Call /\ call'.op = "publish" /\ call'.stage = "poll"
        /\ call'.seen = s /\ call'.id = call.id /\ call'.asked
    BY <1>1, <1>2, <2>1, <2>2, <2>3 DEF Call
  <2>5. StageOK'
    BY <1>1, <1>2, <2>2, <2>4, QuietValues
    DEF StageOK, BeforeOK, SendOK, PollOK, SettleOK
  <2>6. QED BY <1>1, <1>2, <2>4, <2>5, QuietStep
<1>4. CASE call' = [call EXCEPT !.tries = @ + 1]
  <2>1. call.tries + 1 \in Nat
    BY <1>1 DEF Call
  <2>2. /\ call' \in Call /\ call'.op = "publish" /\ call'.stage = "poll"
        /\ call'.seen = "pending" /\ call'.id = call.id /\ call'.asked
    BY <1>1, <1>2, <1>4, <2>1 DEF Call
  <2>3. StageOK'
    BY <1>1, <1>2, <2>2, QuietValues
    DEF StageOK, BeforeOK, SendOK, PollOK, SettleOK
  <2>4. QED BY <1>1, <1>2, <2>2, <2>3, QuietStep
<1>5. ASSUME NEW e \in Error, Answer(e),
             e \in HostingNoEffect => access # "granted"
      PROVE  CallsInv'
  <2>1. /\ call' \in Call /\ call'.op = "publish" /\ call'.stage = "settle"
        /\ call'.answer = e /\ call'.asked
    BY <1>1, <1>2, <1>5 DEF Call, Answer
  <2>2. e # "ok"
    BY DEF Error
  <2>3. StageOK'
    BY <1>1, <1>2, <1>5, <2>1, <2>2, QuietValues
    DEF StageOK, BeforeOK, SendOK, PollOK, SettleOK, NoEffect, Untouched
  <2>4. QED BY <1>1, <1>2, <2>1, <2>3, QuietStep
<1>6. PICK reply \in Given(access) \ {"conflict"} :
        \/ \E s \in Seen(build[call.id]) :
             call' = [call EXCEPT !.seen = s, !.tries = 0, !.polls = @ + 1]
        \/ call' = [call EXCEPT !.tries = @ + 1]
        \/ Answer("Other")
        \/ reply # "success" /\
             Answer(IF reply = "lost" THEN "Network" ELSE StatusError(reply))
  BY DEF GetDeployment
<1>7. access \in {"granted", "denied", "gone"}
  BY DEF TypeOK
<1>8. ASSUME reply # "success",
             Answer(IF reply = "lost" THEN "Network" ELSE StatusError(reply))
      PROVE  CallsInv'
  <2> DEFINE e == IF reply = "lost" THEN "Network" ELSE StatusError(reply)
  <2>1. /\ e \in Error
        /\ e \in HostingNoEffect => access # "granted"
    BY <1>6, <1>7, <1>8 DEF Given, StatusError, HostingNoEffect, Error
  <2> HIDE DEF e
  <2>2. Answer(e)
    BY <1>8 DEF e
  <2>3. QED BY <1>5, <2>1, <2>2
<1>9. "Other" \in Error /\ "Other" \notin HostingNoEffect
  BY DEF Error, HostingNoEffect
<1>10. QED BY <1>3, <1>4, <1>5, <1>6, <1>8, <1>9

-----------------------------------------------------------------------------
(* The requests that may act.                                              *)

\* Only who has access acts, and what proves that nothing has happened is
\* never the answer to something that has.
LEMMA Replies ==
  ASSUME TypeOK, NEW reply \in Given(access), NEW acted \in Acted(reply)
  PROVE  /\ acted \in BOOLEAN
         /\ acted => access = "granted"
         /\ reply = "success" => acted
         /\ reply = "not found" => access = "gone" /\ ~acted
         /\ reply # "success" =>
               /\ SdkError(reply) \in Error /\ StatusError(reply) \in Error
               /\ SdkError(reply) \in StorageNoEffect =>
                     access # "granted" /\ ~acted
               /\ SdkError(reply) = "NotFound" => reply = "not found"
               /\ StatusError(reply) \in HostingNoEffect => ~acted
<1>1. access \in {"granted", "denied", "gone"}
  BY DEF TypeOK
<1>2. /\ acted \in BOOLEAN
      /\ acted => access = "granted"
      /\ reply = "success" => acted
      /\ reply = "not found" => access = "gone"
      /\ reply \notin {"success", "server error", "lost"} => ~acted
  BY <1>1 DEF Given, Acted
<1>3. reply \in {"success", "unauthorized", "forbidden", "not found",
                 "conflict", "throttled", "server error", "other status",
                 "lost"}
  BY <1>1 DEF Given
<1>4. ASSUME reply # "success"
      PROVE  /\ SdkError(reply) \in Error /\ StatusError(reply) \in Error
             /\ SdkError(reply) \in StorageNoEffect =>
                   reply \in {"unauthorized", "forbidden", "not found"}
             /\ SdkError(reply) = "NotFound" => reply = "not found"
             /\ StatusError(reply) \in HostingNoEffect =>
                   reply \in {"unauthorized", "forbidden", "not found",
                              "conflict"}
  BY <1>3, <1>4
  DEF SdkError, StatusError, Error, StorageNoEffect, HostingNoEffect
<1>5. reply \in {"unauthorized", "forbidden", "not found"} =>
         access # "granted"
  BY <1>1 DEF Given
<1>6. QED BY <1>2, <1>4, <1>5

\* The object is in doubt while an operation on it is in progress.
LEMMA ObjectStep ==
  ASSUME CallsInv, call # Absent, call.op \in {"put", "delete"},
         UNCHANGED <<credential, access, made, build, entry, previous,
                     disturbed, inexact>>,
         object' \in Bytes \cup {Absent},
         access = "gone" => object' = object,
         call' \in Call, call'.op = call.op, StageOK'
  PROVE  CallsInv'
<1> USE DEF CallsInv
<1>1. TypeOK'
  BY DEF TypeOK
<1>2. ~Settleable("object")
  BY DEF PendingOK, Settleable, ResourceOf
<1>3. SettledHold'
  BY <1>2 DEF SettledHold, Settleable, Holds, Resource
<1>4. PendingOK' /\ GoneOK'
  BY DEF PendingOK, GoneOK
<1>5. QED BY <1>1, <1>3, <1>4

LEMMA PutAnswered ==
  ASSUME CallsInv, SendPut,
         ~(Unbuilt(SdkError("unbuilt")) /\ UNCHANGED object)
  PROVE  CallsInv'
<1> USE DEF CallsInv
<1>1. /\ call \in Call /\ call # Absent /\ call.stage = "send"
      /\ call.op = "put"
      /\ UNCHANGED <<credential, access, made, build, entry, previous,
                     disturbed, inexact>>
  BY DEF SendPut, At, Op, TypeOK
<1>2. PICK reply \in Given(access), acted \in BOOLEAN :
        /\ acted \in Acted(reply)
        /\ object' = IF acted THEN call.read ELSE object
        /\ call' = [Asked EXCEPT
                      !.answer = IF reply = "success" THEN "ok"
                                 ELSE SdkError(reply),
                      !.stage = "settle"]
  BY DEF SendPut, Acted
<1>3. call.read \in Bytes /\ Untouched
  BY <1>1 DEF StageOK, BeforeOK, SendOK
<1>4. /\ acted => access = "granted"
      /\ reply = "success" => acted
      /\ reply # "success" =>
            /\ SdkError(reply) \in Error
            /\ SdkError(reply) \in StorageNoEffect => ~acted
  BY <1>2, Replies
<1>5. /\ call' \in Call /\ call'.op = "put" /\ call'.stage = "settle"
      /\ call'.asked /\ call'.read = call.read
      /\ call'.answer = IF reply = "success" THEN "ok" ELSE SdkError(reply)
  <2> DEFINE a == IF reply = "success" THEN "ok" ELSE SdkError(reply)
  <2>1. a \in Error \cup {"none", "ok"}
    BY <1>4
  <2> HIDE DEF a
  <2>2. call' = [[call EXCEPT !.asked = TRUE] EXCEPT !.answer = a,
                                                   !.stage = "settle"]
    BY <1>2 DEF Asked, a
  <2>3. /\ call' \in Call /\ call'.op = "put" /\ call'.stage = "settle"
        /\ call'.asked /\ call'.read = call.read /\ call'.answer = a
    BY <1>1, <2>1, <2>2 DEF Call
  <2>4. QED BY <2>3 DEF a
<1>6. SettleOK'
  <2>1. ASSUME call'.answer = "ok" PROVE object' = call'.read
    BY <1>2, <1>4, <1>5, <2>1 DEF Error
  <2>2. ASSUME call'.answer \in NoEffect("put") PROVE Untouched'
    <3>1. ~acted
      BY <1>4, <1>5, <2>2 DEF NoEffect, StorageNoEffect
    <3>2. object' = object
      BY <1>2, <3>1
    <3>3. QED BY <1>1, <1>3, <1>5, <3>2 DEF Untouched, Holds, ResourceOf
  <2>3. QED BY <1>3, <1>5, <2>1, <2>2 DEF SettleOK
<1>7. StageOK'
  BY <1>1, <1>5, <1>6 DEF StageOK, BeforeOK, SendOK, PollOK
<1>8. /\ object' \in Bytes \cup {Absent}
      /\ access = "gone" => object' = object
  BY <1>2, <1>3, <1>4 DEF TypeOK
<1>9. QED BY <1>1, <1>5, <1>7, <1>8, ObjectStep

LEMMA PutStep ==
  ASSUME CallsInv, SendPut
  PROVE  CallsInv'
<1>1. CASE Unbuilt(SdkError("unbuilt")) /\ UNCHANGED object
  <2>1. call # Absent /\ Quiet
    BY <1>1 DEF SendPut, At, Quiet, service
  <2>2. QED BY <1>1, <2>1, UnbuiltStep DEF SdkError
<1>2. QED BY <1>1, PutAnswered

LEMMA DeleteAnswered ==
  ASSUME CallsInv, SendDelete,
         ~(Unbuilt(SdkError("unbuilt")) /\ UNCHANGED object)
  PROVE  CallsInv'
<1> USE DEF CallsInv
<1>1. /\ call \in Call /\ call # Absent /\ call.stage = "send"
      /\ call.op = "delete"
      /\ UNCHANGED <<credential, access, made, build, entry, previous,
                     disturbed, inexact>>
  BY DEF SendDelete, At, Op, TypeOK
<1>2. PICK reply \in Given(access), acted \in BOOLEAN :
        /\ acted \in Acted(reply)
        /\ object' = IF acted THEN Absent ELSE object
        /\ call' =
             IF reply \in {"success", "not found"}
             THEN [Asked EXCEPT !.answer = "ok", !.stage = "settle"]
             ELSE IF SdkError(reply) = "Network" /\ call.tries < MaxShortRetries
             THEN [Asked EXCEPT !.tries = @ + 1]
             ELSE [Asked EXCEPT !.answer = SdkError(reply), !.stage = "settle"]
  BY DEF SendDelete, Acted
<1>3. /\ acted => access = "granted"
      /\ reply = "success" => acted
      /\ reply = "not found" => access = "gone"
      /\ reply # "success" =>
            /\ SdkError(reply) \in Error
            /\ SdkError(reply) \in StorageNoEffect =>
                  access # "granted" /\ ~acted
            /\ SdkError(reply) = "NotFound" => reply = "not found"
  BY <1>2, Replies
<1>4. access # "granted" => Untouched /\ object' = object
  BY <1>1, <1>2, <1>3 DEF StageOK, SendOK
<1>5. /\ object' \in Bytes \cup {Absent}
      /\ access = "gone" => object' = object
  BY <1>2, <1>3 DEF TypeOK
<1>6. CASE reply \in {"success", "not found"}
  <2>1. call' = [[call EXCEPT !.asked = TRUE] EXCEPT !.answer = "ok",
                                                   !.stage = "settle"]
    BY <1>2, <1>6 DEF Asked
  <2>2. /\ call' \in Call /\ call'.op = "delete" /\ call'.stage = "settle"
        /\ call'.asked /\ call'.answer = "ok"
    BY <1>1, <2>1 DEF Call
  <2>3. object' = Absent
    BY <1>2, <1>3, <1>6 DEF GoneOK
  <2>4. StageOK'
    BY <1>1, <2>2, <2>3
    DEF StageOK, BeforeOK, SendOK, PollOK, SettleOK, NoEffect, StorageNoEffect
  <2>5. QED BY <1>1, <1>5, <2>2, <2>4, ObjectStep
<1>7. CASE call' = [Asked EXCEPT !.tries = @ + 1]
  <2>1. call' = [[call EXCEPT !.asked = TRUE] EXCEPT !.tries = call.tries + 1]
    BY <1>1, <1>7 DEF Asked, Call
  <2>2. call.tries + 1 \in Nat /\ call.tries + 1 # 0
    BY <1>1 DEF Call
  <2>3. /\ call' \in Call /\ call'.op = "delete" /\ call'.stage = "send"
        /\ call'.tries # 0
    BY <1>1, <2>1, <2>2 DEF Call
  <2>4. access # "granted" => Untouched'
    BY <1>1, <1>4, <2>3 DEF Untouched, Holds, ResourceOf
  <2>5. StageOK'
    BY <1>1, <2>3, <2>4 DEF StageOK, BeforeOK, SendOK, PollOK, SettleOK
  <2>6. QED BY <1>1, <1>5, <2>3, <2>5, ObjectStep
<1>8. CASE /\ reply \notin {"success", "not found"}
           /\ call' = [Asked EXCEPT !.answer = SdkError(reply),
                                    !.stage = "settle"]
  <2> DEFINE a == SdkError(reply)
  <2>1. /\ a \in Error /\ a # "NotFound" /\ a # "ok"
        /\ a \in StorageNoEffect => access # "granted"
    BY <1>3, <1>8 DEF Error
  <2> HIDE DEF a
  <2>2. call' = [[call EXCEPT !.asked = TRUE] EXCEPT !.answer = a,
                                                   !.stage = "settle"]
    BY <1>8 DEF Asked, a
  <2>3. /\ call' \in Call /\ call'.op = "delete" /\ call'.stage = "settle"
        /\ call'.asked /\ call'.answer = a
    BY <1>1, <2>1, <2>2 DEF Call
  <2>4. a \in StorageNoEffect => Untouched'
    BY <1>1, <1>4, <2>1, <2>3 DEF Untouched, Holds, ResourceOf
  <2>5. StageOK'
    BY <1>1, <2>1, <2>3, <2>4
    DEF StageOK, BeforeOK, SendOK, PollOK, SettleOK, NoEffect
  <2>6. QED BY <1>1, <1>5, <2>3, <2>5, ObjectStep
<1>9. QED BY <1>2, <1>6, <1>7, <1>8

LEMMA DeleteStep ==
  ASSUME CallsInv, SendDelete
  PROVE  CallsInv'
<1>1. CASE Unbuilt(SdkError("unbuilt")) /\ UNCHANGED object
  <2>1. call # Absent /\ Quiet
    BY <1>1 DEF SendDelete, At, Quiet, service
  <2>2. QED BY <1>1, <2>1, UnbuiltStep DEF SdkError
<1>2. QED BY <1>1, DeleteAnswered

\* So is the site while it is being published.
LEMMA SiteStep ==
  ASSUME CallsInv, call # Absent, call.op = "publish",
         UNCHANGED <<credential, access, object, entry, previous, disturbed,
                     inexact>>,
         made' \in Deployment \cup {0},
         build' \in [Deployment -> {"none", "building", "ready", "failed"}],
         call' \in Call, call'.op = call.op, StageOK'
  PROVE  CallsInv'
<1> USE DEF CallsInv
<1>1. TypeOK'
  BY DEF TypeOK
<1>2. ~Settleable("site")
  BY DEF PendingOK, Settleable, ResourceOf
<1>3. SettledHold'
  BY <1>2 DEF SettledHold, Settleable, Holds, Resource
<1>4. PendingOK' /\ GoneOK'
  BY DEF PendingOK, GoneOK
<1>5. QED BY <1>1, <1>3, <1>4

LEMMA CreateAnswered ==
  ASSUME CallsInv, CreateDeployment,
         ~(Unbuilt("Network") /\ UNCHANGED <<made, build>>)
  PROVE  CallsInv'
<1> USE DEF CallsInv
<1>1. /\ call \in Call /\ call # Absent /\ call.stage = "send"
      /\ call.op = "publish"
      /\ UNCHANGED <<credential, access, object, entry, previous, disturbed,
                     inexact>>
  BY DEF CreateDeployment, At, Op, TypeOK
<1>2. PICK reply \in Given(access), acted \in BOOLEAN :
        /\ acted \in Acted(reply)
        /\ made' = IF acted THEN made + 1 ELSE made
        /\ build' = IF acted THEN [build EXCEPT ![made + 1] = "building"]
                    ELSE build
        /\ IF reply = "success"
           THEN \/ \E s \in Seen("building") :
                      call' = [Asked EXCEPT !.id = made + 1, !.seen = s,
                                            !.stage = "poll"]
                \/ \E e \in {"Other", "Integrity"} :
                      call' = [Asked EXCEPT !.answer = e, !.stage = "settle"]
           ELSE call' = [Asked EXCEPT
                           !.answer = IF reply = "lost" THEN "Network"
                                      ELSE StatusError(reply),
                           !.stage = "settle"]
  BY DEF CreateDeployment, Acted
<1>3. /\ made < MaxDeployments /\ made \in Nat /\ made + 1 \in Deployment
      /\ Untouched
  BY <1>1, Limits DEF StageOK, BeforeOK, SendOK, TypeOK, Deployment
<1>4. /\ acted => access = "granted"
      /\ reply = "success" => acted
      /\ reply # "success" =>
            /\ StatusError(reply) \in Error
            /\ StatusError(reply) \in HostingNoEffect => ~acted
  BY <1>2, Replies
<1>5. /\ made' \in Deployment \cup {0}
      /\ build' \in [Deployment -> {"none", "building", "ready", "failed"}]
  BY <1>2, <1>3 DEF TypeOK
<1>6. CASE /\ reply = "success"
           /\ \E s \in Seen("building") :
                 call' = [Asked EXCEPT !.id = made + 1, !.seen = s,
                                       !.stage = "poll"]
  <2>1. PICK s \in Seen("building") :
          call' = [[call EXCEPT !.asked = TRUE] EXCEPT
                     !.id = made + 1, !.seen = s, !.stage = "poll"]
    BY <1>6 DEF Asked
  <2>2. s \in {"pending", "unclear"}
    BY <2>1 DEF Seen
  <2>3. /\ call' \in Call /\ call'.op = "publish" /\ call'.stage = "poll"
        /\ call'.asked /\ call'.id = made + 1 /\ call'.seen = s
    BY <1>1, <1>3, <2>1, <2>2 DEF Call
  <2>4. made' = made + 1 /\ build'[made + 1] = "building"
    BY <1>2, <1>3, <1>4, <1>6 DEF TypeOK
  <2>5. StageOK'
    BY <1>1, <1>3, <1>4, <1>6, <2>2, <2>3, <2>4
    DEF StageOK, BeforeOK, SendOK, PollOK, SettleOK
  <2>6. QED BY <1>1, <1>5, <2>3, <2>5, SiteStep
<1>7. ASSUME NEW a \in Error,
             call' = [Asked EXCEPT !.answer = a, !.stage = "settle"],
             a \in HostingNoEffect => ~acted
      PROVE  CallsInv'
  <2>1. call' = [[call EXCEPT !.asked = TRUE] EXCEPT
                   !.answer = a, !.stage = "settle"]
    BY <1>7 DEF Asked
  <2>2. /\ call' \in Call /\ call'.op = "publish" /\ call'.stage = "settle"
        /\ call'.asked /\ call'.answer = a
    BY <1>1, <2>1 DEF Call
  <2>3. a # "ok"
    BY DEF Error
  <2>4. a \in HostingNoEffect => Untouched'
    BY <1>1, <1>2, <1>3, <1>7, <2>2 DEF Untouched, Holds, ResourceOf
  <2>5. StageOK'
    BY <1>1, <2>2, <2>3, <2>4
    DEF StageOK, BeforeOK, SendOK, PollOK, SettleOK, NoEffect
  <2>6. QED BY <1>1, <1>5, <2>2, <2>5, SiteStep
<1>8. {"Other", "Integrity", "Network"} \cap HostingNoEffect = {}
  BY DEF HostingNoEffect
<1>9. CASE /\ reply = "success"
           /\ \E e \in {"Other", "Integrity"} :
                 call' = [Asked EXCEPT !.answer = e, !.stage = "settle"]
  BY <1>7, <1>8, <1>9 DEF Error
<1>10. CASE reply # "success"
  <2> DEFINE a == IF reply = "lost" THEN "Network" ELSE StatusError(reply)
  <2>1. call' = [Asked EXCEPT !.answer = a, !.stage = "settle"]
    BY <1>2, <1>10
  <2>2. a \in Error /\ (a \in HostingNoEffect => ~acted)
    BY <1>4, <1>8, <1>10 DEF Error
  <2> HIDE DEF a
  <2>3. QED BY <1>7, <2>1, <2>2
<1>11. QED BY <1>2, <1>6, <1>9, <1>10

LEMMA CreateStep ==
  ASSUME CallsInv, CreateDeployment
  PROVE  CallsInv'
<1>1. CASE Unbuilt("Network") /\ UNCHANGED <<made, build>>
  <2>1. call # Absent /\ Quiet
    BY <1>1 DEF CreateDeployment, At, Quiet, service
  <2>2. QED BY <1>1, <2>1, UnbuiltStep
<1>2. QED BY <1>1, CreateAnswered

-----------------------------------------------------------------------------
(* The ledger learns.                                                      *)

LEMMA SettleStep ==
  ASSUME CallsInv, call # Absent, NEW r \in Resource,
         r = ResourceOf(call.op),
         NEW new \in Entry \cup {Absent}, NEW exact \in BOOLEAN,
         Settle(r, new, exact),
         exact /\ (new # Absent => new.status = "Confirmed") => Holds(r, new)
  PROVE  CallsInv'
<1> USE DEF CallsInv
<1>1. /\ entry' = [entry EXCEPT ![r] = new]
      /\ inexact' = IF exact THEN inexact \ {r} ELSE inexact \cup {r}
      /\ call' = Absent /\ previous' = Absent /\ disturbed' = {}
      /\ credential' = credential /\ access' = access /\ object' = object
      /\ made' = made /\ build' = build
  BY DEF Settle, service
<1>2. TypeOK'
  BY <1>1 DEF TypeOK
<1>3. SettledHold'
  <2> SUFFICES ASSUME NEW q \in Resource, q \notin inexact',
                      entry'[q] # Absent => entry'[q].status = "Confirmed"
               PROVE  Holds(q, entry[q])'
    BY DEF SettledHold, Settleable
  <2>1. entry \in [Resource -> Entry \cup {Absent}]
    BY DEF TypeOK
  <2>2. CASE q = r
    <3>1. entry'[q] = new /\ exact
      BY <1>1, <2>1, <2>2
    <3>2. Holds(r, new)
      BY <2>2, <3>1
    <3>3. QED BY <1>1, <2>2, <3>1, <3>2 DEF Holds
  <2>3. CASE q # r
    <3>1. entry'[q] = entry[q] /\ q \notin inexact
      BY <1>1, <2>1, <2>3
    <3>2. Holds(q, entry[q])
      BY <3>1 DEF SettledHold, Settleable
    <3>3. QED BY <1>1, <3>1, <3>2 DEF Holds
  <2>4. QED BY <2>2, <2>3
<1>4. PendingOK' /\ GoneOK' /\ StageOK'
  BY <1>1 DEF PendingOK, GoneOK, StageOK
<1>5. QED BY <1>2, <1>3, <1>4

LEMMA TakeBackStep ==
  ASSUME CallsInv, call # Absent, NEW r \in Resource,
         r = ResourceOf(call.op), TakeBack(r), Untouched
  PROVE  CallsInv'
<1>1. PICK new \in Entry \cup {Absent} : new = previous
  BY DEF CallsInv, TypeOK
<1>2. PICK exact \in BOOLEAN :
         exact = (r \notin inexact /\ disturbed = {})
  OBVIOUS
<1>3. Settle(r, new, exact)
  BY <1>1, <1>2 DEF TakeBack
<1>4. exact => Holds(r, new)
  BY <1>1, <1>2 DEF Untouched
<1>5. QED BY <1>3, <1>4, SettleStep

LEMMA LearnStep ==
  ASSUME CallsInv, call # Absent, NEW r \in Resource,
         r = ResourceOf(call.op),
         NEW new \in Entry \cup {Absent}, Learn(r, new),
         /\ "content" \notin disturbed
         /\ new # Absent => new.status = "Confirmed"
         => Holds(r, new)
  PROVE  CallsInv'
<1>1. PICK exact \in BOOLEAN : exact = ("content" \notin disturbed)
  OBVIOUS
<1>2. Settle(r, new, exact)
  BY <1>1 DEF Learn
<1>3. QED BY <1>1, <1>2, SettleStep

\* Pending becomes Unknown.
LEMMA DoubtfulEntry ==
  ASSUME CallsInv, call # Absent, NEW r \in Resource,
         r = ResourceOf(call.op)
  PROVE  /\ Doubtful(r) \in Entry /\ Doubtful(r).status = "Unknown"
         /\ Doubtful(r) # Absent
<1>1. entry[r] \in Entry
  BY DEF CallsInv, PendingOK, TypeOK
<1>2. QED BY <1>1, AbsentRecords DEF Doubtful, Entry

LEMMA SettlesStep ==
  ASSUME CallsInv, SettlePut \/ SettleDelete \/ SettlePublish
  PROVE  CallsInv'
<1>1. call \in Call /\ call # Absent /\ call.stage = "settle"
  BY DEF SettlePut, SettleDelete, SettlePublish, At, CallsInv, TypeOK
<1>2. SettleOK /\ "object" \in Resource /\ "site" \in Resource
  BY <1>1 DEF CallsInv, StageOK, Resource
<1>3. CASE SettlePut
  <2>1. call.op = "put" /\ ResourceOf(call.op) = "object"
    BY <1>3 DEF SettlePut, Op, ResourceOf
  <2>2. CASE call.answer = "ok" /\ Learn("object", Confirmed(call.read))
    <3>1. PICK b \in Bytes : b = call.read
      BY <1>1, <1>2, <2>1, <2>2 DEF SettleOK
    <3>2. Confirmed(b) \in Entry /\ Confirmed(b).value = b /\ Confirmed(b) # Absent
      BY AbsentRecords DEF Confirmed, Entry, Value
    <3>3. "content" \notin disturbed => Holds("object", Confirmed(b))
      BY <1>1, <1>2, <2>1, <2>2, <3>1, <3>2 DEF SettleOK, Holds
    <3>4. Learn("object", Confirmed(b))
      BY <2>2, <3>1
    <3>5. QED BY <1>1, <1>2, <2>1, <3>2, <3>3, <3>4, LearnStep
  <2>3. CASE call.answer \in StorageNoEffect /\ TakeBack("object")
    <3>1. Untouched
      BY <1>1, <1>2, <2>1, <2>3 DEF SettleOK, NoEffect
    <3>2. QED BY <1>1, <1>2, <2>1, <2>3, <3>1, TakeBackStep
  <2>4. CASE Learn("object", Doubtful("object"))
    <3>1. PICK new \in Entry : new = Doubtful("object")
      BY <1>1, <1>2, <2>1, DoubtfulEntry
    <3>2. new # Absent /\ new.status = "Unknown"
      BY <1>1, <1>2, <2>1, <3>1, DoubtfulEntry
    <3>3. Learn("object", new)
      BY <2>4, <3>1
    <3>4. QED BY <1>1, <1>2, <2>1, <3>2, <3>3, LearnStep
  <2>5. QED BY <1>3, <2>2, <2>3, <2>4 DEF SettlePut
<1>4. CASE SettleDelete
  <2>1. call.op = "delete" /\ ResourceOf(call.op) = "object"
    BY <1>4 DEF SettleDelete, Op, ResourceOf
  <2>2. CASE call.answer \in {"ok", "NotFound"} /\ Learn("object", Absent)
    <3>1. "content" \notin disturbed => Holds("object", Absent)
      BY <1>1, <1>2, <2>1, <2>2 DEF SettleOK, Holds
    <3>2. QED BY <1>1, <1>2, <2>1, <2>2, <3>1, LearnStep
  <2>3. CASE call.answer \in StorageNoEffect /\ TakeBack("object")
    <3>1. Untouched
      BY <1>1, <1>2, <2>1, <2>3 DEF SettleOK, NoEffect
    <3>2. QED BY <1>1, <1>2, <2>1, <2>3, <3>1, TakeBackStep
  <2>4. CASE Learn("object", Doubtful("object"))
    <3>1. PICK new \in Entry : new = Doubtful("object")
      BY <1>1, <1>2, <2>1, DoubtfulEntry
    <3>2. new # Absent /\ new.status = "Unknown"
      BY <1>1, <1>2, <2>1, <3>1, DoubtfulEntry
    <3>3. Learn("object", new)
      BY <2>4, <3>1
    <3>4. QED BY <1>1, <1>2, <2>1, <3>2, <3>3, LearnStep
  <2>5. QED BY <1>4, <2>2, <2>3, <2>4 DEF SettleDelete
<1>5. CASE SettlePublish
  <2>1. call.op = "publish" /\ ResourceOf(call.op) = "site"
    BY <1>5 DEF SettlePublish, Op, ResourceOf
  <2>2. CASE call.answer = "ok" /\ Learn("site", Confirmed(call.id))
    <3>1. PICK d \in Deployment : d = call.id
      BY <1>1, <1>2, <2>1, <2>2 DEF SettleOK
    <3>2. Confirmed(d) \in Entry /\ Confirmed(d).value = d /\ Confirmed(d) # Absent
      BY AbsentRecords DEF Confirmed, Entry, Value
    <3>3. "content" \notin disturbed => made = d /\ build[d] = "ready"
      BY <1>1, <1>2, <2>1, <2>2, <3>1 DEF SettleOK
    <3>4. "content" \notin disturbed => Holds("site", Confirmed(d))
      BY <3>2, <3>3 DEF Holds
    <3>5. Learn("site", Confirmed(d))
      BY <2>2, <3>1
    <3>6. QED BY <1>1, <1>2, <2>1, <3>2, <3>4, <3>5, LearnStep
  <2>3. CASE call.answer \in HostingNoEffect /\ TakeBack("site")
    <3>1. Untouched
      BY <1>1, <1>2, <2>1, <2>3 DEF SettleOK, NoEffect
    <3>2. QED BY <1>1, <1>2, <2>1, <2>3, <3>1, TakeBackStep
  <2>4. CASE Learn("site", Doubtful("site"))
    <3>1. PICK new \in Entry : new = Doubtful("site")
      BY <1>1, <1>2, <2>1, DoubtfulEntry
    <3>2. new # Absent /\ new.status = "Unknown"
      BY <1>1, <1>2, <2>1, <3>1, DoubtfulEntry
    <3>3. Learn("site", new)
      BY <2>4, <3>1
    <3>4. QED BY <1>1, <1>2, <2>1, <3>2, <3>3, LearnStep
  <2>5. QED BY <1>5, <2>2, <2>3, <2>4 DEF SettlePublish
<1>6. QED BY <1>3, <1>4, <1>5

-----------------------------------------------------------------------------
(* The announcement, the stop and the rest of the world.                   *)

LEMMA AnnounceStep ==
  ASSUME CallsInv, NEW r \in Resource, Settleable(r),
         NEW value \in Value,
         NEW op \in {"put", "delete", "publish"}, r = ResourceOf(op),
         NEW want \in Bytes \cup {Absent},
         NEW stage \in {"content", "client", "credential"},
         stage = "content" => op = "put",
         stage = "client" => op = "publish",
         op = "put" => stage = "content",
         op = "publish" => made < MaxDeployments,
         Announce(r, value, Fresh(op, want, stage))
  PROVE  CallsInv'
<1> USE DEF CallsInv
<1>1. /\ call' = Fresh(op, want, stage) /\ previous' = entry[r]
      /\ entry' = [entry EXCEPT ![r] = [status |-> "Pending", value |-> value]]
      /\ disturbed' = {} /\ inexact' = inexact
      /\ credential' = credential /\ access' = access /\ object' = object
      /\ made' = made /\ build' = build
  BY DEF Announce, service
<1>2. /\ call' \in Call /\ call'.op = op /\ call'.stage = stage
      /\ call'.tries = 0
  BY <1>1 DEF Fresh, Call
<1>3. /\ [status |-> "Pending", value |-> value] \in Entry
      /\ entry[r] \in Entry \cup {Absent}
  BY DEF Entry, TypeOK
<1>4. TypeOK'
  BY <1>1, <1>2, <1>3 DEF TypeOK
<1>5. entry'[r] = [status |-> "Pending", value |-> value] /\ entry'[r] # Absent
  BY <1>1, <1>3, AbsentRecords DEF TypeOK
<1>6. SettledHold'
  <2> SUFFICES ASSUME NEW q \in Resource, q \notin inexact,
                      entry'[q] # Absent => entry'[q].status = "Confirmed"
               PROVE  Holds(q, entry[q])'
    BY <1>1 DEF SettledHold, Settleable
  <2>1. q # r
    BY <1>5
  <2>2. entry'[q] = entry[q]
    BY <1>1, <2>1 DEF TypeOK
  <2>3. QED BY <1>1, <2>2 DEF SettledHold, Settleable, Holds
<1>7. PendingOK'
  BY <1>1, <1>2, <1>5 DEF PendingOK, ResourceOf, Settleable
<1>8. GoneOK'
  BY <1>1 DEF GoneOK
<1>9. r \notin inexact => Holds(r, entry[r])
  BY DEF SettledHold
<1>10. Untouched'
  BY <1>1, <1>2, <1>9 DEF Untouched, Holds, ResourceOf
<1>11. StageOK'
  BY <1>1, <1>2, <1>10 DEF StageOK, BeforeOK, SendOK, PollOK, SettleOK
<1>12. QED BY <1>4, <1>6, <1>7, <1>8, <1>11

LEMMA BeginStep ==
  ASSUME CallsInv, BeginPut \/ BeginDelete \/ BeginPublish
  PROVE  CallsInv'
<1>1. "object" \in Resource /\ "site" \in Resource
  BY DEF Resource
<1>2. CASE BeginPut
  <2>1. PICK b \in Bytes : /\ Settleable("object")
                           /\ Announce("object", b, Fresh("put", b, "content"))
    BY <1>2 DEF BeginPut
  <2>2. b \in Value /\ "object" = ResourceOf("put")
    BY DEF Value, ResourceOf
  <2>3. QED BY <1>1, <2>1, <2>2, AnnounceStep
<1>3. CASE BeginDelete
  <2>1. PICK v \in Value : v = entry["object"].value
    BY <1>1, <1>3 DEF BeginDelete, CallsInv, TypeOK, Entry
  <2>2. /\ Settleable("object")
        /\ Announce("object", v, Fresh("delete", Absent, "credential"))
    BY <1>3, <2>1 DEF BeginDelete
  <2>3. "object" = ResourceOf("delete")
    BY DEF ResourceOf
  <2>4. QED BY <1>1, <2>2, <2>3, AnnounceStep
<1>4. CASE BeginPublish
  <2>1. /\ Settleable("site") /\ made < MaxDeployments
        /\ Announce("site", 0, Fresh("publish", Absent, "client"))
    BY <1>4 DEF BeginPublish
  <2>2. 0 \in Value /\ "site" = ResourceOf("publish")
    BY DEF Value, ResourceOf
  <2>3. QED BY <1>1, <2>1, <2>2, AnnounceStep
<1>5. QED BY <1>2, <1>3, <1>4

LEMMA StopStep ==
  ASSUME CallsInv, Stop
  PROVE  CallsInv'
<1> USE DEF CallsInv
<1>1. /\ call' = Absent /\ previous' = Absent /\ disturbed' = {}
      /\ entry' = entry /\ inexact' = inexact
      /\ credential' = credential /\ access' = access /\ object' = object
      /\ made' = made /\ build' = build
  BY DEF Stop, service
<1>2. TypeOK'
  BY <1>1 DEF TypeOK
<1>3. SettledHold'
  BY <1>1 DEF SettledHold, Settleable, Holds
<1>4. QED BY <1>1, <1>2, <1>3 DEF PendingOK, GoneOK, StageOK

LEMMA BuildStep ==
  ASSUME CallsInv, BuildEnds
  PROVE  CallsInv'
<1> USE DEF CallsInv
<1>1. /\ call' = call /\ previous' = previous /\ disturbed' = disturbed
      /\ entry' = entry /\ inexact' = inexact
      /\ credential' = credential /\ access' = access /\ object' = object
      /\ made' = made
  BY DEF BuildEnds
<1>2. /\ build' \in [Deployment -> {"none", "building", "ready", "failed"}]
      /\ \A d \in Deployment : build[d] = "ready" => build'[d] = "ready"
      /\ \A d \in Deployment : build[d] # "none" => build'[d] # "none"
  BY DEF BuildEnds, TypeOK
<1>3. made \in Deployment /\ build[made] = "ready" => build'[made] = "ready"
  BY <1>2
<1>4. TypeOK'
  BY <1>1, <1>2 DEF TypeOK
<1>5. SettledHold'
  <2>1. SUFFICES ASSUME NEW r \in Resource, Settleable(r)', (r \notin inexact)'
                 PROVE  Holds(r, entry[r])'
    BY DEF SettledHold
  <2>2. Settleable(r) /\ r \notin inexact
    BY <1>1, <2>1 DEF Settleable
  <2>3. Holds(r, entry[r])
    BY <2>2 DEF SettledHold
  <2>4. Holds(r, entry[r]) => Holds(r, entry[r])'
    BY <1>1, <1>3 DEF Holds
  <2>5. QED BY <2>3, <2>4
<1>6. PendingOK' /\ GoneOK'
  BY <1>1 DEF PendingOK, GoneOK
<1>7. Untouched => Untouched'
  BY <1>1, <1>3 DEF Untouched, Holds
<1>8. StageOK'
  <2> SUFFICES ASSUME call # Absent PROVE (BeforeOK /\ SendOK /\ PollOK /\ SettleOK)'
    BY <1>1 DEF StageOK
  <2>1. BeforeOK /\ SendOK /\ PollOK /\ SettleOK
    BY DEF StageOK
  <2>2. BeforeOK' /\ SendOK'
    BY <1>1, <1>7, <2>1 DEF BeforeOK, SendOK
  <2>3. PollOK'
    BY <1>1, <1>2, <2>1 DEF PollOK
  <2>4. SettleOK'
    BY <1>1, <1>2, <1>7, <2>1 DEF SettleOK
  <2>5. QED BY <2>2, <2>3, <2>4
<1>9. QED BY <1>4, <1>5, <1>6, <1>8

LEMMA CredentialOnlyStep ==
  ASSUME CallsInv, credential' \in {"set", "missing", "unreadable"},
         UNCHANGED <<service, entry, previous, call, disturbed, inexact>>
  PROVE  CallsInv'
<1> USE DEF CallsInv
<1>1. /\ call' = call /\ previous' = previous /\ disturbed' = disturbed
      /\ entry' = entry /\ inexact' = inexact
      /\ access' = access /\ object' = object
      /\ made' = made /\ build' = build
  BY DEF service
<1>2. TypeOK'
  BY <1>1 DEF TypeOK
<1>3. SettledHold'
  BY <1>1 DEF SettledHold, Settleable, Holds
<1>4. PendingOK' /\ GoneOK'
  BY <1>1 DEF PendingOK, GoneOK
<1>5. StageOK'
  BY <1>1 DEF StageOK, BeforeOK, SendOK, PollOK, SettleOK, Untouched, Holds
<1>6. QED BY <1>2, <1>3, <1>4, <1>5

LEMMA AccessStep ==
  ASSUME CallsInv, AccessChanges
  PROVE  CallsInv'
<1> USE DEF CallsInv
<1>1. /\ call' = call /\ previous' = previous /\ entry' = entry
      /\ credential' = credential /\ made' = made
      /\ access' \in {"granted", "denied", "gone"}
  BY DEF AccessChanges
<1>2. CASE access' = "gone"
  <2>1. /\ object' = Absent /\ inexact' = Resource
        /\ build' = [d \in Deployment |->
                       IF build[d] = "none" THEN "none" ELSE "failed"]
        /\ disturbed' = IF call = Absent THEN {} ELSE {"access", "content"}
    BY <1>2 DEF AccessChanges
  <2>2. TypeOK'
    BY <1>1, <2>1 DEF TypeOK
  <2>3. SettledHold' /\ GoneOK'
    BY <2>1 DEF SettledHold, GoneOK
  <2>4. PendingOK'
    BY <1>1 DEF PendingOK
  <2>5. ASSUME call # Absent
        PROVE  (BeforeOK /\ SendOK /\ PollOK /\ SettleOK)'
    <3>1. BeforeOK /\ SendOK /\ PollOK /\ SettleOK
      BY <2>5 DEF StageOK
    <3>2. "content" \in disturbed' /\ disturbed' # {}
      BY <2>1, <2>5
    <3>3. Untouched'
      BY <3>2 DEF Untouched
    <3>4. BeforeOK' /\ SendOK'
      BY <1>1, <3>1, <3>3 DEF BeforeOK, SendOK
    <3>5. PollOK'
      BY <1>1, <2>1, <3>1, <3>2 DEF PollOK
    <3>6. SettleOK'
      BY <1>1, <3>1, <3>2, <3>3 DEF SettleOK
    <3>7. QED BY <3>4, <3>5, <3>6
  <2>6. StageOK'
    BY <1>1, <2>5 DEF StageOK
  <2>7. QED BY <2>2, <2>3, <2>4, <2>6
<1>3. CASE access' # "gone"
  <2>1. /\ object' = object /\ inexact' = inexact /\ build' = build
        /\ disturbed' = IF call = Absent THEN {} ELSE disturbed \cup {"access"}
    BY <1>3 DEF AccessChanges
  <2>2. TypeOK'
    BY <1>1, <2>1 DEF TypeOK
  <2>3. SettledHold' /\ GoneOK'
    BY <1>1, <1>3, <2>1 DEF SettledHold, GoneOK, Settleable, Holds
  <2>4. PendingOK'
    BY <1>1 DEF PendingOK
  <2>5. ASSUME call # Absent
        PROVE  (BeforeOK /\ SendOK /\ PollOK /\ SettleOK)'
    <3>1. BeforeOK /\ SendOK /\ PollOK /\ SettleOK
      BY <2>5 DEF StageOK
    <3>2. /\ "content" \in disturbed' <=> "content" \in disturbed
          /\ disturbed' # {}
      BY <2>1, <2>5
    <3>3. Untouched'
      BY <3>2 DEF Untouched
    <3>4. BeforeOK' /\ SendOK'
      BY <1>1, <3>1, <3>3 DEF BeforeOK, SendOK
    <3>5. PollOK'
      BY <1>1, <2>1, <3>1, <3>2 DEF PollOK
    <3>6. SettleOK'
      BY <1>1, <2>1, <3>1, <3>2, <3>3 DEF SettleOK
    <3>7. QED BY <3>4, <3>5, <3>6
  <2>6. StageOK'
    BY <1>1, <2>5 DEF StageOK
  <2>7. QED BY <2>2, <2>3, <2>4, <2>6
<1>4. QED BY <1>2, <1>3

LEMMA CallsStep == CallsInv /\ [Next]_vars => CallsInv'
<1> SUFFICES ASSUME CallsInv, [Next]_vars PROVE CallsInv'
  OBVIOUS
<1>1. CASE BeginPut \/ BeginDelete \/ BeginPublish
  BY <1>1, BeginStep
<1>2. CASE Step
  BY <1>2, ContentStep, ClientStep, CredentialStep, PutStep, DeleteStep,
     CreateStep, GetStep, LookStep, SettlesStep DEF Step
<1>3. CASE Stop
  BY <1>3, StopStep
<1>4. CASE BuildEnds
  BY <1>4, BuildStep
<1>5. CASE CredentialChanges
  BY <1>5, CredentialOnlyStep DEF CredentialChanges
<1>6. CASE AccessChanges
  BY <1>6, AccessStep
<1>7. CASE UNCHANGED vars
  <2>1. credential' \in {"set", "missing", "unreadable"}
    BY <1>7 DEF vars, CallsInv, TypeOK
  <2>2. UNCHANGED <<service, entry, previous, call, disturbed, inexact>>
    BY <1>7 DEF vars
  <2>3. QED BY <2>1, <2>2, CredentialOnlyStep
<1>8. QED BY <1>1, <1>2, <1>3, <1>4, <1>5, <1>6, <1>7 DEF Next, World

LEMMA CallsInvariance == Spec => []CallsInv
BY InitCalls, CallsStep, PTL DEF Spec

-----------------------------------------------------------------------------
(* What a step does to the ledger.                                         *)

LEMMA SettledEntry ==
  ASSUME TypeOK, NEW r \in Resource, NEW q \in Resource, NEW new, NEW exact,
         Settle(r, new, exact)
  PROVE  entry'[q] = IF q = r THEN new ELSE entry[q]
BY DEF TypeOK, Settle

\* An entry that becomes Unknown is that of an operation that was asked for.
LEMMA DoubtIsEarned ==
  ASSUME CallsInv, SettlePut \/ SettleDelete \/ SettlePublish,
         NEW q \in Resource,
         entry'[q] # entry[q], entry'[q] # Absent,
         entry'[q].status = "Unknown"
  PROVE  call.asked \/ ~call.built
<1>1. /\ TypeOK
      /\ call # Absent /\ call.stage = "settle"
      /\ previous # Absent => previous.status = "Confirmed"
      /\ SettleOK
  BY DEF CallsInv, PendingOK, StageOK, SettlePut, SettleDelete, SettlePublish, At
<1>2. SUFFICES call.answer \notin NoEffect(call.op) \cup {"ok"}
  BY <1>1 DEF SettleOK
<1>3. ASSUME NEW r \in Resource, NEW v, Learn(r, Confirmed(v)) PROVE FALSE
  <2>1. entry'[q] = IF q = r THEN Confirmed(v) ELSE entry[q]
    BY <1>1, <1>3, SettledEntry DEF Learn
  <2>2. QED BY <2>1 DEF Confirmed
<1>4. ASSUME NEW r \in Resource, TakeBack(r) PROVE FALSE
  <2>1. entry'[q] = IF q = r THEN previous ELSE entry[q]
    BY <1>1, <1>4, SettledEntry DEF TakeBack
  <2>2. QED BY <1>1, <2>1
<1>5. ASSUME NEW r \in Resource, Learn(r, Absent) PROVE FALSE
  <2>1. entry'[q] = IF q = r THEN Absent ELSE entry[q]
    BY <1>1, <1>5, SettledEntry DEF Learn
  <2>2. QED BY <2>1
<1>6. "object" \in Resource /\ "site" \in Resource
  BY DEF Resource
<1>7. CASE SettlePut
  <2>1. call.op = "put" /\ call.answer \notin StorageNoEffect \cup {"ok"}
    BY <1>3, <1>4, <1>6, <1>7 DEF SettlePut, Op
  <2>2. QED BY <2>1 DEF NoEffect
<1>8. CASE SettleDelete
  <2>1. /\ call.op = "delete"
        /\ call.answer \notin StorageNoEffect \cup {"ok", "NotFound"}
    BY <1>4, <1>5, <1>6, <1>8 DEF SettleDelete, Op
  <2>2. QED BY <2>1 DEF NoEffect
<1>9. CASE SettlePublish
  <2>1. call.op = "publish" /\ call.answer \notin HostingNoEffect \cup {"ok"}
    BY <1>3, <1>4, <1>6, <1>9 DEF SettlePublish, Op
  <2>2. QED BY <2>1 DEF NoEffect
<1>10. QED BY <1>7, <1>8, <1>9

LEMMA AnnouncedEntry ==
  ASSUME TypeOK, BeginPut \/ BeginDelete \/ BeginPublish,
         NEW q \in Resource, entry'[q] # entry[q]
  PROVE  entry'[q].status = "Pending"
<1>1. ASSUME NEW r, NEW v, NEW new, Announce(r, v, new)
      PROVE  entry'[q].status = "Pending"
  <2>1. entry'[q] = IF q = r THEN [status |-> "Pending", value |-> v]
                    ELSE entry[q]
    BY <1>1 DEF TypeOK, Announce
  <2>2. QED BY <2>1
<1>2. QED BY <1>1 DEF BeginPut, BeginDelete, BeginPublish

LEMMA OtherEntries ==
  ASSUME \/ ReadContent \/ BuildClient \/ ReadCredential \/ SendPut
         \/ SendDelete \/ CreateDeployment \/ GetDeployment \/ Look
         \/ Stop \/ World \/ UNCHANGED vars
  PROVE  entry' = entry
BY DEF ReadContent, BuildClient, ReadCredential, SendPut, SendDelete,
       CreateDeployment, GetDeployment, Look, Stop, World, BuildEnds,
       CredentialChanges, AccessChanges, Quiet, vars

-----------------------------------------------------------------------------

\* Every state of an operation is one that the providers and the executors
\* can be in.
THEOREM CallsTypeCorrect == Spec => []TypeOK
BY CallsInvariance, PTL DEF CallsInv

\* What the ledger is certain of is stored and served, however often a
\* request is repeated, and whatever is lost, refused or withdrawn meanwhile.
THEOREM CertaintyIsTrue == Spec => []SettledIsTrue
<1>1. CallsInv => SettledIsTrue
  BY SettledHoldIsTrue DEF CallsInv
<1>2. QED BY <1>1, CallsInvariance, PTL

\* An entry becomes Unknown only by an operation whose request has left for
\* the network, or whose HTTP client or request could not be built: of all
\* the troubles of this computer, the last is the only one that the code
\* takes for an open outcome.
THEOREM DoubtNeedsARequest == Spec => UnknownMeansARequest
<1>1. CallsInv /\ [Next]_vars =>
        [\A r \in Resource :
            (entry'[r] # entry[r] /\ entry'[r] # Absent
                /\ entry'[r].status = "Unknown")
            => call.asked \/ ~call.built]_vars
  <2>1. SUFFICES ASSUME CallsInv, [Next]_vars, NEW r \in Resource,
                        entry'[r] # entry[r], entry'[r] # Absent,
                        entry'[r].status = "Unknown"
                 PROVE  call.asked \/ ~call.built
    OBVIOUS
  <2>2. ~(BeginPut \/ BeginDelete \/ BeginPublish)
    BY <2>1, AnnouncedEntry DEF CallsInv
  <2>3. SettlePut \/ SettleDelete \/ SettlePublish
    BY <2>1, <2>2, OtherEntries DEF Next, Step
  <2>4. QED BY <2>1, <2>3, DoubtIsEarned
<1>2. QED BY <1>1, CallsInvariance, PTL DEF Spec, UnknownMeansARequest

-----------------------------------------------------------------------------
(* The operations, request by request, are announced effects.              *)

\* What a service holds of a resource, and what the ledger says it holds.
RealOf(r) ==
    IF r = "object" THEN object
    ELSE IF made = 0 THEN Absent
    ELSE [last |-> made, build |-> build[made]]

KnownOf(r) ==
    IF ~Certain(r) THEN Uncertain
    ELSE IF entry[r] = Absent THEN Absent
    ELSE IF r = "object" THEN entry[r].value
    ELSE [last |-> entry[r].value, build |-> "ready"]

LEMMA CertainIsReal ==
  CallsInv => \A r \in Resource : Certain(r) => RealOf(r) = KnownOf(r)
<1> SUFFICES ASSUME CallsInv, NEW r \in Resource, Certain(r)
             PROVE  RealOf(r) = KnownOf(r)
  OBVIOUS
<1>1. Holds(r, entry[r])
  BY DEF CallsInv, SettledHold, Certain
<1>2. CASE r = "object"
  BY <1>1, <1>2 DEF Holds, RealOf, KnownOf
<1>3. CASE r = "site"
  <2>1. r # "object"
    BY <1>3
  <2>2. CASE entry[r] = Absent
    BY <1>1, <2>1, <2>2 DEF Holds, RealOf, KnownOf
  <2>3. CASE entry[r] # Absent
    <3>1. made # 0 /\ made = entry[r].value /\ build[made] = "ready"
      BY <1>1, <2>1, <2>3 DEF Holds, Deployment
    <3>2. QED BY <2>1, <2>3, <3>1 DEF RealOf, KnownOf
  <2>4. QED BY <2>2, <2>3
<1>4. QED BY <1>2, <1>3 DEF Resource

LEMMA CertainIsRealAfter ==
  CallsInv' => (\A r \in Resource : Certain(r) => RealOf(r) = KnownOf(r))'
BY CertainIsReal, PTL

LEMMA RealIsAValue ==
  TypeOK => \A r \in Resource : RealOf(r) \in Bytes \cup Served \cup {Absent}
<1> SUFFICES ASSUME TypeOK, NEW r \in Resource
             PROVE  RealOf(r) \in Bytes \cup Served \cup {Absent}
  OBVIOUS
<1>1. made # 0 => [last |-> made, build |-> build[made]] \in Served
  BY DEF TypeOK, Served
<1>2. QED BY <1>1 DEF TypeOK, RealOf

LEMMA InitAnnounced == Init => Announced!EInit
BY DEF Init, Announced!EInit, Certain, Settleable

LEMMA AnnouncedBy ==
  ASSUME NEW A \in SUBSET Resource,
         \A q \in Resource : RealOf(q)' = RealOf(q),
         \A q \in Resource :
            KnownOf(q)' = IF q \in A THEN Uncertain ELSE KnownOf(q)
  PROVE  Announced!ENext
<1>1. Announced!Announce(A)
  BY DEF Announced!Announce, RealOf, KnownOf
<1>2. QED BY <1>1 DEF Announced!ENext

LEMMA LearntBy ==
  ASSUME NEW A \in SUBSET Resource,
         \A q \in Resource : RealOf(q)' = RealOf(q),
         \A q \in A : KnownOf(q) = Uncertain,
         \A q \in Resource :
            KnownOf(q)' = IF q \in A THEN RealOf(q) ELSE KnownOf(q)
  PROVE  Announced!ENext
<1>1. Announced!Learn(A)
  BY DEF Announced!Learn, RealOf, KnownOf
<1>2. QED BY <1>1 DEF Announced!ENext

\* What leaves the ledger alone can only change what it is not certain of:
\* it is right about the rest before the step, and after it.
LEMMA HappensBy ==
  ASSUME CallsInv, CallsInv', entry' = entry, inexact' = inexact
  PROVE  Announced!ENext
<1>1. \A q \in Resource : KnownOf(q)' = KnownOf(q)
  BY DEF KnownOf, Certain, Settleable
<1>2. TypeOK' =>
         (\A r \in Resource : RealOf(r) \in Bytes \cup Served \cup {Absent})'
  BY RealIsAValue, PTL
<1>3. ASSUME NEW q \in Resource, KnownOf(q) # Uncertain
      PROVE  RealOf(q)' = RealOf(q)
  <2>1. Certain(q)
    BY <1>3 DEF KnownOf
  <2>2. Certain(q)'
    BY <2>1 DEF Certain, Settleable
  <2>3. QED BY <1>1, <2>1, <2>2, CertainIsReal, CertainIsRealAfter
<1>4. Announced!Happen
  BY <1>1, <1>2, <1>3 DEF Announced!Happen, RealOf, KnownOf, CallsInv
<1>5. QED BY <1>4 DEF Announced!ENext

\* An operation is announced before its first request.
LEMMA BeginAnnounces ==
  ASSUME CallsInv, BeginPut \/ BeginDelete \/ BeginPublish
  PROVE  Announced!ENext
<1>1. ASSUME NEW r \in Resource, NEW v \in Value, NEW new,
             Announce(r, v, new)
      PROVE  Announced!ENext
  <2>1. /\ entry' = [entry EXCEPT ![r] = [status |-> "Pending", value |-> v]]
        /\ entry \in [Resource -> Entry \cup {Absent}]
        /\ object' = object /\ made' = made /\ build' = build
        /\ inexact' = inexact
    BY <1>1 DEF Announce, service, CallsInv, TypeOK
  <2>2. entry'[r].status = "Pending" /\ entry'[r] # Absent
    <3>1. [status |-> "Pending", value |-> v] \in Entry
      BY DEF Entry
    <3>2. QED BY <2>1, <3>1, AbsentRecords
  <2>3. ASSUME NEW q \in Resource
        PROVE  KnownOf(q)' = IF q \in {r} THEN Uncertain ELSE KnownOf(q)
    BY <2>1, <2>2 DEF KnownOf, Certain, Settleable
  <2>4. \A q \in Resource : RealOf(q)' = RealOf(q)
    BY <2>1 DEF RealOf
  <2>5. QED BY <2>3, <2>4, AnnouncedBy
<1>2. CASE BeginPut
  BY <1>1, <1>2 DEF BeginPut, Resource, Value
<1>3. CASE BeginDelete
  <2>1. entry["object"].value \in Value
    BY <1>3 DEF BeginDelete, CallsInv, TypeOK, Entry, Resource
  <2>2. QED BY <1>1, <1>3, <2>1 DEF BeginDelete, Resource
<1>4. CASE BeginPublish
  BY <1>1, <1>4 DEF BeginPublish, Resource, Value
<1>5. QED BY <1>2, <1>3, <1>4

\* What an operation has learnt is so, and what it has not learnt stays
\* uncertain.
LEMMA SettleLearns ==
  ASSUME CallsInv, CallsInv', call # Absent, NEW new, NEW exact,
         Settle(ResourceOf(call.op), new, exact)
  PROVE  Announced!ENext
<1>1. PICK r \in Resource : r = ResourceOf(call.op)
  BY DEF ResourceOf, Resource
<1>2. KnownOf(r) = Uncertain
  BY <1>1 DEF CallsInv, PendingOK, KnownOf, Certain, Settleable
<1>3. Settle(r, new, exact)
  BY <1>1
<1>4. \A q \in Resource : RealOf(q)' = RealOf(q)
  BY <1>3 DEF Settle, service, RealOf
<1>5. \A q \in Resource : q # r => KnownOf(q)' = KnownOf(q)
  <2> SUFFICES ASSUME NEW q \in Resource, q # r
               PROVE  KnownOf(q)' = KnownOf(q)
    OBVIOUS
  <2>1. entry'[q] = entry[q] /\ (q \in inexact' <=> q \in inexact)
    BY <1>1, <1>3, SettledEntry DEF CallsInv, Settle
  <2>2. QED BY <2>1 DEF KnownOf, Certain, Settleable
<1>6. CASE Certain(r)'
  <2>1. KnownOf(r)' = RealOf(r)
    BY <1>1, <1>4, <1>6, CertainIsRealAfter
  <2>2. /\ \A q \in {r} : KnownOf(q) = Uncertain
        /\ \A q \in Resource :
              KnownOf(q)' = IF q \in {r} THEN RealOf(q) ELSE KnownOf(q)
    BY <1>2, <1>5, <2>1
  <2>3. QED BY <1>1, <1>4, <2>2, LearntBy
<1>7. CASE ~Certain(r)'
  <2>1. KnownOf(r)' = Uncertain
    BY <1>7 DEF KnownOf
  <2>2. \A q \in Resource :
           KnownOf(q)' = IF q \in {r} THEN Uncertain ELSE KnownOf(q)
    BY <1>5, <2>1
  <2>3. QED BY <1>1, <1>4, <2>2, AnnouncedBy
<1>8. QED BY <1>6, <1>7

LEMMA CallsAnnounced ==
  ASSUME CallsInv, CallsInv', [Next]_vars
  PROVE  [Announced!ENext \/ Deleted]_(Announced!evars)
<1>1. CASE BeginPut \/ BeginDelete \/ BeginPublish
  BY <1>1, BeginAnnounces
<1>2. CASE SettlePut \/ SettleDelete \/ SettlePublish
  <2>1. call # Absent
    BY <1>2 DEF SettlePut, SettleDelete, SettlePublish, At
  <2>2. \E new, exact : Settle(ResourceOf(call.op), new, exact)
    BY <1>2 DEF SettlePut, SettleDelete, SettlePublish, TakeBack, Learn, Op,
                ResourceOf
  <2>3. QED BY <2>1, <2>2, SettleLearns
<1>3. CASE AccessChanges
  <2>1. CASE access' = "gone"
    BY <1>3, <2>1 DEF AccessChanges, Deleted
  <2>2. CASE access' # "gone"
    BY <1>3, <2>2, HappensBy DEF AccessChanges
  <2>3. QED BY <2>1, <2>2
<1>4. CASE \/ ReadContent \/ BuildClient \/ ReadCredential \/ SendPut
           \/ SendDelete \/ CreateDeployment \/ GetDeployment \/ Look
           \/ Stop \/ BuildEnds \/ CredentialChanges \/ UNCHANGED vars
  <2>1. entry' = entry
    BY <1>4, OtherEntries DEF World
  <2>2. inexact' = inexact
    BY <1>4 DEF ReadContent, BuildClient, ReadCredential, SendPut, SendDelete,
         CreateDeployment, GetDeployment, Look, Stop, BuildEnds,
         CredentialChanges, Quiet, vars
  <2>3. QED BY <2>1, <2>2, HappensBy
<1>5. QED BY <1>1, <1>2, <1>3, <1>4 DEF Next, Step, World

\* Request by request, the storage and hosting operations are announced
\* effects: every change is announced before it can happen, and the ledger
\* becomes certain again only of what is there, whatever is repeated, lost or
\* changed meanwhile; only that a bucket or a project is deleted is announced
\* by nobody.
THEOREM RequestsAnnounce == Spec => ImplementsAnnounced
<1>1. CallsInv /\ CallsInv' /\ [Next]_vars =>
        [Announced!ENext \/ Deleted]_(Announced!evars)
  BY CallsAnnounced
<1>2. QED
  BY <1>1, InitAnnounced, CallsInvariance, PTL DEF Spec, ImplementsAnnounced

-----------------------------------------------------------------------------
(* What is shown of an operation.                                          *)

\* Observing changes nothing: what is heard of an operation is added to it.
THEOREM ObservingChangesNothing == ObservedSpec => Spec
<1>1. ObservedInit => Init
  BY DEF ObservedInit
<1>2. [ObservedNext]_observed => [Next]_vars
  <2>1. CASE ObservedBegin
    BY <2>1 DEF ObservedBegin, Next
  <2>2. CASE RejectSource \/ CannotAnnounce \/ UNCHANGED observed
    BY <2>2 DEF RejectSource, CannotAnnounce, observed
  <2>3. CASE ObservedPut \/ ObservedDelete \/ ObservedPublish
    BY <2>3 DEF ObservedPut, ObservedDelete, ObservedPublish, Next, Step
  <2>4. CASE CannotRecord \/ Unheard
    BY <2>4 DEF CannotRecord, Unheard, Next, Step
  <2>5. QED BY <2>1, <2>2, <2>3, <2>4 DEF ObservedNext
<1>3. QED BY <1>1, <1>2, PTL DEF ObservedSpec, Spec

\* What the moment and the failure of an event say of the ledger's entry.
Agrees(r, e) ==
    /\ e.moment = "finished" =>
          IF e.operation = "delete" THEN entry[r] = Absent
          ELSE InState(r, "Confirmed")
    /\ (e.moment = "failed" /\ e.failure = "Ambiguous") <=> InState(r, "Unknown")
    /\ e.moment = "failed" /\ e.failure \in {"Rejected", "LocalValidation"} =>
          Settleable(r)
    /\ e.moment = "failed" /\ e.failure = "Inconsistent" =>
          InState(r, "Confirmed")

ToldAgrees == \A r \in Resource : told[r] # NothingTold => Agrees(r, told[r])

ShownInv == CallsInv /\ ToldOK /\ ToldAgrees

\* The words on the page and in the terminal tell the events apart.
LEMMA WordsTellApart ==
  ASSUME NEW e \in Event
  PROVE  /\ Tone(Sent(e)) = "done" <=> e.moment = "finished"
         /\ Line(e) = "could not be confirmed"
              <=> e.moment = "failed" /\ e.failure = "Ambiguous"
         /\ Line(e) \in {"was rejected", "failed in the local validation"}
              => e.moment = "failed" /\ e.failure \in {"Rejected", "LocalValidation"}
         /\ Line(e) = "found an inconsistent state"
              => e.moment = "failed" /\ e.failure = "Inconsistent"
<1>1. Tone(Sent(e)) = "done" <=> e.moment = "finished"
  BY DEF Event, Tone, Sent
<1>2. CASE e.moment # "failed"
  <2>1. Line(e) = e.moment
    BY <1>2 DEF Line
  <2>2. e.moment \in {"started", "finished"}
    BY <1>2 DEF Event
  <2>3. QED BY <1>1, <1>2, <2>1, <2>2
<1>3. CASE e.moment = "failed"
  <2>1. e.failure \in Failure
    BY <1>3 DEF Event
  <2>2. QED BY <1>1, <1>3, <2>1 DEF Line, Failure
<1>4. QED BY <1>2, <1>3

\* There is a payload for every event.
LEMMA EveryEventHasAPayload ==
  ASSUME NEW e \in Event
  PROVE  Sent(e) \in Payload
BY DEF Event, Sent, Payload

LEMMA AgreeingIsRecorded == ShownInv => ShownIsRecorded
<1> SUFFICES ASSUME ShownInv, NEW r \in Resource, told[r] # NothingTold
             PROVE  /\ Tone(Sent(told[r])) = "done" =>
                         /\ IF told[r].operation = "delete" THEN entry[r] = Absent
                            ELSE InState(r, "Confirmed")
                         /\ r = "object" /\ r \notin inexact =>
                               (object = Absent <=> told[r].operation = "delete")
                    /\ Line(told[r]) = "could not be confirmed"
                         <=> InState(r, "Unknown")
                    /\ Line(told[r]) \in
                         {"was rejected", "failed in the local validation"} =>
                         Settleable(r)
                    /\ Line(told[r]) = "found an inconsistent state" =>
                         InState(r, "Confirmed")
  BY DEF ShownIsRecorded
<1>1. told[r] \in Event /\ Agrees(r, told[r]) /\ TypeOK /\ SettledHold
  BY DEF ShownInv, CallsInv, ToldOK, ToldAgrees
<1>2. /\ Tone(Sent(told[r])) = "done" <=> told[r].moment = "finished"
      /\ Line(told[r]) = "could not be confirmed"
           <=> told[r].moment = "failed" /\ told[r].failure = "Ambiguous"
      /\ Line(told[r]) \in {"was rejected", "failed in the local validation"}
           => told[r].moment = "failed"
                /\ told[r].failure \in {"Rejected", "LocalValidation"}
      /\ Line(told[r]) = "found an inconsistent state"
           => told[r].moment = "failed" /\ told[r].failure = "Inconsistent"
  BY <1>1, WordsTellApart
\* A value is never Absent, so an object that is confirmed is there.
<1>3. ASSUME told[r].moment = "finished", r = "object", r \notin inexact
      PROVE  object = Absent <=> told[r].operation = "delete"
  <2>1. IF told[r].operation = "delete" THEN entry[r] = Absent
        ELSE InState(r, "Confirmed")
    BY <1>1, <1>3 DEF Agrees
  <2>2. Settleable(r)
    BY <2>1 DEF Settleable, InState
  <2>3. object = IF entry[r] = Absent THEN Absent ELSE entry[r].value
    BY <1>1, <1>3, <2>2 DEF SettledHold, Holds
  <2>4. entry[r] # Absent => entry[r].value \in Value
    BY <1>1 DEF TypeOK, Entry
  <2>5. Absent \notin Value
    BY AbsentBytes DEF Value, Deployment
  <2>6. QED BY <2>1, <2>3, <2>4, <2>5 DEF InState
<1>4. QED BY <1>1, <1>2, <1>3 DEF Agrees

\* An event is told of one resource; those of the other, and what they say of
\* it, stay.
LEMMA TellStep ==
  ASSUME ShownInv, CallsInv', NEW r \in Resource, NEW e \in Event, Tell(r, e),
         Agrees(r, e)',
         \A q \in Resource : q # r => entry'[q] = entry[q]
  PROVE  ShownInv'
<1>1. told' = [told EXCEPT ![r] = e] /\ told \in [Resource -> Event \cup {NothingTold}]
  BY DEF Tell, ShownInv, ToldOK
<1>2. ToldOK'
  <2>1. told' \in [Resource -> Event \cup {NothingTold}]
    BY <1>1
  <2>2. \A q \in Resource : told'[q] # NothingTold => Sent(told'[q]) \in Payload
    BY <2>1, EveryEventHasAPayload
  <2>3. QED BY <2>1, <2>2 DEF ToldOK, Sent
<1>3. ASSUME NEW q \in Resource
      PROVE  (told[q] # NothingTold => Agrees(q, told[q]))'
  <2>1. CASE q = r
    <3>1. told'[q] = e
      BY <1>1, <2>1
    <3>2. QED BY <2>1, <3>1 DEF Agrees, InState, Settleable
  <2>2. CASE q # r
    <3>1. told'[q] = told[q] /\ entry'[q] = entry[q]
      BY <1>1, <2>2
    <3>2. told[q] # NothingTold => Agrees(q, told[q])
      BY DEF ShownInv, ToldAgrees
    <3>3. QED BY <3>1, <3>2 DEF Agrees, InState, Settleable
  <2>3. QED BY <2>1, <2>2
<1>4. QED BY <1>2, <1>3 DEF ShownInv, ToldAgrees

LEMMA UnheardStep ==
  ASSUME ShownInv, CallsInv', told' = told, entry' = entry
  PROVE  ShownInv'
BY DEF ShownInv, ToldOK, ToldAgrees, Agrees, InState, Settleable

LEMMA BeginHeard ==
  ASSUME ShownInv, CallsInv', NEW r \in Resource, NEW v, NEW new,
         Announce(r, v, new), NEW op \in {"put", "delete", "publish"},
         Tell(r, Started(op))
  PROVE  ShownInv'
<1>1. /\ entry' = [entry EXCEPT ![r] = [status |-> "Pending", value |-> v]]
      /\ entry \in [Resource -> Entry \cup {Absent}]
  BY DEF Announce, ShownInv, CallsInv, TypeOK
<1>2. Started(op) \in Event
  BY DEF Started, Event
<1>3. Agrees(r, Started(op))'
  BY <1>1 DEF Agrees, Started, InState
<1>4. QED BY <1>1, <1>2, <1>3, TellStep

LEMMA SettleHeard ==
  ASSUME ShownInv, CallsInv', NEW r \in Resource, NEW new, NEW exact,
         Settle(r, new, exact), NEW e \in Event, Tell(r, e),
         /\ e.moment = "finished" =>
               IF e.operation = "delete" THEN new = Absent
               ELSE new # Absent /\ new.status = "Confirmed"
         /\ (e.moment = "failed" /\ e.failure = "Ambiguous")
               <=> new # Absent /\ new.status = "Unknown"
         /\ e.moment = "failed" /\ e.failure \in {"Rejected", "LocalValidation"}
               => (new # Absent => new.status = "Confirmed")
         /\ e.moment = "failed" /\ e.failure = "Inconsistent" =>
               new # Absent /\ new.status = "Confirmed"
  PROVE  ShownInv'
<1>1. \A q \in Resource : entry'[q] = IF q = r THEN new ELSE entry[q]
  BY SettledEntry DEF ShownInv, CallsInv
<1>2. Agrees(r, e)'
  BY <1>1 DEF Agrees, InState, Settleable
<1>3. QED BY <1>1, <1>2, TellStep

LEMMA DoubtfulIsUnknown ==
  ASSUME TypeOK, NEW r \in Resource, entry[r] # Absent
  PROVE  Doubtful(r) # Absent /\ Doubtful(r).status = "Unknown"
<1>1. entry[r] \in Entry
  BY DEF TypeOK
<1>2. Doubtful(r) \in Entry /\ Doubtful(r).status = "Unknown"
  BY <1>1 DEF Entry, Doubtful
<1>3. QED BY <1>2, AbsentRecords

LEMMA PutHeard ==
  ASSUME ShownInv, CallsInv', ObservedPut
  PROVE  ShownInv'
<1>1. /\ SettlePut /\ "object" \in Resource
      /\ TypeOK /\ call # Absent
      /\ previous # Absent => previous.status = "Confirmed"
  BY DEF ObservedPut, SettlePut, At, Resource, ShownInv, CallsInv, PendingOK
<1>2. CASE call.answer = "ok"
  <2>1. Settle("object", Confirmed(call.read), "content" \notin disturbed)
    BY <1>1, <1>2 DEF SettlePut, Learn, StorageNoEffect
  <2>2. PICK e \in {Finished("put"), Failed("put", "Inconsistent")} :
          Tell("object", e)
    BY <1>2 DEF ObservedPut, StorageFailure, StorageNoEffect
  <2>3. Confirmed(call.read) # Absent
    <3>1. TypeOK' /\ entry'["object"] = Confirmed(call.read)
      BY <1>1, <2>1, SettledEntry DEF CallsInv
    <3>2. call.read \in Value
      BY <1>1, <1>2 DEF SettlePut, At, ShownInv, CallsInv, StageOK, SettleOK,
         Op, Value
    <3>3. Confirmed(call.read) \in Entry
      BY <3>2 DEF Confirmed, Entry
    <3>4. QED BY <3>3, AbsentRecords
  <2>4. e \in Event
    BY <2>2 DEF Finished, Failed, Event, Failure
  <2>5. QED
    BY <1>1, <2>1, <2>2, <2>3, <2>4, SettleHeard DEF Finished, Failed, Confirmed
<1>3. CASE call.answer \in StorageNoEffect
  <2>1. call.answer # "ok"
    BY <1>3 DEF StorageNoEffect
  <2>2. Settle("object", previous, "object" \notin inexact /\ disturbed = {})
    BY <1>1, <1>3, <2>1 DEF SettlePut, TakeBack
  <2>3. Tell("object", Failed("put", "Rejected"))
    BY <1>3, <2>1 DEF ObservedPut, StorageFailure
  <2>4. Failed("put", "Rejected") \in Event
    BY DEF Failed, Event, Failure
  <2>5. QED
    BY <1>1, <2>2, <2>3, <2>4, SettleHeard DEF Failed
<1>4. CASE call.answer \notin StorageNoEffect \cup {"ok"}
  <2>1. Settle("object", Doubtful("object"), "content" \notin disturbed)
    BY <1>1, <1>4 DEF SettlePut, Learn
  <2>2. Tell("object", Failed("put", "Ambiguous"))
    BY <1>4 DEF ObservedPut, StorageFailure
  <2>3. Failed("put", "Ambiguous") \in Event
    BY DEF Failed, Event, Failure
  <2>4. Doubtful("object") # Absent /\ Doubtful("object").status = "Unknown"
    BY <1>1, <1>4, DoubtfulIsUnknown DEF SettlePut, At, Op, ResourceOf,
       ShownInv, CallsInv, PendingOK
  <2>5. QED
    BY <1>1, <2>1, <2>2, <2>3, <2>4, SettleHeard DEF Failed
<1>5. QED BY <1>2, <1>3, <1>4

LEMMA DeleteHeard ==
  ASSUME ShownInv, CallsInv', ObservedDelete
  PROVE  ShownInv'
<1>1. /\ SettleDelete /\ "object" \in Resource
      /\ TypeOK /\ call # Absent
      /\ previous # Absent => previous.status = "Confirmed"
  BY DEF ObservedDelete, SettleDelete, At, Resource, ShownInv, CallsInv, PendingOK
<1>2. CASE call.answer \in {"ok", "NotFound"}
  <2>1. Settle("object", Absent, "content" \notin disturbed)
    BY <1>1, <1>2 DEF SettleDelete, Learn, StorageNoEffect
  <2>2. Tell("object", Finished("delete"))
    BY <1>2 DEF ObservedDelete
  <2>3. Finished("delete") \in Event
    BY DEF Finished, Event
  <2>4. QED BY <1>1, <2>1, <2>2, <2>3, SettleHeard DEF Finished
<1>3. CASE call.answer \in StorageNoEffect \ {"NotFound"}
  <2>1. call.answer \notin {"ok", "NotFound"}
    BY <1>3 DEF StorageNoEffect
  <2>2. Settle("object", previous, "object" \notin inexact /\ disturbed = {})
    BY <1>1, <1>3, <2>1 DEF SettleDelete, TakeBack
  <2>3. Tell("object", Failed("delete", "Rejected"))
    BY <1>3, <2>1 DEF ObservedDelete, StorageFailure
  <2>4. Failed("delete", "Rejected") \in Event
    BY DEF Failed, Event, Failure
  <2>5. QED
    BY <1>1, <2>2, <2>3, <2>4, SettleHeard DEF Failed
<1>4. CASE call.answer \notin StorageNoEffect \cup {"ok", "NotFound"}
  <2>1. Settle("object", Doubtful("object"), "content" \notin disturbed)
    BY <1>1, <1>4 DEF SettleDelete, Learn
  <2>2. Tell("object", Failed("delete", "Ambiguous"))
    BY <1>4 DEF ObservedDelete, StorageFailure
  <2>3. Failed("delete", "Ambiguous") \in Event
    BY DEF Failed, Event, Failure
  <2>4. Doubtful("object") # Absent /\ Doubtful("object").status = "Unknown"
    BY <1>1, <1>4, DoubtfulIsUnknown DEF SettleDelete, At, Op, ResourceOf,
       ShownInv, CallsInv, PendingOK
  <2>5. QED
    BY <1>1, <2>1, <2>2, <2>3, <2>4, SettleHeard DEF Failed
<1>5. QED BY <1>2, <1>3, <1>4

LEMMA PublishHeard ==
  ASSUME ShownInv, CallsInv', ObservedPublish
  PROVE  ShownInv'
<1>1. /\ SettlePublish /\ "site" \in Resource
      /\ TypeOK /\ call # Absent
      /\ previous # Absent => previous.status = "Confirmed"
  BY DEF ObservedPublish, SettlePublish, At, Resource, ShownInv, CallsInv,
     PendingOK
<1>2. CASE call.answer = "ok"
  <2>1. Settle("site", Confirmed(call.id), "content" \notin disturbed)
    BY <1>1, <1>2 DEF SettlePublish, Learn, HostingNoEffect
  <2>2. Tell("site", Finished("publish"))
    BY <1>2 DEF ObservedPublish
  <2>3. Finished("publish") \in Event
    BY DEF Finished, Event
  <2>4. Confirmed(call.id) # Absent
    <3>1. call.id \in Value
      BY <1>1 DEF TypeOK, Call, Value
    <3>2. Confirmed(call.id) \in Entry
      BY <3>1 DEF Confirmed, Entry
    <3>3. QED BY <3>2, AbsentRecords
  <2>5. QED
    BY <1>1, <2>1, <2>2, <2>3, <2>4, SettleHeard DEF Finished, Confirmed
<1>3. CASE call.answer \in HostingNoEffect
  <2>1. call.answer # "ok"
    BY <1>3 DEF HostingNoEffect
  <2>2. Settle("site", previous, "site" \notin inexact /\ disturbed = {})
    BY <1>1, <1>3, <2>1 DEF SettlePublish, TakeBack
  <2>3. Tell("site", Failed("publish", "Rejected"))
    BY <1>3, <2>1 DEF ObservedPublish, HostingFailure
  <2>4. Failed("publish", "Rejected") \in Event
    BY DEF Failed, Event, Failure
  <2>5. QED
    BY <1>1, <2>2, <2>3, <2>4, SettleHeard DEF Failed
<1>4. CASE call.answer \notin HostingNoEffect \cup {"ok"}
  <2>1. Settle("site", Doubtful("site"), "content" \notin disturbed)
    BY <1>1, <1>4 DEF SettlePublish, Learn
  <2>2. Tell("site", Failed("publish", "Ambiguous"))
    BY <1>4 DEF ObservedPublish, HostingFailure
  <2>3. Failed("publish", "Ambiguous") \in Event
    BY DEF Failed, Event, Failure
  <2>4. Doubtful("site") # Absent /\ Doubtful("site").status = "Unknown"
    BY <1>1, <1>4, DoubtfulIsUnknown DEF SettlePublish, At, Op, ResourceOf,
       ShownInv, CallsInv, PendingOK
  <2>5. QED
    BY <1>1, <2>1, <2>2, <2>3, <2>4, SettleHeard DEF Failed
<1>5. QED BY <1>2, <1>3, <1>4

\* What happens before an operation is announced, or instead of recording
\* its result, leaves the entries alone; nothing then is in doubt.
LEMMA OnlyToldStep ==
  ASSUME ShownInv, CallsInv', NEW r \in Resource, entry' = entry,
         NEW op \in {"put", "delete", "publish"},
         NEW f \in {"LocalValidation", "Ledger"}, Tell(r, Failed(op, f)),
         ~InState(r, "Unknown"), f = "LocalValidation" => Settleable(r)
  PROVE  ShownInv'
<1>1. Failed(op, f) \in Event
  BY DEF Failed, Event, Failure
<1>2. Agrees(r, Failed(op, f))'
  BY DEF Agrees, Failed, InState, Settleable
<1>3. QED BY <1>1, <1>2, TellStep

LEMMA ShownStep == ShownInv /\ [ObservedNext]_observed /\ CallsInv' => ShownInv'
<1> SUFFICES ASSUME ShownInv, [ObservedNext]_observed, CallsInv'
             PROVE  ShownInv'
  OBVIOUS
<1> "object" \in Resource /\ "site" \in Resource
  BY DEF Resource
<1>1. CASE ObservedBegin
  <2>1. CASE BeginPut /\ Tell("object", Started("put"))
    BY <2>1, BeginHeard DEF BeginPut
  <2>2. CASE BeginDelete /\ Tell("object", Started("delete"))
    BY <2>2, BeginHeard DEF BeginDelete
  <2>3. CASE BeginPublish /\ Tell("site", Started("publish"))
    BY <2>3, BeginHeard DEF BeginPublish
  <2>4. QED BY <1>1, <2>1, <2>2, <2>3 DEF ObservedBegin
<1>2. CASE RejectSource
  <2>1. entry' = entry /\ Settleable("object")
    BY <1>2 DEF RejectSource, vars
  <2>2. ~InState("object", "Unknown")
    BY <2>1 DEF Settleable, InState
  <2>3. Tell("object", Failed("put", "LocalValidation"))
    BY <1>2 DEF RejectSource
  <2>4. QED BY <2>1, <2>2, <2>3, OnlyToldStep
<1>3. CASE CannotAnnounce
  <2>1. PICK r \in Resource, op \in {"put", "delete", "publish"} :
          Settleable(r) /\ Tell(r, Failed(op, "Ledger"))
    BY <1>3 DEF CannotAnnounce
  <2>2. entry' = entry
    BY <1>3 DEF CannotAnnounce, vars
  <2>3. ~InState(r, "Unknown")
    BY <2>1 DEF Settleable, InState
  <2>4. QED BY <2>1, <2>2, <2>3, OnlyToldStep
<1>4. CASE CannotRecord
  <2>1. /\ call # Absent /\ entry' = entry
        /\ Tell(ResourceOf(call.op), Failed(call.op, "Ledger"))
    BY <1>4 DEF CannotRecord, At, Stop, Op, ResourceOf
  <2>2. call.op \in {"put", "delete", "publish"}
    BY <2>1 DEF ShownInv, CallsInv, TypeOK, Call
  <2>3. ResourceOf(call.op) \in Resource
    BY DEF ResourceOf
  <2>4. ~InState(ResourceOf(call.op), "Unknown")
    BY <2>1 DEF InState, ShownInv, CallsInv, PendingOK
  <2>5. QED BY <2>1, <2>2, <2>3, <2>4, OnlyToldStep
<1>5. CASE Unheard
  BY <1>5, OtherEntries, UnheardStep DEF Unheard
<1>6. CASE UNCHANGED observed
  BY <1>6, UnheardStep DEF observed, vars
<1>7. QED
  BY <1>1, <1>2, <1>3, <1>4, <1>5, <1>6, PutHeard, DeleteHeard, PublishHeard
  DEF ObservedNext

\* What a photographer is shown last of an upload, of a deletion or of a
\* deployment is what the ledger has of it: nothing is shown as done that is
\* not recorded and so, and everything in doubt, and nothing else, is shown
\* as such.
THEOREM ShownOperations == ObservedSpec => []ShownIsRecorded
<1>1. ObservedInit => ShownInv
  BY InitCalls DEF ObservedInit, ShownInv, ToldOK, ToldAgrees
<1>2. ObservedSpec => []CallsInv
  BY ObservingChangesNothing, CallsInvariance
<1>3. ObservedSpec => []ShownInv
  BY <1>1, <1>2, ShownStep, PTL DEF ObservedSpec
<1>4. QED BY <1>3, AgreeingIsRecorded, PTL

=============================================================================
