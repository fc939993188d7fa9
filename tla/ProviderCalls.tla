---------------------------- MODULE ProviderCalls ----------------------------
(***************************************************************************)
(* One storage or hosting operation of `publish`, request by request: the  *)
(* executors (publisher-integration/src/executor.rs, hosting.rs) over the  *)
(* R2 and the Vercel provider.  RemotePublication takes an operation for a *)
(* call that is answered, refused or left unclear; SharedBranch does for   *)
(* the repository what this module does for the other two.                 *)
(*                                                                         *)
(* A provider turns what the service answers into a ProviderError, and the *)
(* executor judges by the error alone whether anything has happened.       *)
(***************************************************************************)
EXTENDS Naturals

CONSTANTS
    Bytes,            \* what a photo may hold
    Absent,           \* no object, no entry, no call
    Uncertain,        \* what the ledger does not know
    MaxShortRetries,  \* of a DELETE
    MaxGetRetries,    \* of a GET
    MaxPollAttempts,  \* looks at one deployment
    MaxDeployments    \* bound: the deployments that are ever created

ASSUME AbsentBytes == Absent \notin Bytes \cup Nat
ASSUME Limits ==
    /\ MaxShortRetries \in Nat /\ MaxGetRetries \in Nat
    /\ MaxPollAttempts \in Nat \ {0} /\ MaxDeployments \in Nat

VARIABLES
    credential,   \* for the service: "set", "missing" or "unreadable"
    access,       \* what it gives to the holder of the credential
    object,       \* what the bucket holds under the key
    made,         \* how many deployments there are
    build,        \* what has become of each
    entry,        \* the ledger's entries of the object and of the site
    previous,     \* the entry before the operation
    call,         \* the operation in progress
    disturbed,    \* history: what has changed during it, its access or,
                  \* by other hands, the content of the service
    inexact       \* history: the entries that such a change may leave wrong

service == <<access, object, made, build>>
vars == <<credential, service, entry, previous, call, disturbed, inexact>>

-----------------------------------------------------------------------------

Deployment == 1 .. MaxDeployments
Resource == {"object", "site"}

\* The value of a site is the number of its deployment.
Value == Bytes \cup Deployment \cup {0}
Entry == [status : {"Pending", "Confirmed", "Unknown"}, value : Value]

\* ProviderError
Error == {"NotFound", "AlreadyExists", "PermissionDenied",
          "AuthenticationRequired", "AuthenticationFailed", "Conflict",
          "InvalidPath", "InvalidKey", "Network", "Integrity", "Io",
          "Unsupported", "Other"}

Call == [op : {"put", "delete", "publish"},
         want : Bytes \cup {Absent},     \* the object that the plan names
         read : Bytes \cup {Absent},     \* the bytes that the provider has read
         id : Deployment \cup {0},       \* the deployment that was created
         seen : {"none", "pending", "ready", "failed", "unclear"},
         tries : Nat, polls : Nat,
         asked : BOOLEAN,                \* history: a request left for the network
         built : BOOLEAN,                \* the HTTP client and the request could be
         answer : Error \cup {"none", "ok"},
         stage : {"content", "client", "credential", "send", "poll", "settle"}]

ASSUME AbsentRecords == Absent \notin Entry /\ Absent \notin Call

\* What a service may answer, and whether it may have acted.
Reply == {"success", "unauthorized", "forbidden", "not found", "conflict",
          "throttled", "server error", "other status", "lost"}

Given(a) ==
    {"throttled", "server error", "lost"} \cup
        CASE a = "granted" -> {"success", "conflict", "other status"}
          [] a = "denied" -> {"unauthorized", "forbidden"}
          [] a = "gone" -> {"not found"}

Acted(reply) ==
    IF reply = "success" THEN {TRUE}
    ELSE IF reply \in {"server error", "lost"} /\ access = "granted" THEN BOOLEAN
    ELSE {FALSE}

\* R2StorageProvider::map_sdk_error, of an error; "unbuilt" is the
\* ConstructionFailure of a request that was never sent.
SdkError(reply) ==
    CASE reply = "unauthorized" -> "AuthenticationFailed"
      [] reply = "forbidden" -> "PermissionDenied"
      [] reply = "not found" -> "NotFound"
      [] reply = "conflict" -> "Conflict"
      [] reply \in {"throttled", "server error", "lost"} -> "Network"
      [] reply \in {"other status", "unbuilt"} -> "Other"

\* map_status of the Vercel provider, of a status that is no success.
StatusError(reply) ==
    CASE reply = "unauthorized" -> "AuthenticationFailed"
      [] reply = "forbidden" -> "PermissionDenied"
      [] reply = "not found" -> "NotFound"
      [] reply = "conflict" -> "Conflict"
      [] reply \in {"throttled", "server error"} -> "Network"
      [] OTHER -> "Other"

TypeOK ==
    /\ credential \in {"set", "missing", "unreadable"}
    /\ access \in {"granted", "denied", "gone"}
    /\ object \in Bytes \cup {Absent}
    /\ made \in Deployment \cup {0}
    /\ build \in [Deployment -> {"none", "building", "ready", "failed"}]
    /\ entry \in [Resource -> Entry \cup {Absent}]
    /\ previous \in Entry \cup {Absent}
    /\ call \in Call \cup {Absent}
    /\ disturbed \subseteq {"access", "content"}
    /\ inexact \subseteq Resource

Init ==
    /\ credential \in {"set", "missing", "unreadable"}
    /\ access \in {"granted", "denied", "gone"}
    /\ object = Absent
    /\ made = 0
    /\ build = [d \in Deployment |-> "none"]
    /\ entry = [r \in Resource |-> Absent]
    /\ previous = Absent
    /\ call = Absent
    /\ disturbed = {}
    /\ inexact = {}

-----------------------------------------------------------------------------
(* The executors announce an operation.                                    *)

Settleable(r) == entry[r] # Absent => entry[r].status = "Confirmed"

Fresh(op, want, stage) ==
    [op |-> op, want |-> want, read |-> Absent, id |-> 0, seen |-> "none",
     tries |-> 0, polls |-> 0, asked |-> FALSE, built |-> TRUE,
     answer |-> "none", stage |-> stage]

Announce(r, value, new) ==
    /\ call = Absent
    /\ call' = new
    /\ previous' = entry[r]
    /\ entry' = [entry EXCEPT ![r] = [status |-> "Pending", value |-> value]]
    /\ disturbed' = {}
    /\ UNCHANGED <<credential, service, inexact>>

\* The source of a PUT has been validated when the entry becomes Pending.
BeginPut ==
    /\ Settleable("object")
    /\ \E b \in Bytes : Announce("object", b, Fresh("put", b, "content"))

BeginDelete ==
    /\ Settleable("object") /\ entry["object"] # Absent
    /\ Announce("object", entry["object"].value,
                Fresh("delete", Absent, "credential"))

\* Pending carries no deployment identity.
BeginPublish ==
    /\ Settleable("site")
    /\ made < MaxDeployments
    /\ Announce("site", 0, Fresh("publish", Absent, "client"))

-----------------------------------------------------------------------------
(* Before any request.                                                     *)

At(stage) == call # Absent /\ call.stage = stage
Op(op) == call.op = op

Answer(a) == call' = [call EXCEPT !.answer = a, !.stage = "settle"]

\* Nothing is sent: the HTTP client or the request cannot be built.
Unbuilt(error) ==
    call' = [call EXCEPT !.built = FALSE, !.answer = error, !.stage = "settle"]

Quiet ==
    UNCHANGED <<credential, service, entry, previous, disturbed, inexact>>

\* read_content.  The file may have changed since it was validated.
ReadContent ==
    /\ At("content")
    /\ \/ \E b \in Bytes :
             call' = [call EXCEPT !.read = b, !.stage = "credential"]
       \/ Answer("Io")
    /\ Quiet

\* VercelHostingProvider::new: the files of a bundle have valid paths, but
\* the HTTP client may fail to be built.
BuildClient ==
    /\ At("client")
    /\ \/ call' = [call EXCEPT !.stage = "credential"]
       \/ Unbuilt("Other")
    /\ Quiet

\* R2StorageProvider::client and VercelHostingProvider::token: once for all
\* the requests of the operation.
ReadCredential ==
    /\ At("credential")
    /\ CASE credential = "set" -> call' = [call EXCEPT !.stage = "send"]
         [] credential = "missing" -> Answer("AuthenticationRequired")
         [] credential = "unreadable" -> Answer("AuthenticationFailed")
    /\ Quiet

-----------------------------------------------------------------------------
(* The requests.                                                           *)

Asked == [call EXCEPT !.asked = TRUE]

SendPut ==
    /\ At("send") /\ Op("put")
    /\ \/ \E reply \in Given(access) : \E acted \in Acted(reply) :
             /\ object' = IF acted THEN call.read ELSE object
             /\ call' = [Asked EXCEPT
                           !.answer = IF reply = "success" THEN "ok"
                                      ELSE SdkError(reply),
                           !.stage = "settle"]
       \/ Unbuilt(SdkError("unbuilt")) /\ UNCHANGED object
    /\ UNCHANGED <<credential, access, made, build, entry, previous,
                   disturbed, inexact>>

\* What is not there is deleted.  A Network error is tried again, with a
\* request that could be built.
SendDelete ==
    /\ At("send") /\ Op("delete")
    /\ \/ \E reply \in Given(access) : \E acted \in Acted(reply) :
             /\ object' = IF acted THEN Absent ELSE object
             /\ call' =
                  IF reply \in {"success", "not found"}
                  THEN [Asked EXCEPT !.answer = "ok", !.stage = "settle"]
                  ELSE IF SdkError(reply) = "Network" /\ call.tries < MaxShortRetries
                  THEN [Asked EXCEPT !.tries = @ + 1]
                  ELSE [Asked EXCEPT !.answer = SdkError(reply), !.stage = "settle"]
       \/ ~call.asked /\ Unbuilt(SdkError("unbuilt")) /\ UNCHANGED object
    /\ UNCHANGED <<credential, access, made, build, entry, previous,
                   disturbed, inexact>>

\* DeploymentResponse::state
Seen(b) ==
    CASE b = "building" -> {"pending", "unclear"}
      [] b = "ready" -> {"ready", "unclear"}
      [] b = "failed" -> {"failed", "unclear"}

\* create_deployment and parse_response: one POST, whose answer may be lost,
\* unreadable (Other) or without an identity (Integrity).  A request that
\* cannot be built, for what the token is made of, also is a Network error.
CreateDeployment ==
    /\ At("send") /\ Op("publish")
    /\ \/ \E reply \in Given(access) : \E acted \in Acted(reply) :
             /\ made' = IF acted THEN made + 1 ELSE made
             /\ build' = IF acted THEN [build EXCEPT ![made + 1] = "building"]
                         ELSE build
             /\ IF reply = "success"
                THEN \/ \E s \in Seen("building") :
                           call' = [Asked EXCEPT !.id = made + 1, !.seen = s,
                                                 !.stage = "poll"]
                     \/ \E e \in {"Other", "Integrity"} :
                           call' = [Asked EXCEPT !.answer = e, !.stage = "settle"]
                ELSE call' = [Asked EXCEPT
                                !.answer = IF reply = "lost" THEN "Network"
                                           ELSE StatusError(reply),
                                !.stage = "settle"]
       \/ Unbuilt("Network") /\ UNCHANGED <<made, build>>
    /\ UNCHANGED <<credential, access, object, entry, previous, disturbed, inexact>>

\* publish: what the deployment looked like decides, unless it is the last
\* look; a finished one needs a URL that is one.
Look ==
    /\ At("poll")
    /\ IF call.polls = MaxPollAttempts THEN Answer("Network")
       ELSE \/ call.seen = "ready" /\ (Answer("ok") \/ Answer("Integrity"))
            \/ call.seen = "failed" /\ Answer("Other")
            \/ call.seen = "unclear" /\ Answer("Integrity")
    /\ Quiet

\* get_deployment: it may be sent again, as nothing comes of it, and it
\* conflicts with nothing.
GetDeployment ==
    /\ At("poll")
    /\ call.seen = "pending" /\ call.polls < MaxPollAttempts
    /\ \E reply \in Given(access) \ {"conflict"} :
          IF reply = "success"
          THEN \/ \E s \in Seen(build[call.id]) :
                     call' = [call EXCEPT !.seen = s, !.tries = 0,
                                          !.polls = @ + 1]
               \/ Answer("Other")
          ELSE IF reply \in {"throttled", "server error", "lost"}
                  /\ call.tries < MaxGetRetries
          THEN call' = [call EXCEPT !.tries = @ + 1]
          ELSE Answer(IF reply = "lost" THEN "Network" ELSE StatusError(reply))
    /\ Quiet

-----------------------------------------------------------------------------
(* The executors classify the answer.                                      *)

\* Mutant of StorageNoEffect: a lost answer counts as a rejection.
StorageNoEffectIfLost ==
    {"Io", "InvalidKey", "InvalidPath", "AuthenticationRequired", "Unsupported",
     "AuthenticationFailed", "PermissionDenied", "NotFound", "Network"}

\* Mutant of StorageNoEffect: only what a service has said counts as a rejection.
StorageNoEffectIfSaid ==
    {"AuthenticationFailed", "PermissionDenied", "NotFound"}

\* classify_failure
StorageNoEffect ==
    {"Io", "InvalidKey", "InvalidPath", "AuthenticationRequired", "Unsupported",
     "AuthenticationFailed", "PermissionDenied", "NotFound"}

\* Mutant of HostingNoEffect: a lost answer counts as a rejection.
HostingNoEffectIfLost ==
    {"AuthenticationRequired", "AuthenticationFailed", "PermissionDenied",
     "NotFound", "Conflict", "Network"}

\* classify_publish_failure
HostingNoEffect ==
    {"AuthenticationRequired", "AuthenticationFailed", "PermissionDenied",
     "NotFound", "Conflict"}

Settle(r, new, exact) ==
    /\ entry' = [entry EXCEPT ![r] = new]
    /\ inexact' = IF exact THEN inexact \ {r} ELSE inexact \cup {r}
    /\ call' = Absent
    /\ previous' = Absent
    /\ disturbed' = {}
    /\ UNCHANGED <<credential, service>>

Confirmed(v) == [status |-> "Confirmed", value |-> v]
Doubtful(r) == [entry[r] EXCEPT !.status = "Unknown"]

\* What is taken back is as exact as it was, if nothing has happened.
TakeBack(r) == Settle(r, previous, r \notin inexact /\ disturbed = {})

\* What is learnt is so, unless others have deleted it since.
Learn(r, new) == Settle(r, new, "content" \notin disturbed)

\* The entry has the bytes that the provider has hashed, planned or not.
SettlePut ==
    /\ At("settle") /\ Op("put")
    /\ \/ /\ call.answer = "ok"
          /\ Learn("object", Confirmed(call.read))
       \/ call.answer \in StorageNoEffect /\ TakeBack("object")
       \/ /\ call.answer \notin StorageNoEffect \cup {"ok"}
          /\ Learn("object", Doubtful("object"))

SettleDelete ==
    /\ At("settle") /\ Op("delete")
    /\ \/ /\ call.answer \in {"ok", "NotFound"}
          /\ Learn("object", Absent)
       \/ /\ call.answer \in StorageNoEffect \ {"NotFound"}
          /\ TakeBack("object")
       \/ /\ call.answer \notin StorageNoEffect \cup {"ok", "NotFound"}
          /\ Learn("object", Doubtful("object"))

SettlePublish ==
    /\ At("settle") /\ Op("publish")
    /\ \/ call.answer = "ok" /\ Learn("site", Confirmed(call.id))
       \/ call.answer \in HostingNoEffect /\ TakeBack("site")
       \/ /\ call.answer \notin HostingNoEffect \cup {"ok"}
          /\ Learn("site", Doubtful("site"))

\* The process stops: the entry stays Pending.
Stop ==
    /\ call # Absent
    /\ call' = Absent
    /\ previous' = Absent
    /\ disturbed' = {}
    /\ UNCHANGED <<credential, service, entry, inexact>>

-----------------------------------------------------------------------------
(* The rest of the world.                                                  *)

BuildEnds ==
    /\ \E d \in Deployment :
          /\ build[d] = "building"
          /\ \E b \in {"ready", "failed"} : build' = [build EXCEPT ![d] = b]
    /\ UNCHANGED <<credential, access, object, made, entry, previous, call,
                   disturbed, inexact>>

CredentialChanges ==
    /\ credential' \in {"set", "missing", "unreadable"} \ {credential}
    /\ UNCHANGED <<service, entry, previous, call, disturbed, inexact>>

\* A token is revoked, or a right is given; or the bucket and the project
\* are deleted, with all that is in them.
AccessChanges ==
    /\ access' \in {"granted", "denied", "gone"} \ {access}
    /\ IF access' = "gone"
       THEN /\ object' = Absent
            /\ build' = [d \in Deployment |->
                           IF build[d] = "none" THEN "none" ELSE "failed"]
            /\ inexact' = Resource
       ELSE UNCHANGED <<object, build, inexact>>
    /\ disturbed' = IF call = Absent THEN {}
                    ELSE IF access' = "gone" THEN {"access", "content"}
                    ELSE disturbed \cup {"access"}
    /\ UNCHANGED <<credential, made, entry, previous, call>>

-----------------------------------------------------------------------------

Step ==
    \/ ReadContent \/ BuildClient \/ ReadCredential
    \/ SendPut \/ SendDelete \/ CreateDeployment \/ GetDeployment \/ Look
    \/ SettlePut \/ SettleDelete \/ SettlePublish

World == BuildEnds \/ CredentialChanges \/ AccessChanges

Next ==
    \/ BeginPut \/ BeginDelete \/ BeginPublish
    \/ Step \/ Stop \/ World

Spec == Init /\ [][Next]_vars

-----------------------------------------------------------------------------
(* Properties.                                                             *)

\* What the ledger is certain of is so: a confirmed object is stored with
\* these bytes, a confirmed deployment is ready and the last one, and where
\* there is no entry there is nothing.  An entry is put back as it was only
\* if nothing has happened; when the access changes between two requests of
\* one operation that cannot be told (`inexact`), and only then.
SettledIsTrue ==
    /\ Settleable("object") /\ "object" \notin inexact =>
          object = IF entry["object"] = Absent THEN Absent
                   ELSE entry["object"].value
    /\ Settleable("site") /\ "site" \notin inexact =>
          IF entry["site"] = Absent THEN made = 0
          ELSE made = entry["site"].value /\ build[made] = "ready"

\* An Unknown entry stops every later publication, so it must not come from
\* trouble of this computer, such as a missing credential or a photo that
\* cannot be read: only of an operation whose request has left for the
\* network.  The code has one exception, which it cannot tell from an open
\* outcome: an HTTP client or a request that cannot be built.
UnknownMeansARequest ==
    [][\A r \in Resource :
          (entry'[r] # entry[r] /\ entry'[r] # Absent
              /\ entry'[r].status = "Unknown")
          => call.asked \/ ~call.built]_vars

\* Of the site: the deployment made last, and what has become of it.
Served == [last : Deployment, build : {"none", "building", "ready", "failed"}]

Certain(r) == Settleable(r) /\ r \notin inexact

\* Request by request, with every repetition, the operations are what the
\* ledger makes of them in RemotePublication: an effect is announced before
\* it can happen, and an entry only becomes certain again of what is there.
Announced == INSTANCE AnnouncedEffects WITH
    Artifact <- Resource,
    Value <- Bytes \cup Served \cup {Absent},
    Nothing <- Absent,
    Uncertain <- Uncertain,
    real <- [r \in Resource |->
                IF r = "object" THEN object
                ELSE IF made = 0 THEN Absent
                ELSE [last |-> made, build |-> build[made]]],
    known <- [r \in Resource |->
                IF ~Certain(r) THEN Uncertain
                ELSE IF entry[r] = Absent THEN Absent
                ELSE IF r = "object" THEN entry[r].value
                ELSE [last |-> entry[r].value, build |-> "ready"]]

\* The bucket and the project are deleted, which nothing announces.
Deleted == access # "gone" /\ access' = "gone"

ImplementsAnnounced ==
    /\ Announced!EInit
    /\ [][Announced!ENext \/ Deleted]_(Announced!evars)

=============================================================================
