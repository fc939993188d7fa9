--------------------------- MODULE OperationEvents ---------------------------
(***************************************************************************)
(* What a photographer is told of the operations of ProviderCalls: the     *)
(* events of publisher-integration/src/events.rs, the failures they carry, *)
(* and what the page and the command line make of them.                    *)
(*                                                                         *)
(* "These events OBSERVE the existing saga; they never change it."  So     *)
(* each action here is one of ProviderCalls, with what the observer hears  *)
(* of it; what happens before an operation is announced is heard too.      *)
(***************************************************************************)
EXTENDS ProviderCalls

CONSTANT NothingTold   \* no event of the resource yet

VARIABLE told   \* the last event of each resource

observed == <<vars, told>>

-----------------------------------------------------------------------------
(* The events.                                                             *)

\* OperationFailure
Failure == {"LocalValidation", "Rejected", "Ambiguous", "Inconsistent",
            "Ledger"}

\* IntegrationEvent.  The keys, sizes, counts and identities that events
\* carry are the resource's.
Event ==
    [operation : {"put", "delete", "publish"},
     moment : {"started", "finished"}, failure : {"none"}]
    \cup
    [operation : {"put", "delete", "publish"},
     moment : {"failed"}, failure : Failure]

ASSUME NothingToldAssumption == NothingTold \notin Event

Started(op) == [operation |-> op, moment |-> "started", failure |-> "none"]
Finished(op) == [operation |-> op, moment |-> "finished", failure |-> "none"]
Failed(op, f) == [operation |-> op, moment |-> "failed", failure |-> f]

Tell(r, event) == told' = [told EXCEPT ![r] = event]

\* Mutant of StorageFailure: a failed call is a rejected one.
StorageFailureRejected(answer) ==
    IF answer = "ok" THEN "Inconsistent" ELSE "Rejected"

\* storage_failure, of a call that was answered.
StorageFailure(answer) ==
    CASE answer = "ok" -> "Inconsistent"   \* InconsistentUpload
      [] answer \in StorageNoEffect -> "Rejected"
      [] OTHER -> "Ambiguous"

\* hosting_failure
HostingFailure(answer) ==
    IF answer \in HostingNoEffect THEN "Rejected" ELSE "Ambiguous"

-----------------------------------------------------------------------------
(* The operations, observed.                                               *)

ObservedInit == Init /\ told = [r \in Resource |-> NothingTold]

ObservedBegin ==
    \/ BeginPut /\ Tell("object", Started("put"))
    \/ BeginDelete /\ Tell("object", Started("delete"))
    \/ BeginPublish /\ Tell("site", Started("publish"))

\* open_validated_source: the photo is gone, or another one.  The operation
\* has started, and nothing is recorded of it.
RejectSource ==
    /\ call = Absent
    /\ Settleable("object")
    /\ Tell("object", Failed("put", "LocalValidation"))
    /\ UNCHANGED vars

\* persist: the file is as it was before Pending, and so is the memory.
CannotAnnounce ==
    /\ call = Absent
    /\ \/ /\ Settleable("object")
          /\ \E op \in {"put", "delete"} :
                /\ op = "delete" => entry["object"] # Absent
                /\ Tell("object", Failed(op, "Ledger"))
       \/ /\ Settleable("site")
          /\ Tell("site", Failed("publish", "Ledger"))
    /\ UNCHANGED vars

\* put_observed, of the result of put.  What has been stored may not be what
\* was planned, if the photo has changed while it was sent.
ObservedPut ==
    /\ SettlePut
    /\ Tell("object",
            IF call.answer = "ok" /\ call.read = call.want
            THEN Finished("put")
            ELSE Failed("put", StorageFailure(call.answer)))

\* delete_observed
ObservedDelete ==
    /\ SettleDelete
    /\ Tell("object",
            IF call.answer \in {"ok", "NotFound"} THEN Finished("delete")
            ELSE Failed("delete", StorageFailure(call.answer)))

\* HostingExecutor::execute_with_observer
ObservedPublish ==
    /\ SettlePublish
    /\ Tell("site",
            IF call.answer = "ok" THEN Finished("publish")
            ELSE Failed("publish", HostingFailure(call.answer)))

\* persist: the result cannot be recorded, the entry stays Pending.
CannotRecord ==
    /\ At("settle")
    /\ Stop
    /\ Tell(IF Op("publish") THEN "site" ELSE "object",
            Failed(call.op, "Ledger"))

\* A request, and an end of the process, are heard by nobody.
Unheard ==
    /\ \/ ReadContent \/ BuildClient \/ ReadCredential
       \/ SendPut \/ SendDelete \/ CreateDeployment \/ GetDeployment \/ Look
       \/ Stop \/ World
    /\ UNCHANGED told

ObservedNext ==
    \/ ObservedBegin \/ RejectSource \/ CannotAnnounce
    \/ ObservedPut \/ ObservedDelete \/ ObservedPublish \/ CannotRecord
    \/ Unheard

ObservedSpec == ObservedInit /\ [][ObservedNext]_observed

-----------------------------------------------------------------------------
(* What is shown of an event.                                              *)

\* OperationEventDto, OperationFailureDto: a payload for each event, with the
\* failure of one that failed.
Payload ==
    [event : {"put", "delete", "publish"} \X {"started", "finished", "failed"},
     failure : Failure \cup {"none"}]

\* operation_event: the page gets the name of the event, and the failure.
Sent(event) ==
    [event |-> <<event.operation, event.moment>>, failure |-> event.failure]

\* describePublisherEvent and addActivity: the page looks at the name alone.
Tone(sent) ==
    CASE sent.event[2] = "failed" -> "failed"
      [] sent.event[2] = "started" -> "in progress"
      [] OTHER -> "done"

\* format_operation and format_failure
Line(event) ==
    IF event.moment # "failed" THEN event.moment
    ELSE CASE event.failure = "LocalValidation" -> "failed in the local validation"
           [] event.failure = "Rejected" -> "was rejected"
           [] event.failure = "Ambiguous" -> "could not be confirmed"
           [] event.failure = "Inconsistent" -> "found an inconsistent state"
           [] event.failure = "Ledger" -> "was prevented by the recorded state"

-----------------------------------------------------------------------------
(* Properties.                                                             *)

ToldOK ==
    /\ told \in [Resource -> Event \cup {NothingTold}]
    /\ \A r \in Resource : told[r] # NothingTold => Sent(told[r]) \in Payload

InState(r, status) == entry[r] # Absent /\ entry[r].status = status

\* What was shown last of an operation is what the ledger file has of it,
\* whatever fails, stops or is repeated.  "`Finished` is emitted only after
\* the success transition has been durably persisted": an entry shown as done
\* is recorded so, and is so, unless others have removed it.  An outcome that
\* is in doubt is "always presented as 'could not be confirmed'", and nothing
\* else is.  A rejected operation, and one whose photo was not the planned
\* one, leave no entry open.
ShownIsRecorded ==
    \A r \in Resource : told[r] # NothingTold =>
        LET e == told[r] IN
        /\ Tone(Sent(e)) = "done" =>
              /\ IF e.operation = "delete" THEN entry[r] = Absent
                 ELSE InState(r, "Confirmed")
              /\ r = "object" /\ r \notin inexact =>
                    (object = Absent <=> e.operation = "delete")
        /\ Line(e) = "could not be confirmed" <=> InState(r, "Unknown")
        /\ Line(e) \in {"was rejected", "failed in the local validation"} =>
              Settleable(r)
        /\ Line(e) = "found an inconsistent state" => InState(r, "Confirmed")

=============================================================================
