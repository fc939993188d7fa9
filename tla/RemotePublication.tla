-------------------------- MODULE RemotePublication --------------------------
(***************************************************************************)
(* The remote part of `publish` for a project of schema version 2: the     *)
(* reading of the committed local publication and the plan                 *)
(* (publisher-app/src/use_cases/publish.rs), the coordinator and the three *)
(* executors of publisher-integration, and the mutating calls of the R2,   *)
(* GitHub and Vercel providers.  A member of Proc is an operating-system   *)
(* process; it may end, by an error or a kill, before any of its steps.    *)
(***************************************************************************)
EXTENDS PublicationLedger

CONSTANTS
    Proc,           \* the processes that publish this project
    MaxGeneration,  \* bound: local generations
    MaxRetries,     \* MAX_SHORT_RETRIES of the R2 provider
    MaxPolls,       \* MAX_POLL_ATTEMPTS of the Vercel provider
    Solo,           \* TRUE: one process publishes at a time
    PrepareBeside,  \* TRUE: `prepare` may commit between two reads of a run
    StableAccess,   \* TRUE: a service does not refuse in the middle of a call
    Uncertain       \* stands for the content of an artifact in doubt

ASSUME BoundAssumption ==
    MaxGeneration \in Nat /\ MaxRetries \in Nat /\ MaxPolls \in Nat
ASSUME DisciplineAssumption ==
    /\ Solo \in BOOLEAN
    /\ PrepareBeside \in BOOLEAN
    /\ StableAccess \in BOOLEAN
ASSUME UncertainAssumption == \A v \in {Absent} \cup Hash : v # Uncertain

VARIABLES
    \* the output directory
    local,       \* the committed local publication; generation 0: none yet
    ledgerFile,  \* .publisher/integration-state.json
    \* the services
    remote,      \* what they hold: objects, files of the branch, the site
    building,    \* deployments that exist and are not finished
    \* the processes
    pc,          \* what the process does next
    bundle,      \* the gallery its application bundle shows
    desired,     \* its DesiredPublication
    ledger,      \* its copy of the ledger
    todo,        \* artifacts its plan still has to change
    turn,        \* the artifacts of the operation under way
    before,      \* its copy of the ledger before this operation
    answer,      \* the provider's answer, as the executor classifies it
    tries        \* requests the provider has repeated

services == <<remote, building>>
files == <<local, ledgerFile>>
reading == <<bundle, desired>>
call == <<turn, before, answer, tries>>
vars == <<files, services, pc, reading, ledger, todo, call>>

Labels ==
    {"idle", "bundle", "desire", "plan", "coordinate", "work", "call",
     "poll", "settle"}
Answers == {"none", "ok", "altered", "refused", "unclear"}
Tries == 0 .. (MaxRetries + MaxPolls)

Publication == [gen : 0 .. MaxGeneration, shows : Gallery]
Wanted == [Artifacts -> {Absent} \cup Hash]
DesiredPublication == [header : Header, want : Wanted]

ASSUME AbsentDesiredAssumption == Absent \notin DesiredPublication

TypeOK ==
    /\ local \in Publication
    /\ ledgerFile \in {Absent} \cup Ledger
    /\ remote \in Wanted
    /\ building \in SUBSET Gallery
    /\ pc \in [Proc -> Labels]
    /\ bundle \in [Proc -> {Absent} \cup Gallery]
    /\ desired \in [Proc -> {Absent} \cup DesiredPublication]
    /\ ledger \in [Proc -> {Absent} \cup Ledger]
    /\ todo \in [Proc -> SUBSET Artifacts]
    /\ turn \in [Proc -> SUBSET Artifacts]
    /\ before \in [Proc -> {Absent} \cup Ledger]
    /\ answer \in [Proc -> Answers]
    /\ tries \in [Proc -> Tries]

Init ==
    /\ local = [gen |-> 0, shows |-> {}]
    /\ ledgerFile = Absent
    /\ remote = [a \in Artifacts |-> Absent]
    /\ building = {}
    /\ pc = [p \in Proc |-> "idle"]
    /\ bundle = [p \in Proc |-> Absent]
    /\ desired = [p \in Proc |-> Absent]
    /\ ledger = [p \in Proc |-> Absent]
    /\ todo = [p \in Proc |-> {}]
    /\ turn = [p \in Proc |-> {}]
    /\ before = [p \in Proc |-> Absent]
    /\ answer = [p \in Proc |-> "none"]
    /\ tries = [p \in Proc |-> 0]

-----------------------------------------------------------------------------
(* Control shared by the actions.                                          *)

Goto(p, label) == pc' = [pc EXCEPT ![p] = label]

\* The command returns, or the process dies: its memory is gone.
EndRun(p) ==
    /\ Goto(p, "idle")
    /\ bundle' = [bundle EXCEPT ![p] = Absent]
    /\ desired' = [desired EXCEPT ![p] = Absent]
    /\ ledger' = [ledger EXCEPT ![p] = Absent]
    /\ todo' = [todo EXCEPT ![p] = {}]
    /\ turn' = [turn EXCEPT ![p] = {}]
    /\ before' = [before EXCEPT ![p] = Absent]
    /\ answer' = [answer EXCEPT ![p] = "none"]
    /\ tries' = [tries EXCEPT ![p] = 0]

\* Every error before or while something is recorded, and every kill.  A
\* ledger that cannot be persisted is dropped with the rest of the memory.
Stop(p) ==
    /\ pc[p] # "idle"
    /\ EndRun(p)
    /\ UNCHANGED <<files, services>>

-----------------------------------------------------------------------------
(* The local publication.                                                  *)

OthersIdle(p) == \A q \in Proc \ {p} : pc[q] = "idle"

MayBuild == PrepareBeside \/ \A p \in Proc : pc[p] # "desire"

\* build_local_gallery, seen from outside: the new gallery is committed as a
\* whole, and an unchanged one leaves everything as it is.
BuildLocal(g) ==
    /\ MayBuild
    /\ \/ /\ g = local.shows /\ local.gen > 0
          /\ UNCHANGED local
       \/ /\ g # local.shows \/ local.gen = 0
          /\ local.gen < MaxGeneration
          /\ local' = [gen |-> local.gen + 1, shows |-> g]

\* The `prepare` command.  No gate or lock keeps it from a run's remote part.
Prepare ==
    /\ \E g \in Gallery : BuildLocal(g)
    /\ UNCHANGED <<ledgerFile, services, pc, reading, ledger, todo, call>>

\* publish_project, up to the end of its local step.
StartPublish(p) ==
    /\ pc[p] = "idle"
    /\ Solo => OthersIdle(p)
    /\ \E g \in Gallery : BuildLocal(g)
    /\ Goto(p, "bundle")
    /\ UNCHANGED <<ledgerFile, services, reading, ledger, todo, call>>

-----------------------------------------------------------------------------
(* prepare_v2_publication.                                                 *)

\* derive_from_committed_output and compose_application_bundle
ReadBundle(p) ==
    /\ pc[p] = "bundle"
    /\ bundle' = [bundle EXCEPT ![p] = local.shows]
    /\ Goto(p, "desire")
    /\ UNCHANGED <<files, services, desired, ledger, todo, call>>

\* from_committed_output.  The configuration may have been edited since the
\* last run.
ReadDesired(p) ==
    /\ pc[p] = "desire"
    /\ \E c \in Config :
          desired' = [desired EXCEPT ![p] =
              [header |-> [config |-> c, gen |-> local.gen,
                           shows |-> local.shows],
               want |-> Desired(bundle[p], local.shows)]]
    /\ Goto(p, "plan")
    /\ UNCHANGED <<files, services, bundle, ledger, todo, call>>

\* The ledger is read, or a new one made, and plan_reconciliation run on it.
MakePlan(p) ==
    LET known == IF ledgerFile = Absent THEN NewLedger(desired[p].header)
                 ELSE ledgerFile
    IN  /\ pc[p] = "plan"
        /\ ledger' = [ledger EXCEPT ![p] = known]
        /\ todo' = [todo EXCEPT ![p] = Plan(desired[p].want, known.entries)]
        /\ Goto(p, "coordinate")
        /\ UNCHANGED <<files, services, reading, call>>

-----------------------------------------------------------------------------
(* Coordinator::execute_with_observer.                                     *)

\* Mutant of Refuses: unsafe_ledger_state is not called and its requirements
\* are let through.
RefusesMismatch(p) ==
    LET old == ledger[p].header
        new == desired[p].header
    IN  \/ old.config # new.config
        \/ old.gen = new.gen /\ old.shows # new.shows

\* Reconciliation requirements, an unsafe ledger, a mismatch of provenance.
Refuses(p) ==
    LET old == ledger[p].header
        new == desired[p].header
    IN  \/ old.config # new.config
        \/ Unsafe(ledger[p].entries) # {}
        \/ old.gen = new.gen /\ old.shows # new.shows

Refuse(p) ==
    /\ pc[p] = "coordinate"
    /\ Refuses(p)
    /\ EndRun(p)
    /\ UNCHANGED <<files, services>>

\* The header is adopted and persisted when it is another one.
Coordinate(p) ==
    /\ pc[p] = "coordinate"
    /\ ~Refuses(p)
    /\ IF ledger[p].header = desired[p].header
       THEN UNCHANGED <<ledger, ledgerFile>>
       ELSE /\ ledger' = [ledger EXCEPT ![p] =
                             Adopt(ledger[p], desired[p].header)]
            /\ ledgerFile' = ledger'[p]
    /\ Goto(p, "work")
    /\ UNCHANGED <<local, services, reading, todo, call>>

\* The plan is done: "published", or "no change" if there was nothing to do.
Finish(p) ==
    /\ pc[p] = "work"
    /\ todo[p] = {}
    /\ EndRun(p)
    /\ UNCHANGED <<files, services>>

-----------------------------------------------------------------------------
(* What the executors do before and after each call of a provider.         *)

\* The intent: the desired hash, or for a deletion the one that is there.
PendingEntry(p, a) ==
    [hash |-> IF desired[p].want[a] = Absent
              THEN ledger[p].entries[a].hash ELSE desired[p].want[a],
     status |-> "Pending"]

\* The guards of put, delete, run_batch and run_publish.
Consistent(p, A) ==
    /\ \A a \in A :
          /\ Certain(ledger[p].entries[a])
          /\ desired[p].want[a] = Absent => ledger[p].entries[a] # Absent
    /\ Site \in A => ledger[p].header = desired[p].header

\* Mutant of Announce: Pending is recorded and not persisted.
AnnounceInMemory(p) ==
    /\ pc[p] = "work"
    /\ \E A \in Turns(todo[p], desired[p].want) :
          /\ Consistent(p, A)
          /\ ledger' = [ledger EXCEPT ![p] =
                Record(ledger[p], [a \in A |-> PendingEntry(p, a)])]
          /\ turn' = [turn EXCEPT ![p] = A]
    /\ before' = [before EXCEPT ![p] = ledger[p]]
    /\ Goto(p, "call")
    /\ UNCHANGED <<files, services, reading, todo, answer, tries>>

\* Pending is recorded for the artifacts of the next operation and is
\* durable before the service hears of it.
Announce(p) ==
    /\ pc[p] = "work"
    /\ \E A \in Turns(todo[p], desired[p].want) :
          /\ Consistent(p, A)
          /\ ledger' = [ledger EXCEPT ![p] =
                Record(ledger[p], [a \in A |-> PendingEntry(p, a)])]
          /\ turn' = [turn EXCEPT ![p] = A]
    /\ ledgerFile' = ledger'[p]
    /\ before' = [before EXCEPT ![p] = ledger[p]]
    /\ Goto(p, "call")
    /\ UNCHANGED <<local, services, reading, todo, answer, tries>>

Confirmed(hash) ==
    IF hash = Absent THEN Absent ELSE [hash |-> hash, status |-> "Confirmed"]

\* Mutant of Settled: an answer that is not understood counts as a refusal.
SettledAsRefused(p) ==
    IF answer[p] = "ok"
    THEN Record(ledger[p], [a \in turn[p] |-> Confirmed(desired[p].want[a])])
    ELSE before[p]

\* The ledger after the answer: what is known now, what was known before if
\* the service provably did nothing, or that nothing is known.
Settled(p) ==
    CASE answer[p] = "ok" ->
            Record(ledger[p],
                   [a \in turn[p] |-> Confirmed(desired[p].want[a])])
      [] answer[p] = "altered" ->
            Record(ledger[p], [a \in turn[p] |-> Confirmed(Altered)])
      [] answer[p] = "refused" -> before[p]
      [] OTHER ->
            Record(ledger[p],
                   [a \in turn[p] |->
                       [ledger[p].entries[a] EXCEPT !.status = "Unknown"]])

\* The answer is recorded and persisted; any but success ends the run.
Settle(p) ==
    /\ pc[p] = "settle"
    /\ ledgerFile' = Settled(p)
    /\ IF answer[p] = "ok"
       THEN /\ Goto(p, "work")
            /\ ledger' = [ledger EXCEPT ![p] = Settled(p)]
            /\ todo' = [todo EXCEPT ![p] = @ \ turn[p]]
            /\ turn' = [turn EXCEPT ![p] = {}]
            /\ before' = [before EXCEPT ![p] = Absent]
            /\ answer' = [answer EXCEPT ![p] = "none"]
            /\ tries' = [tries EXCEPT ![p] = 0]
            /\ UNCHANGED reading
       ELSE EndRun(p)
    /\ UNCHANGED <<local, services>>

-----------------------------------------------------------------------------
(* The calls.  A service that answers may have acted, or not; one that     *)
(* does not answer, too.                                                   *)

\* The services change the artifacts of the turn as the run wants them.
TurnDone(p) ==
    remote' = [a \in Artifacts |->
                  IF a \in turn[p] THEN desired[p].want[a] ELSE remote[a]]

Answered(p, kind) ==
    /\ answer' = [answer EXCEPT ![p] = kind]
    /\ Goto(p, "settle")
    /\ UNCHANGED <<files, reading, ledger, todo, turn, before, tries>>

\* The provider sends its request once more.
Again(p, limit) ==
    /\ tries[p] < limit
    /\ tries' = [tries EXCEPT ![p] = @ + 1]
    /\ UNCHANGED <<files, pc, reading, ledger, todo, turn, before, answer>>

Calling(p, artifacts) ==
    pc[p] = "call" /\ turn[p] # {} /\ turn[p] \subseteq artifacts

Puts(p) == \A a \in turn[p] : desired[p].want[a] # Absent

\* R2: one PUT, never repeated.  The source is validated and then read
\* again, and the provider reports the hash of what it has read.
PutObject(p) ==
    /\ Calling(p, Objects) /\ Puts(p)
    /\ \/ TurnDone(p) /\ Answered(p, "ok")
       \/ /\ remote' = [a \in Artifacts |->
                           IF a \in turn[p] THEN Altered ELSE remote[a]]
          /\ Answered(p, "altered")
       \/ UNCHANGED remote /\ Answered(p, "refused")
       \/ (TurnDone(p) \/ UNCHANGED remote) /\ Answered(p, "unclear")
    /\ UNCHANGED building

\* R2: a DELETE that gets no usable answer is sent again, MaxRetries times.
\* Credentials that were good for one request can be refused for the next.
DeleteObject(p) ==
    /\ Calling(p, Objects) /\ ~Puts(p)
    /\ \/ TurnDone(p) /\ Answered(p, "ok")
       \/ /\ tries[p] = 0 \/ ~StableAccess
          /\ UNCHANGED remote
          /\ Answered(p, "refused")
       \/ (TurnDone(p) \/ UNCHANGED remote) /\ Again(p, MaxRetries)
       \/ (TurnDone(p) \/ UNCHANGED remote) /\ Answered(p, "unclear")
    /\ UNCHANGED building

\* GitHub: the files are staged and one commit moves the branch, or fails
\* to.  Nothing before the update of the reference can be seen.
CommitFiles(p) ==
    /\ Calling(p, Files)
    /\ \/ TurnDone(p) /\ Answered(p, "ok")
       \/ UNCHANGED remote /\ Answered(p, "refused")
       \/ (TurnDone(p) \/ UNCHANGED remote) /\ Answered(p, "unclear")
    /\ UNCHANGED building

\* Vercel: one POST, never repeated, that creates a deployment.
CreateDeployment(p) ==
    /\ Calling(p, {Site})
    /\ \/ /\ building' = building \cup {desired[p].want[Site]}
          /\ Goto(p, "poll")
          /\ UNCHANGED <<files, reading, ledger, todo, call>>
       \/ UNCHANGED building /\ Answered(p, "refused")
       \/ /\ building' \in {building, building \cup {desired[p].want[Site]}}
          /\ Answered(p, "unclear")
    /\ UNCHANGED remote

\* The hosting service finishes a deployment, with or without success.
BuildEnds ==
    \E g \in building :
        /\ building' = building \ {g}
        /\ \/ remote' = [remote EXCEPT ![Site] = g]
           \/ UNCHANGED remote
        /\ UNCHANGED <<files, pc, reading, ledger, todo, call>>

\* Mutant of Poll: the loop has no end.
PollForever(p) ==
    /\ pc[p] = "poll"
    /\ desired[p].want[Site] \notin building
    /\ Answered(p, IF remote[Site] = desired[p].want[Site]
                   THEN "ok" ELSE "unclear")
    /\ UNCHANGED services

\* Vercel: the deployment is asked for until it is ready or has failed,
\* MaxPolls times.  Each of these requests, but not the first answer, may be
\* refused; a state that is not understood, an answer that does not come and
\* the last attempt leave the outcome open.
Poll(p) ==
    /\ pc[p] = "poll"
    /\ \/ desired[p].want[Site] \in building /\ Again(p, MaxPolls)
       \/ /\ desired[p].want[Site] \notin building
          /\ remote[Site] = desired[p].want[Site]
          /\ tries[p] < MaxPolls
          /\ Answered(p, "ok")
       \/ ~StableAccess /\ tries[p] > 0 /\ Answered(p, "refused")
       \/ Answered(p, "unclear")
    /\ UNCHANGED services

-----------------------------------------------------------------------------

Step(p) ==
    \/ ReadBundle(p) \/ ReadDesired(p) \/ MakePlan(p)
    \/ Refuse(p) \/ Coordinate(p) \/ Finish(p)
    \/ Announce(p) \/ Settle(p)
    \/ PutObject(p) \/ DeleteObject(p) \/ CommitFiles(p)
    \/ CreateDeployment(p) \/ Poll(p)

Next ==
    \/ Prepare
    \/ BuildEnds
    \/ \E p \in Proc : StartPublish(p) \/ Step(p) \/ Stop(p)

Spec == Init /\ [][Next]_vars

\* A process that runs is scheduled again.  Nothing else is fair: builds need
\* not end, answers need not be good, nobody has to publish.
FairSpec == Spec /\ \A p \in Proc : WF_vars(Step(p))

-----------------------------------------------------------------------------
(* Properties.                                                             *)

\* What the ledger file says of an artifact; no file says: nothing there.
DurableEntry(a) ==
    IF ledgerFile = Absent THEN Absent ELSE ledgerFile.entries[a]

\* The ledger file never claims more than is so.  Of an artifact that is not
\* Pending or Unknown it has the hash that the service holds, or no entry
\* where the service holds nothing; and no deployment is unfinished while the
\* site has a certain entry.  (put, delete, run_batch and run_publish persist
\* Pending first and classify every answer.)
LedgerIsTruthful ==
    /\ \A a \in Artifacts :
          Certain(DurableEntry(a)) => remote[a] = HashOf(DurableEntry(a))
    /\ Certain(DurableEntry(Site)) => building = {}

\* An artifact whose fate is open and that no running process works on.
Abandoned(a) ==
    /\ DurableEntry(a) # Absent /\ DurableEntry(a).status # "Confirmed"
    /\ \A p \in Proc : a \notin turn[p]

\* An operation whose outcome was lost is never sent again, nor is its entry
\* overwritten, by any later run over any later gallery
\* (published_commit_with_lost_response_is_never_repeated, repository.rs).
AbandonedIsNeverRepeated ==
    [][\A a \in Artifacts : Abandoned(a) =>
          /\ DurableEntry(a)' = DurableEntry(a)
          /\ \A p \in Proc : a \notin turn'[p]]_vars

\* A ledger is only adopted for another publication while all its entries are
\* settled (coordinator.rs: neither Pending nor Unknown state is adopted).
AdoptsSettledLedger ==
    [][(ledgerFile # Absent /\ ledgerFile'.header # ledgerFile.header)
          => Unsafe(ledgerFile.entries) = {}]_ledgerFile

\* Runs, stops and lost answers implement "announce, act, learn" between the
\* ledger file and the services.
Announced == INSTANCE AnnouncedEffects WITH
    Artifact <- Artifacts,
    Value <- {Absent} \cup Hash,
    Nothing <- Absent,
    Uncertain <- Uncertain,
    real <- remote,
    known <- [a \in Artifacts |->
                 IF Certain(DurableEntry(a)) THEN HashOf(DurableEntry(a))
                 ELSE Uncertain]
ImplementsAnnounced == Announced!ESpec

\* No object, file or new deployment comes about that the ledger file is not
\* uncertain of at that moment, whatever the services answer later.
EffectsAreAnnounced ==
    [][/\ \A a \in Objects \cup Files :
             remote'[a] # remote[a] => ~Certain(DurableEntry(a))
       /\ ~(building' \subseteq building)
             => ~Certain(DurableEntry(Site))]_services

\* A site is only built when every object and file of the gallery that it
\* shows is there, and none of another (the order of the coordinator: storage,
\* repository, hosting).
SiteOverPublishedFiles ==
    [][\A g \in building' \ building : \A a \in Objects \cup Files :
          remote[a] = Desired(g, g)[a]]_services

\* A run that finds its plan done has published: the services hold what it
\* desired and nothing else, whatever earlier runs left behind.
FinishedMeansPublished ==
    \A p \in Proc :
        (pc[p] = "work" /\ todo[p] = {}) => remote = desired[p].want

\* The hash of a deployment is that of the gallery its header names
\* (planner.rs: the state is built from a committed local publication).
BundleShowsDesired ==
    \A p \in Proc :
        desired[p] # Absent => desired[p].want[Site] = desired[p].header.shows

\* What an executor takes back has had no effect: a refused deletion has left
\* the object, a refused publication has created no deployment (executor.rs
\* and hosting.rs, of the errors they classify as without effect).
RefusedHadNoEffect ==
    \A p \in Proc : answer[p] = "refused" =>
        /\ \A a \in turn[p] : remote[a] = HashOf(before[p].entries[a])
        /\ Site \in turn[p] => building = {}

\* Every run ends: retries and polls are bounded, and no step waits for
\* another process or for a service to recover.
RunsEnd == \A p \in Proc : pc[p] # "idle" ~> pc[p] = "idle"

=============================================================================
