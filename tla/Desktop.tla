------------------------------- MODULE Desktop -------------------------------
(***************************************************************************)
(* The desktop application: the publication flow of the page               *)
(* (publisher-desktop/ui/app.js), the commands it invokes                  *)
(* (publisher-desktop/src/commands.rs, main.rs) and the two exclusion      *)
(* gates.                                                                  *)
(*                                                                         *)
(* The page never waits: a handler invokes a command and returns, the user *)
(* may edit the path of the project meanwhile, and the answer is handled   *)
(* whenever it comes.  What a command started goes on, whether or not the  *)
(* page still wants to hear of it.                                         *)
(***************************************************************************)
CONSTANTS
    Project,   \* the paths of the projects, as the user types them
    NoPath,    \* the empty path
    Id,        \* bound: the calls that may be in flight together
    NoCall

ASSUME NoPathAssumption == NoPath \notin Project

VARIABLES
    currentPath,  \* the content of the path field
    state,        \* the page's `state`
    starting,     \* get_app_info is not answered yet
    calls,        \* the commands in flight
    slot,         \* the flag of each gate
    touched,      \* history: which calls that the page awaits have changed
                  \* the project of the path since the last dry run of it
    overtaken     \* history: which calls that it has abandoned have

vars == <<currentPath, state, starting, calls, slot, touched, overtaken>>

-----------------------------------------------------------------------------

Path == Project \cup {NoPath}

Gated == {"publish", "provision"}
Worker == Gated \cup {"prepare"}   \* run in a thread of their own
Sync == {"validate", "configuration", "preflight", "dry_run", "recover"}
Operation == Worker \cup Sync

\* What changes what a dry run of the same project looked at.
Outdating == {"provision", "prepare", "recover"}

\* What a command may answer.  Only an empty path is certain to be refused.
Answers(op, path) ==
    IF path = NoPath THEN {"error"}
    ELSE CASE op = "publish" -> {"ok", "needs_recovery", "error"}
           [] op \in {"preflight", "configuration"} ->
                  {"ok", "not_ready", "error"}
           [] OTHER -> {"ok", "error"}

\* A generation is only ever compared with the present one: a call is of the
\* present generation (`current`) from the beginOperation that made it until
\* the next one.
Call == [op : Operation, path : Path, current : BOOLEAN,
         stage : {"sent", "running", "answered"},
         answer : {"none", "ok", "not_ready", "needs_recovery", "busy",
                   "error"}]

ASSUME NoCallAssumption == NoCall \notin Call

\* `configReady` and `provisioned` only choose what is shown.
State == [projectPath : Path, validated : BOOLEAN, preflightReady : BOOLEAN,
          localReady : BOOLEAN, dryRunReady : BOOLEAN, busy : BOOLEAN,
          needsRecovery : BOOLEAN]

TypeOK ==
    /\ currentPath \in Path
    /\ state \in State
    /\ starting \in BOOLEAN
    /\ calls \in [Id -> Call \cup {NoCall}]
    /\ slot \in [Gated -> BOOLEAN]
    /\ touched \subseteq Outdating
    /\ overtaken \subseteq Outdating
    \* Only one call is of the present generation.
    /\ \A i, j \in Id : /\ calls[i] # NoCall /\ calls[i].current
                       /\ calls[j] # NoCall /\ calls[j].current
                       => i = j

Cleared ==
    [projectPath |-> NoPath, validated |-> FALSE, preflightReady |-> FALSE,
     localReady |-> FALSE, dryRunReady |-> FALSE, busy |-> FALSE,
     needsRecovery |-> FALSE]

Init ==
    /\ currentPath = NoPath
    /\ state = Cleared
    /\ starting = TRUE
    /\ calls = [i \in Id |-> NoCall]
    /\ slot = [g \in Gated |-> FALSE]
    /\ touched = {}
    /\ overtaken = {}

InFlight == {i \in Id : calls[i] # NoCall}
Running(op) == {i \in InFlight : calls[i].op = op /\ calls[i].stage = "running"}

-----------------------------------------------------------------------------
(* What the buttons allow.                                                 *)

OnPath == state.projectPath # NoPath /\ currentPath = state.projectPath

CanPreflight == ~state.busy /\ state.validated /\ OnPath
CanProvision == CanPreflight /\ state.preflightReady /\ ~state.needsRecovery
CanPrepareLocal == CanPreflight /\ state.preflightReady
CanDryRun == CanPrepareLocal /\ state.localReady
CanPublish == CanPrepareLocal /\ state.dryRunReady
CanRecover == ~state.busy /\ state.needsRecovery /\ OnPath

-----------------------------------------------------------------------------
(* The user.                                                               *)

\* Mutant of Superseded: the generation is not advanced.
SupersededNone == calls

\* beginOperation: every call in flight is of a past generation.
Superseded ==
    [i \in Id |-> IF calls[i] = NoCall THEN NoCall
                  ELSE [calls[i] EXCEPT !.current = FALSE]]

\* A handler: it begins an operation, gives up the results that the
\* operation replaces, turns busy and invokes the command.
Invoke(op, path, given) ==
    \E i \in Id :
      /\ calls[i] = NoCall
      /\ calls' = [Superseded EXCEPT ![i] =
                     [op |-> op, path |-> path, current |-> TRUE,
                      stage |-> "sent", answer |-> "none"]]
      /\ state' = [given EXCEPT !.busy = TRUE]
      /\ UNCHANGED <<currentPath, starting, slot, touched, overtaken>>

OnValidate ==
    /\ ~state.busy
    /\ Invoke("validate", currentPath,
              [Cleared EXCEPT !.projectPath = currentPath])

OnValidateConfiguration ==
    /\ ~state.busy
    /\ Invoke("configuration", currentPath, state)

OnPreflight ==
    /\ CanPreflight
    /\ Invoke("preflight", state.projectPath,
              [state EXCEPT !.preflightReady = FALSE, !.localReady = FALSE,
                            !.dryRunReady = FALSE])

OnProvision ==
    /\ CanProvision
    /\ Invoke("provision", state.projectPath, state)

OnPrepareLocal ==
    /\ CanPrepareLocal
    /\ Invoke("prepare", state.projectPath,
              [state EXCEPT !.localReady = FALSE, !.dryRunReady = FALSE])

\* Its own guard does not ask for the preflight.
OnDryRun ==
    /\ ~state.busy /\ state.validated /\ state.localReady
    /\ OnPath
    /\ Invoke("dry_run", state.projectPath,
              [state EXCEPT !.needsRecovery = FALSE, !.dryRunReady = FALSE])

OnPublish ==
    /\ CanPublish
    /\ Invoke("publish", state.projectPath, state)

OnRecover ==
    /\ CanRecover
    /\ Invoke("recover", state.projectPath,
              [state EXCEPT !.needsRecovery = FALSE, !.dryRunReady = FALSE])

\* Mutant of OnProjectPathChanged: editing the path leaves the page busy until the old answer comes.
PathChangedKeepingBusy ==
    /\ currentPath' \in Path \ {currentPath}
    /\ calls' = Superseded
    /\ state' = [Cleared EXCEPT !.busy = state.busy]
    /\ touched' = {}
    /\ overtaken' = {}
    /\ UNCHANGED <<starting, slot>>

\* The path is edited: all is forgotten, and what runs is left alone.
OnProjectPathChanged ==
    /\ currentPath' \in Path \ {currentPath}
    /\ calls' = Superseded
    /\ state' = Cleared
    /\ touched' = {}
    /\ overtaken' = {}
    /\ UNCHANGED <<starting, slot>>

-----------------------------------------------------------------------------
(* The commands.                                                           *)

\* What the command of call i has done to the project that is on the page.
\* The dry run that the page awaits starts the history afresh.
Recorded(i) ==
    LET c == calls[i]
        fresh == c.op = "dry_run" /\ c.current
        counts == c.path = currentPath /\ c.op \in Outdating
    IN  /\ touched' = IF fresh THEN {}
                      ELSE IF counts /\ c.current THEN touched \cup {c.op}
                      ELSE touched
        /\ overtaken' = IF fresh THEN {}
                        ELSE IF counts /\ ~c.current
                        THEN overtaken \cup {c.op} ELSE overtaken

\* A short command runs from its arrival to its answer, alone.
Execute(i) ==
    /\ i \in InFlight
    /\ calls[i].stage = "sent" /\ calls[i].op \in Sync
    /\ \E a \in Answers(calls[i].op, calls[i].path) :
          calls' = [calls EXCEPT ![i].stage = "answered", ![i].answer = a]
    /\ Recorded(i)
    /\ UNCHANGED <<currentPath, state, starting, slot>>

\* Mutant of Admit: the gate is tested, and taken only in the thread.
AdmitWithoutSlot(i) ==
    /\ i \in InFlight
    /\ calls[i].stage = "sent" /\ calls[i].op \in Worker
    /\ calls' = [calls EXCEPT ![i].stage = "running"]
    /\ slot' = IF calls[i].op \in Gated
               THEN [slot EXCEPT ![calls[i].op] = TRUE] ELSE slot
    /\ UNCHANGED <<currentPath, state, starting, touched, overtaken>>

\* A long one gets a thread.  Those with a gate take its slot first.
Admit(i) ==
    /\ i \in InFlight
    /\ calls[i].stage = "sent" /\ calls[i].op \in Worker
    /\ calls[i].op \in Gated => ~slot[calls[i].op]
    /\ calls' = [calls EXCEPT ![i].stage = "running"]
    /\ slot' = IF calls[i].op \in Gated
               THEN [slot EXCEPT ![calls[i].op] = TRUE] ELSE slot
    /\ UNCHANGED <<currentPath, state, starting, touched, overtaken>>

\* The slot is taken: the attempt is refused at once, nothing is started.
Refuse(i) ==
    /\ i \in InFlight
    /\ calls[i].stage = "sent" /\ calls[i].op \in Gated
    /\ slot[calls[i].op]
    /\ calls' = [calls EXCEPT ![i].stage = "answered", ![i].answer = "busy"]
    /\ UNCHANGED <<currentPath, state, starting, slot, touched, overtaken>>

\* Mutant of Finish: only a success gives the slot back.
FinishKeepingSlot(i) ==
    /\ i \in InFlight
    /\ calls[i].stage = "running"
    /\ \E a \in Answers(calls[i].op, calls[i].path) :
          /\ calls' = [calls EXCEPT ![i].stage = "answered", ![i].answer = a]
          /\ slot' = IF calls[i].op \in Gated /\ a # "error"
                     THEN [slot EXCEPT ![calls[i].op] = FALSE] ELSE slot
    /\ Recorded(i)
    /\ UNCHANGED <<currentPath, state, starting>>

\* The thread ends, by returning or by a panic: the permit is dropped.
Finish(i) ==
    /\ i \in InFlight
    /\ calls[i].stage = "running"
    /\ \E a \in Answers(calls[i].op, calls[i].path) :
          calls' = [calls EXCEPT ![i].stage = "answered", ![i].answer = a]
    /\ slot' = IF calls[i].op \in Gated
               THEN [slot EXCEPT ![calls[i].op] = FALSE] ELSE slot
    /\ Recorded(i)
    /\ UNCHANGED <<currentPath, state, starting>>

-----------------------------------------------------------------------------
(* The answers.                                                            *)

\* Mutant of IsCurrent: the answer is accepted by its path alone.
IsCurrentByPath(c) == c.path = currentPath

IsCurrent(c) == c.current /\ c.path = currentPath

\* Mutant of Answered: a finished provisioning keeps the dry run.
AnsweredKeepingPlan(c) ==
    LET good == c.answer = "ok"
        free == [state EXCEPT !.busy = FALSE]
    IN CASE c.op = "validate" -> [free EXCEPT !.validated = good]
         [] c.op = "preflight" -> [free EXCEPT !.preflightReady = good]
         [] c.op = "prepare" -> [free EXCEPT !.localReady = good]
         [] c.op = "dry_run" -> [free EXCEPT !.dryRunReady = good]
         [] OTHER -> free

\* The handlers after their `await`, for an answer that is still current.
Answered(c) ==
    LET good == c.answer = "ok"
        free == [state EXCEPT !.busy = FALSE]
    IN CASE c.op = "validate" -> [free EXCEPT !.validated = good]
         [] c.op = "preflight" -> [free EXCEPT !.preflightReady = good]
         [] c.op = "provision" -> [free EXCEPT !.dryRunReady = FALSE]
         [] c.op = "prepare" -> [free EXCEPT !.localReady = good]
         [] c.op = "dry_run" -> [free EXCEPT !.dryRunReady = good]
         [] c.op = "publish" /\ c.answer \in {"ok", "needs_recovery"} ->
                [free EXCEPT !.dryRunReady = FALSE,
                             !.needsRecovery = c.answer = "needs_recovery"]
         \* the configuration, a recovery, a publish that failed or was refused
         [] OTHER -> free

\* The commands run one after the other and get_app_info was the first: no
\* answer overtakes its answer.
Deliver(i) ==
    /\ i \in InFlight
    /\ calls[i].stage = "answered"
    /\ ~starting
    /\ calls' = [calls EXCEPT ![i] = NoCall]
    /\ state' = IF IsCurrent(calls[i]) THEN Answered(calls[i]) ELSE state
    /\ UNCHANGED <<currentPath, starting, slot, touched, overtaken>>

\* The end of main(), which does not look at what began meanwhile.
FinishStart ==
    /\ starting
    /\ starting' = FALSE
    /\ state' = [state EXCEPT !.busy = FALSE]
    /\ UNCHANGED <<currentPath, calls, slot, touched, overtaken>>

-----------------------------------------------------------------------------

User ==
    \/ OnValidate \/ OnValidateConfiguration \/ OnPreflight \/ OnProvision
    \/ OnPrepareLocal \/ OnDryRun \/ OnPublish \/ OnRecover
    \/ OnProjectPathChanged

Backend(i) == Execute(i) \/ Admit(i) \/ Refuse(i) \/ Finish(i)

Next == User \/ FinishStart \/ \E i \in Id : Backend(i) \/ Deliver(i)

Spec == Init /\ [][Next]_vars

\* Commands end (the pipeline is finite and the HTTP clients give up) and
\* the bridge delivers.  Nothing is asked of the user.
Fairness ==
    /\ WF_vars(FinishStart)
    /\ \A i \in Id : WF_vars(Backend(i)) /\ WF_vars(Deliver(i))

FairSpec == Spec /\ Fairness

-----------------------------------------------------------------------------
(* Properties.                                                             *)

\* "Owning this value is what 'a publication is running' means": a slot is
\* taken exactly while one thread of its operation runs, whatever the page
\* has abandoned.
SlotsMatchWorkers ==
    \A g \in Gated :
       /\ \A i, j \in Running(g) : i = j
       /\ slot[g] <=> Running(g) # {}

\* The page is busy only for a call whose answer will be accepted: no answer
\* that is dropped as stale can leave the buttons disabled for good.
BusyAwaitsAnAnswer ==
    state.busy => \E i \in InFlight : IsCurrent(calls[i])

\* Whatever is refused or disabled waits for something that still runs.
NobodyWaitsInVain == SlotsMatchWorkers /\ BusyAwaitsAnAnswer

\* Each result rests on the one before, for the path on the page.  So
\* Publish need not look at localReady, nor the dry run's handler at the
\* preflight, and no late answer can supply a link of the chain alone.
ResultsRestOnEachOther ==
    /\ state.dryRunReady => state.localReady
    /\ state.localReady => state.preflightReady
    /\ state.preflightReady => state.validated
    /\ state.needsRecovery => state.validated
    /\ state.validated => OnPath

\* Publish is offered only on a dry run that nothing the page awaits has
\* made obsolete: neither a preparation, nor a provisioning, nor a recovery.
\* (After a publish that failed the same dry run stays on offer.)
PlanIsFresh == CanPublish => touched = {}

\* A gate is always opened again, and the page becomes usable again.
EverythingReopens ==
    /\ \A g \in Gated : slot[g] ~> ~slot[g]
    /\ state.busy ~> ~state.busy

\* app.js says that after a provisioning "Publicar continua desligado até o
\* fluxo ser refeito": Publish is not offered on a dry run that a provisioning of
\* the same project has overtaken.
ProvisioningDisablesPublish ==
    CanPublish => "provision" \notin touched \cup overtaken

=============================================================================
