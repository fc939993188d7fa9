--------------------------- MODULE Desktop_proofs ---------------------------
(***************************************************************************)
(* The page and the gates of the desktop application, for any projects and *)
(* any number of calls in flight: no button is disabled for nothing, and   *)
(* what is on offer rests on results that are of the same path.            *)
(***************************************************************************)
EXTENDS Desktop, TLAPS

\* The results of the page `s` rest on each other.
Chain(s) ==
    /\ s.dryRunReady => s.localReady
    /\ s.localReady => s.preflightReady
    /\ s.preflightReady => s.validated
    /\ s.needsRecovery => s.validated
    /\ s.validated => s.projectPath # NoPath /\ currentPath = s.projectPath

\* What a handler has left on the page `s` when it has invoked `op`.
LeftBy(op, s) ==
    /\ op = "validate" =>
          /\ s.projectPath = currentPath
          /\ ~s.validated /\ ~s.preflightReady /\ ~s.localReady
          /\ ~s.dryRunReady /\ ~s.needsRecovery
    /\ op \notin {"validate", "configuration"} => s.validated
    /\ op = "preflight" => ~s.localReady /\ ~s.dryRunReady
    /\ op = "prepare" =>
          s.preflightReady /\ ~s.localReady /\ ~s.dryRunReady
    /\ op = "dry_run" => s.localReady
    /\ op = "recover" => ~s.dryRunReady

\* The page until the answer to a call of the present generation.
CurrentOK ==
    \A i \in Id : calls[i] # NoCall /\ calls[i].current =>
        /\ calls[i].path = currentPath
        /\ LeftBy(calls[i].op, state)
        /\ calls[i].op \notin {"validate", "configuration"} => state.busy
        /\ calls[i].op = "dry_run" /\ calls[i].stage = "answered" =>
              touched = {}

\* An answer is one that the operation has.
AnswersOK ==
    \A i \in Id : calls[i] # NoCall /\ calls[i].answer = "ok" =>
        calls[i].path # NoPath

StartOK == starting => ~state.validated

\* A dry run that is out of date is only still there while the
\* provisioning that has made it so has not been heard of.
Fresh ==
    touched # {} =>
        \/ ~state.dryRunReady
        \/ \E i \in Id : /\ calls[i] # NoCall /\ calls[i].current
                         /\ calls[i].op = "provision"

PageInv ==
    /\ TypeOK /\ NobodyWaitsInVain /\ ResultsRestOnEachOther
    /\ CurrentOK /\ AnswersOK /\ StartOK /\ Fresh

-----------------------------------------------------------------------------

LEMMA RestIsChain == ResultsRestOnEachOther <=> Chain(state)
BY DEF ResultsRestOnEachOther, Chain, OnPath

LEMMA InitPage == Init => PageInv
<1> SUFFICES ASSUME Init PROVE PageInv
  OBVIOUS
<1>1. state \in State
  BY DEF Init, Cleared, State, Path
<1>2. TypeOK
  BY <1>1 DEF Init, TypeOK, Path
<1>3. NobodyWaitsInVain
  BY DEF Init, NobodyWaitsInVain, SlotsMatchWorkers, BusyAwaitsAnAnswer,
         Running, InFlight, Cleared
<1>4. ResultsRestOnEachOther
  BY DEF Init, ResultsRestOnEachOther, Cleared
<1>5. CurrentOK /\ AnswersOK /\ StartOK /\ Fresh
  BY DEF Init, CurrentOK, AnswersOK, StartOK, Fresh, Cleared
<1>6. QED BY <1>2, <1>3, <1>4, <1>5 DEF PageInv

\* beginOperation changes nothing of a call but whether it is current.
LEMMA SupersededCalls ==
  ASSUME TypeOK
  PROVE  /\ Superseded \in [Id -> Call \cup {NoCall}]
         /\ \A i \in Id : calls[i] = NoCall => Superseded[i] = NoCall
         /\ \A i \in Id : calls[i] # NoCall =>
               /\ Superseded[i] # NoCall /\ ~Superseded[i].current
               /\ Superseded[i].op = calls[i].op
               /\ Superseded[i].path = calls[i].path
               /\ Superseded[i].stage = calls[i].stage
               /\ Superseded[i].answer = calls[i].answer
<1>1. ASSUME NEW i \in Id, calls[i] # NoCall
      PROVE  /\ Superseded[i] \in Call /\ Superseded[i].current = FALSE
             /\ Superseded[i].op = calls[i].op
             /\ Superseded[i].path = calls[i].path
             /\ Superseded[i].stage = calls[i].stage
             /\ Superseded[i].answer = calls[i].answer
  <2>1. calls[i] \in Call
    BY <1>1 DEF TypeOK
  <2>2. Superseded[i] = [calls[i] EXCEPT !.current = FALSE]
    BY <1>1 DEF Superseded
  <2>3. QED BY <2>1, <2>2 DEF Call
<1>2. \A i \in Id : calls[i] = NoCall => Superseded[i] = NoCall
  BY DEF Superseded
<1>3. Superseded \in [Id -> Call \cup {NoCall}]
  BY <1>1, <1>2 DEF Superseded
<1>4. QED BY <1>1, <1>2, <1>3, NoCallAssumption

\* What a handler has to see to before it invokes a command.
LEMMA InvokeStep ==
  ASSUME PageInv, ~state.busy,
         NEW op \in Operation, NEW given \in State,
         Invoke(op, currentPath, given),
         Chain(given), LeftBy(op, given),
         given.dryRunReady => state.dryRunReady,
         given.validated => state.validated
  PROVE  PageInv'
<1> USE DEF PageInv
<1>1. PICK i \in Id :
        /\ calls[i] = NoCall
        /\ calls' = [Superseded EXCEPT ![i] =
                       [op |-> op, path |-> currentPath, current |-> TRUE,
                        stage |-> "sent", answer |-> "none"]]
        /\ state' = [given EXCEPT !.busy = TRUE]
        /\ currentPath' = currentPath /\ starting' = starting
        /\ slot' = slot /\ touched' = touched /\ overtaken' = overtaken
  BY DEF Invoke
<1>2. /\ state' \in State /\ state'.busy = TRUE
      /\ state'.projectPath = given.projectPath
      /\ state'.validated = given.validated
      /\ state'.preflightReady = given.preflightReady
      /\ state'.localReady = given.localReady
      /\ state'.dryRunReady = given.dryRunReady
      /\ state'.needsRecovery = given.needsRecovery
  BY <1>1 DEF State
<1>3. /\ Superseded \in [Id -> Call \cup {NoCall}]
      /\ \A j \in Id : calls[j] = NoCall => Superseded[j] = NoCall
      /\ \A j \in Id : calls[j] # NoCall =>
            /\ Superseded[j] # NoCall /\ ~Superseded[j].current
            /\ Superseded[j].op = calls[j].op
            /\ Superseded[j].path = calls[j].path
            /\ Superseded[j].stage = calls[j].stage
            /\ Superseded[j].answer = calls[j].answer
  BY SupersededCalls
<1>4. [op |-> op, path |-> currentPath, current |-> TRUE,
       stage |-> "sent", answer |-> "none"] \in Call
  BY DEF TypeOK, Call
<1>5. /\ calls'[i] # NoCall /\ calls'[i].current = TRUE /\ calls'[i].op = op
      /\ calls'[i].path = currentPath /\ calls'[i].stage = "sent"
      /\ calls'[i].answer = "none"
      /\ \A j \in Id : j # i => calls'[j] = Superseded[j]
      /\ calls' \in [Id -> Call \cup {NoCall}]
  BY <1>1, <1>3, <1>4, NoCallAssumption
<1>6. TypeOK'
  BY <1>1, <1>2, <1>3, <1>5 DEF TypeOK
<1>7. SlotsMatchWorkers'
  <2>1. \A g \in Gated : Running(g)' = Running(g)
    BY <1>1, <1>3, <1>5 DEF Running, InFlight
  <2>2. QED BY <1>1, <2>1 DEF NobodyWaitsInVain, SlotsMatchWorkers
<1>8. BusyAwaitsAnAnswer'
  BY <1>1, <1>5 DEF BusyAwaitsAnAnswer, InFlight, IsCurrent
<1>9. ResultsRestOnEachOther'
  BY <1>1, <1>2 DEF ResultsRestOnEachOther, OnPath, Chain
<1>10. CurrentOK'
  <2>1. LeftBy(op, state')
    BY <1>2 DEF LeftBy
  <2>2. LeftBy(op, state)'
    BY <1>1, <2>1 DEF LeftBy
  <2>3. ASSUME NEW j \in Id, calls'[j] # NoCall, calls'[j].current
        PROVE  j = i
    BY <1>3, <1>5, <2>3
  <2>4. QED BY <1>1, <1>2, <1>5, <2>2, <2>3 DEF CurrentOK, LeftBy
<1>11. AnswersOK'
  BY <1>3, <1>5 DEF AnswersOK
<1>12. StartOK'
  BY <1>1, <1>2 DEF StartOK
<1>13. Fresh'
  <2>1. ~\E j \in Id : /\ calls[j] # NoCall /\ calls[j].current
                       /\ calls[j].op = "provision"
    BY DEF CurrentOK
  <2>2. QED BY <1>1, <1>2, <2>1 DEF Fresh
<1>14. QED
  BY <1>6, <1>7, <1>8, <1>9, <1>10, <1>11, <1>12, <1>13
  DEF NobodyWaitsInVain

\* The handlers, each with what it gives up.
LEMMA HandlersStep ==
  ASSUME PageInv,
         \/ OnValidate \/ OnValidateConfiguration \/ OnPreflight \/ OnProvision
         \/ OnPrepareLocal \/ OnDryRun \/ OnPublish \/ OnRecover
  PROVE  PageInv'
<1>1. /\ state \in State /\ currentPath \in Path /\ Chain(state)
      /\ NoPath \in Path
  BY RestIsChain DEF PageInv, TypeOK, Path
<1>2. CASE OnValidate
  <2> DEFINE given == [Cleared EXCEPT !.projectPath = currentPath]
  <2>1. /\ given \in State /\ given.projectPath = currentPath
        /\ ~given.validated /\ ~given.preflightReady /\ ~given.localReady
        /\ ~given.dryRunReady /\ ~given.needsRecovery
    BY <1>1 DEF Cleared, State
  <2>2. ~state.busy /\ Invoke("validate", currentPath, given)
    BY <1>2 DEF OnValidate
  <2>3. Chain(given) /\ LeftBy("validate", given)
    BY <2>1 DEF Chain, LeftBy
  <2> HIDE DEF given
  <2>4. "validate" \in Operation
    BY DEF Operation, Sync
  <2>5. QED BY <2>1, <2>2, <2>3, <2>4, InvokeStep
<1>3. CASE OnValidateConfiguration
  <2>1. ~state.busy /\ Invoke("configuration", currentPath, state)
    BY <1>3 DEF OnValidateConfiguration
  <2>2. LeftBy("configuration", state)
    BY DEF LeftBy
  <2>3. "configuration" \in Operation
    BY DEF Operation, Sync
  <2>4. QED BY <1>1, <2>1, <2>2, <2>3, InvokeStep
<1>4. CASE OnPreflight
  <2> DEFINE given == [state EXCEPT !.preflightReady = FALSE,
                          !.localReady = FALSE, !.dryRunReady = FALSE]
  <2>1. /\ given \in State /\ given.projectPath = state.projectPath
        /\ given.validated = state.validated
        /\ ~given.preflightReady /\ ~given.localReady /\ ~given.dryRunReady
        /\ given.needsRecovery = state.needsRecovery
    BY <1>1 DEF State
  <2>2. /\ ~state.busy /\ state.validated /\ currentPath = state.projectPath
        /\ Invoke("preflight", state.projectPath, given)
    BY <1>4 DEF OnPreflight, CanPreflight, OnPath
  <2>3. Chain(given) /\ LeftBy("preflight", given)
    BY <1>1, <2>1, <2>2 DEF Chain, LeftBy
  <2> HIDE DEF given
  <2>4. "preflight" \in Operation
    BY DEF Operation, Sync
  <2>5. QED BY <2>1, <2>2, <2>3, <2>4, InvokeStep
<1>5. CASE OnProvision
  <2>1. /\ ~state.busy /\ state.validated /\ currentPath = state.projectPath
        /\ Invoke("provision", state.projectPath, state)
    BY <1>5 DEF OnProvision, CanProvision, CanPreflight, OnPath
  <2>2. LeftBy("provision", state)
    BY <2>1 DEF LeftBy
  <2>3. "provision" \in Operation
    BY DEF Operation, Worker, Gated
  <2>4. QED BY <1>1, <2>1, <2>2, <2>3, InvokeStep
<1>6. CASE OnPrepareLocal
  <2> DEFINE given == [state EXCEPT !.localReady = FALSE, !.dryRunReady = FALSE]
  <2>1. /\ given \in State /\ given.projectPath = state.projectPath
        /\ given.validated = state.validated
        /\ given.preflightReady = state.preflightReady
        /\ ~given.localReady /\ ~given.dryRunReady
        /\ given.needsRecovery = state.needsRecovery
    BY <1>1 DEF State
  <2>2. /\ ~state.busy /\ state.validated /\ currentPath = state.projectPath
        /\ state.preflightReady
        /\ Invoke("prepare", state.projectPath, given)
    BY <1>6 DEF OnPrepareLocal, CanPrepareLocal, CanPreflight, OnPath
  <2>3. Chain(given) /\ LeftBy("prepare", given)
    BY <1>1, <2>1, <2>2 DEF Chain, LeftBy
  <2> HIDE DEF given
  <2>4. "prepare" \in Operation
    BY DEF Operation, Worker
  <2>5. QED BY <2>1, <2>2, <2>3, <2>4, InvokeStep
<1>7. CASE OnDryRun
  <2> DEFINE given == [state EXCEPT !.needsRecovery = FALSE,
                                    !.dryRunReady = FALSE]
  <2>1. /\ given \in State /\ given.projectPath = state.projectPath
        /\ given.validated = state.validated
        /\ given.preflightReady = state.preflightReady
        /\ given.localReady = state.localReady
        /\ ~given.dryRunReady /\ ~given.needsRecovery
    BY <1>1 DEF State
  <2>2. /\ ~state.busy /\ state.validated /\ currentPath = state.projectPath
        /\ state.localReady
        /\ Invoke("dry_run", state.projectPath, given)
    BY <1>7 DEF OnDryRun, OnPath
  <2>3. Chain(given) /\ LeftBy("dry_run", given)
    BY <1>1, <2>1, <2>2 DEF Chain, LeftBy
  <2> HIDE DEF given
  <2>4. "dry_run" \in Operation
    BY DEF Operation, Sync
  <2>5. QED BY <2>1, <2>2, <2>3, <2>4, InvokeStep
<1>8. CASE OnPublish
  <2>1. /\ ~state.busy /\ state.validated /\ currentPath = state.projectPath
        /\ Invoke("publish", state.projectPath, state)
    BY <1>8 DEF OnPublish, CanPublish, CanPrepareLocal, CanPreflight, OnPath
  <2>2. LeftBy("publish", state)
    BY <2>1 DEF LeftBy
  <2>3. "publish" \in Operation
    BY DEF Operation, Worker, Gated
  <2>4. QED BY <1>1, <2>1, <2>2, <2>3, InvokeStep
<1>9. CASE OnRecover
  <2> DEFINE given == [state EXCEPT !.needsRecovery = FALSE,
                                    !.dryRunReady = FALSE]
  <2>1. /\ given \in State /\ given.projectPath = state.projectPath
        /\ given.validated = state.validated
        /\ given.preflightReady = state.preflightReady
        /\ given.localReady = state.localReady
        /\ ~given.dryRunReady /\ ~given.needsRecovery
    BY <1>1 DEF State
  <2>2. /\ ~state.busy /\ state.needsRecovery
        /\ currentPath = state.projectPath
        /\ Invoke("recover", state.projectPath, given)
    BY <1>9 DEF OnRecover, CanRecover, OnPath
  <2>3. Chain(given) /\ LeftBy("recover", given)
    BY <1>1, <2>1, <2>2 DEF Chain, LeftBy
  <2> HIDE DEF given
  <2>4. "recover" \in Operation
    BY DEF Operation, Sync
  <2>5. QED BY <2>1, <2>2, <2>3, <2>4, InvokeStep
<1>10. QED
  BY <1>2, <1>3, <1>4, <1>5, <1>6, <1>7, <1>8, <1>9

LEMMA PathStep ==
  ASSUME PageInv, OnProjectPathChanged
  PROVE  PageInv'
<1> USE DEF PageInv
<1>1. /\ currentPath' \in Path /\ calls' = Superseded /\ state' = Cleared
      /\ touched' = {} /\ overtaken' = {}
      /\ starting' = starting /\ slot' = slot
  BY DEF OnProjectPathChanged
<1>2. /\ Cleared \in State /\ ~Cleared.busy /\ ~Cleared.validated
      /\ ~Cleared.preflightReady /\ ~Cleared.localReady
      /\ ~Cleared.dryRunReady /\ ~Cleared.needsRecovery
  BY DEF Cleared, State, Path
<1>3. /\ \A j \in Id : calls[j] = NoCall => calls'[j] = NoCall
      /\ \A j \in Id : calls[j] # NoCall =>
            /\ calls'[j] # NoCall /\ ~calls'[j].current
            /\ calls'[j].op = calls[j].op
            /\ calls'[j].path = calls[j].path
            /\ calls'[j].stage = calls[j].stage
            /\ calls'[j].answer = calls[j].answer
      /\ calls' \in [Id -> Call \cup {NoCall}]
  BY <1>1, SupersededCalls
<1>4. TypeOK'
  BY <1>1, <1>2, <1>3 DEF TypeOK
<1>5. SlotsMatchWorkers'
  <2>1. \A g \in Gated : Running(g)' = Running(g)
    BY <1>3 DEF Running, InFlight
  <2>2. QED BY <1>1, <2>1 DEF NobodyWaitsInVain, SlotsMatchWorkers
<1>6. BusyAwaitsAnAnswer'
  BY <1>1, <1>2 DEF BusyAwaitsAnAnswer
<1>7. ResultsRestOnEachOther'
  BY <1>1, <1>2 DEF ResultsRestOnEachOther
<1>8. CurrentOK' /\ AnswersOK' /\ StartOK' /\ Fresh'
  BY <1>1, <1>2, <1>3 DEF CurrentOK, AnswersOK, StartOK, Fresh
<1>9. QED BY <1>4, <1>5, <1>6, <1>7, <1>8 DEF NobodyWaitsInVain

LEMMA StartStep ==
  ASSUME PageInv, FinishStart
  PROVE  PageInv'
<1> USE DEF PageInv
<1>1. /\ starting /\ starting' = FALSE
      /\ currentPath' = currentPath /\ calls' = calls /\ slot' = slot
      /\ touched' = touched /\ overtaken' = overtaken
      /\ state' = [state EXCEPT !.busy = FALSE]
  BY DEF FinishStart
<1>2. /\ state' \in State /\ ~state'.busy
      /\ state'.projectPath = state.projectPath
      /\ state'.validated = state.validated
      /\ state'.preflightReady = state.preflightReady
      /\ state'.localReady = state.localReady
      /\ state'.dryRunReady = state.dryRunReady
      /\ state'.needsRecovery = state.needsRecovery
  BY <1>1 DEF TypeOK, State
<1>3. ~state.validated
  BY <1>1 DEF StartOK
<1>4. TypeOK'
  BY <1>1, <1>2 DEF TypeOK
<1>5. NobodyWaitsInVain'
  <2>1. \A g \in Gated : Running(g)' = Running(g)
    BY <1>1 DEF Running, InFlight
  <2>2. QED
    BY <1>1, <1>2, <2>1
    DEF NobodyWaitsInVain, SlotsMatchWorkers, BusyAwaitsAnAnswer
<1>6. ResultsRestOnEachOther'
  BY <1>1, <1>2 DEF ResultsRestOnEachOther, OnPath
<1>7. CurrentOK'
  <2>1. \A i \in Id : calls[i] # NoCall /\ calls[i].current =>
           calls[i].op \in {"validate", "configuration"}
    BY <1>3 DEF CurrentOK, LeftBy
  <2>2. QED BY <1>1, <1>2, <2>1 DEF CurrentOK, LeftBy
<1>8. AnswersOK' /\ StartOK' /\ Fresh'
  BY <1>1, <1>2 DEF AnswersOK, StartOK, Fresh
<1>9. QED BY <1>4, <1>5, <1>6, <1>7, <1>8

-----------------------------------------------------------------------------
(* The commands.                                                           *)

\* Call i is the same call, further on.
Moves(i, stage, answer) ==
    /\ calls'[i] # NoCall
    /\ calls'[i] \in Call
    /\ calls'[i].op = calls[i].op /\ calls'[i].path = calls[i].path
    /\ calls'[i].current = calls[i].current
    /\ calls'[i].stage = stage /\ calls'[i].answer = answer
    /\ \A j \in Id : j # i => calls'[j] = calls[j]
    /\ DOMAIN calls' = Id
    /\ calls' \in [Id -> Call \cup {NoCall}]

LEMMA MovesFrom ==
  ASSUME TypeOK, NEW i \in Id, calls[i] # NoCall,
         NEW stage \in {"sent", "running", "answered"},
         NEW answer \in {"none", "ok", "not_ready", "needs_recovery", "busy",
                         "error"},
         calls' = [calls EXCEPT ![i].stage = stage, ![i].answer = answer]
  PROVE  Moves(i, stage, answer)
<1>1. calls[i] \in Call /\ calls \in [Id -> Call \cup {NoCall}]
  BY DEF TypeOK
<1>2. calls'[i] = [calls[i] EXCEPT !.stage = stage, !.answer = answer]
  BY <1>1
<1>3. /\ calls'[i] \in Call
      /\ calls'[i].op = calls[i].op /\ calls'[i].path = calls[i].path
      /\ calls'[i].current = calls[i].current
      /\ calls'[i].stage = stage /\ calls'[i].answer = answer
  BY <1>1, <1>2 DEF Call
<1>4. /\ \A j \in Id : j # i => calls'[j] = calls[j]
      /\ calls' \in [Id -> Call \cup {NoCall}]
  BY <1>1, <1>3
<1>5. QED BY <1>3, <1>4, NoCallAssumption DEF Moves

\* What a command does to a project outdates the dry run of the page only
\* where the page awaits it.
LEMMA CommandStep ==
  ASSUME PageInv, NEW i \in Id, calls[i] # NoCall,
         NEW stage \in {"running", "answered"}, NEW answer,
         Moves(i, stage, answer),
         state' = state, currentPath' = currentPath, starting' = starting,
         \/ Recorded(i)
         \/ /\ touched' = touched /\ overtaken' = overtaken
            /\ calls[i].op # "dry_run",
         answer = "ok" => calls[i].path # NoPath,
         slot' \in [Gated -> BOOLEAN], SlotsMatchWorkers'
  PROVE  PageInv'
<1> USE DEF PageInv, Moves
<1>1. /\ touched' \subseteq Outdating /\ overtaken' \subseteq Outdating
      /\ touched' \subseteq touched \cup {calls[i].op}
      /\ ~calls[i].current => touched' = touched
      /\ calls[i].op \notin Outdating => touched' \subseteq touched
      /\ calls[i].op = "dry_run" /\ calls[i].current => touched' = {}
  BY DEF Recorded, TypeOK
<1>2. TypeOK'
  BY <1>1 DEF TypeOK
<1>3. BusyAwaitsAnAnswer'
  BY DEF NobodyWaitsInVain, BusyAwaitsAnAnswer, InFlight, IsCurrent
<1>4. ResultsRestOnEachOther'
  BY DEF ResultsRestOnEachOther, OnPath
<1>5. CurrentOK'
  <2> SUFFICES ASSUME NEW j \in Id, calls'[j] # NoCall, calls'[j].current
               PROVE  /\ calls'[j].path = currentPath
                      /\ LeftBy(calls'[j].op, state)
                      /\ calls'[j].op \notin {"validate", "configuration"} =>
                            state.busy
                      /\ calls'[j].op = "dry_run"
                            /\ calls'[j].stage = "answered" => touched' = {}
    BY DEF CurrentOK, LeftBy
  <2>1. /\ calls[j] # NoCall /\ calls[j].current
        /\ calls'[j].op = calls[j].op /\ calls'[j].path = calls[j].path
    OBVIOUS
  <2>2. calls'[j].op = "dry_run" /\ calls'[j].stage = "answered" =>
           touched' = {}
    <3>1. CASE j = i
      BY <1>1, <2>1, <3>1
    <3>2. CASE j # i
      <4>1. ~calls[i].current
        BY <2>1, <3>2 DEF TypeOK
      <4>2. QED BY <1>1, <2>1, <3>2, <4>1 DEF CurrentOK
    <3>3. QED BY <3>1, <3>2
  <2>3. QED BY <2>1, <2>2 DEF CurrentOK
<1>6. AnswersOK'
  BY DEF AnswersOK
<1>7. StartOK'
  BY DEF StartOK
<1>8. Fresh'
  <2> SUFFICES ASSUME touched' # {}, state.dryRunReady
               PROVE  \E j \in Id : /\ calls'[j] # NoCall
                                    /\ calls'[j].current
                                    /\ calls'[j].op = "provision"
    BY DEF Fresh
  <2>1. CASE touched # {}
    <3>1. PICK j \in Id : /\ calls[j] # NoCall /\ calls[j].current
                          /\ calls[j].op = "provision"
      BY <2>1 DEF Fresh
    <3>2. QED BY <3>1
  <2>2. CASE touched = {}
    <3>1. calls[i].current /\ calls[i].op \in Outdating
      BY <1>1, <2>2
    <3>2. LeftBy(calls[i].op, state)
      BY <3>1 DEF CurrentOK
    <3>3. calls[i].op = "provision"
      BY <3>1, <3>2 DEF LeftBy, Outdating
    <3>4. QED BY <3>1, <3>3
  <2>3. QED BY <2>1, <2>2
<1>9. QED
  BY <1>2, <1>3, <1>4, <1>5, <1>6, <1>7, <1>8 DEF NobodyWaitsInVain

LEMMA AnswersOf ==
  ASSUME NEW op \in Operation, NEW path, NEW a \in Answers(op, path)
  PROVE  /\ a \in {"ok", "not_ready", "needs_recovery", "error"}
         /\ a = "ok" => path # NoPath
BY DEF Answers

LEMMA ExecuteStep ==
  ASSUME PageInv, NEW i \in Id, Execute(i)
  PROVE  PageInv'
<1> USE DEF PageInv
<1>1. /\ calls[i] # NoCall /\ calls[i].stage = "sent"
      /\ calls[i].op \in Sync /\ Recorded(i)
      /\ currentPath' = currentPath /\ state' = state
      /\ starting' = starting /\ slot' = slot
  BY DEF Execute, InFlight
<1>2. PICK a \in Answers(calls[i].op, calls[i].path) :
        calls' = [calls EXCEPT ![i].stage = "answered", ![i].answer = a]
  BY DEF Execute
<1>3. calls[i].op \in Operation
  BY <1>1 DEF Operation
<1>4. /\ a \in {"ok", "not_ready", "needs_recovery", "error"}
      /\ a = "ok" => calls[i].path # NoPath
  BY <1>2, <1>3, AnswersOf
<1>5. Moves(i, "answered", a)
  BY <1>1, <1>2, <1>4, MovesFrom
<1>6. \A g \in Gated : Running(g)' = Running(g)
  BY <1>1, <1>5 DEF Running, InFlight, Moves
<1>7. SlotsMatchWorkers'
  BY <1>1, <1>6 DEF NobodyWaitsInVain, SlotsMatchWorkers
<1>8. QED
  BY <1>1, <1>4, <1>5, <1>7, CommandStep DEF TypeOK

LEMMA RefuseStep ==
  ASSUME PageInv, NEW i \in Id, Refuse(i)
  PROVE  PageInv'
<1> USE DEF PageInv
<1>1. /\ calls[i] # NoCall /\ calls[i].stage = "sent"
      /\ calls[i].op \in Gated
      /\ currentPath' = currentPath /\ state' = state
      /\ starting' = starting /\ slot' = slot
      /\ touched' = touched /\ overtaken' = overtaken
      /\ calls' = [calls EXCEPT ![i].stage = "answered", ![i].answer = "busy"]
  BY DEF Refuse, InFlight
<1>2. Moves(i, "answered", "busy")
  BY <1>1, MovesFrom
<1>3. \A g \in Gated : Running(g)' = Running(g)
  BY <1>1, <1>2 DEF Running, InFlight, Moves
<1>4. SlotsMatchWorkers'
  BY <1>1, <1>3 DEF NobodyWaitsInVain, SlotsMatchWorkers
<1>5. calls[i].op # "dry_run"
  BY <1>1 DEF Gated
<1>6. QED
  BY <1>1, <1>2, <1>4, <1>5, CommandStep DEF TypeOK

LEMMA AdmitStep ==
  ASSUME PageInv, NEW i \in Id, Admit(i)
  PROVE  PageInv'
<1> USE DEF PageInv
<1>1. /\ calls[i] # NoCall /\ calls[i].stage = "sent"
      /\ calls[i].op \in Worker
      /\ calls[i].op \in Gated => ~slot[calls[i].op]
      /\ currentPath' = currentPath /\ state' = state
      /\ starting' = starting
      /\ touched' = touched /\ overtaken' = overtaken
      /\ calls' = [calls EXCEPT ![i].stage = "running"]
      /\ slot' = IF calls[i].op \in Gated
                 THEN [slot EXCEPT ![calls[i].op] = TRUE] ELSE slot
  BY DEF Admit, InFlight
<1>2. calls[i] \in Call /\ calls \in [Id -> Call \cup {NoCall}]
  BY <1>1 DEF TypeOK
<1>3. Moves(i, "running", calls[i].answer)
  <2>1. calls'[i] = [calls[i] EXCEPT !.stage = "running"]
    BY <1>1, <1>2
  <2>2. /\ calls'[i] \in Call
        /\ calls'[i].op = calls[i].op /\ calls'[i].path = calls[i].path
        /\ calls'[i].current = calls[i].current
        /\ calls'[i].stage = "running" /\ calls'[i].answer = calls[i].answer
    BY <1>2, <2>1 DEF Call
  <2>3. /\ \A j \in Id : j # i => calls'[j] = calls[j]
        /\ calls' \in [Id -> Call \cup {NoCall}]
    BY <1>1, <1>2, <2>2
  <2>4. QED BY <2>2, <2>3, NoCallAssumption DEF Moves
<1>4. ASSUME NEW g \in Gated
      PROVE  /\ \A j, k \in Running(g)' : j = k
             /\ slot'[g] <=> Running(g)' # {}
  <2>1. slot \in [Gated -> BOOLEAN]
    BY DEF TypeOK
  <2>2. CASE g = calls[i].op
    <3>1. Running(g) = {}
      BY <1>1, <2>2 DEF NobodyWaitsInVain, SlotsMatchWorkers
    <3>2. Running(g)' = {i}
      BY <1>1, <1>3, <2>2, <3>1 DEF Running, InFlight, Moves
    <3>3. slot'[g] = TRUE
      BY <1>1, <2>1, <2>2
    <3>4. QED BY <3>2, <3>3
  <2>3. CASE g # calls[i].op
    <3>1. Running(g)' = Running(g)
      BY <1>1, <1>3, <2>3 DEF Running, InFlight, Moves
    <3>2. slot'[g] = slot[g]
      BY <1>1, <2>1, <2>3
    <3>3. QED BY <3>1, <3>2 DEF NobodyWaitsInVain, SlotsMatchWorkers
  <2>4. QED BY <2>2, <2>3
<1>5. SlotsMatchWorkers'
  BY <1>4 DEF SlotsMatchWorkers
<1>6. slot' \in [Gated -> BOOLEAN]
  BY <1>1 DEF TypeOK
<1>7. calls[i].op # "dry_run"
  BY <1>1 DEF Worker, Gated
<1>8. calls[i].answer = "ok" => calls[i].path # NoPath
  BY <1>1 DEF AnswersOK
<1>9. QED
  BY <1>1, <1>3, <1>5, <1>6, <1>7, <1>8, CommandStep

LEMMA FinishStep ==
  ASSUME PageInv, NEW i \in Id, Finish(i)
  PROVE  PageInv'
<1> USE DEF PageInv
<1>1. /\ calls[i] # NoCall /\ calls[i].stage = "running"
      /\ Recorded(i)
      /\ currentPath' = currentPath /\ state' = state
      /\ starting' = starting
      /\ slot' = IF calls[i].op \in Gated
                 THEN [slot EXCEPT ![calls[i].op] = FALSE] ELSE slot
  BY DEF Finish, InFlight
<1>2. PICK a \in Answers(calls[i].op, calls[i].path) :
        calls' = [calls EXCEPT ![i].stage = "answered", ![i].answer = a]
  BY DEF Finish
<1>3. calls[i].op \in Operation
  BY <1>1 DEF TypeOK, Call
<1>4. /\ a \in {"ok", "not_ready", "needs_recovery", "error"}
      /\ a = "ok" => calls[i].path # NoPath
  BY <1>2, <1>3, AnswersOf
<1>5. Moves(i, "answered", a)
  BY <1>1, <1>2, <1>4, MovesFrom
<1>6. ASSUME NEW g \in Gated
      PROVE  /\ \A j, k \in Running(g)' : j = k
             /\ slot'[g] <=> Running(g)' # {}
  <2>1. slot \in [Gated -> BOOLEAN]
    BY DEF TypeOK
  <2>2. CASE g = calls[i].op
    <3>1. Running(g) = {i}
      BY <1>1, <2>2 DEF NobodyWaitsInVain, SlotsMatchWorkers, Running, InFlight
    <3>2. Running(g)' = {}
      BY <1>5, <3>1 DEF Running, InFlight, Moves
    <3>3. slot'[g] = FALSE
      BY <1>1, <2>1, <2>2
    <3>4. QED BY <3>2, <3>3
  <2>3. CASE g # calls[i].op
    <3>1. Running(g)' = Running(g)
      BY <1>5, <2>3 DEF Running, InFlight, Moves
    <3>2. slot'[g] = slot[g]
      BY <1>1, <2>1, <2>3
    <3>3. QED BY <3>1, <3>2 DEF NobodyWaitsInVain, SlotsMatchWorkers
  <2>4. QED BY <2>2, <2>3
<1>7. SlotsMatchWorkers'
  BY <1>6 DEF SlotsMatchWorkers
<1>8. slot' \in [Gated -> BOOLEAN]
  BY <1>1 DEF TypeOK
<1>9. QED
  BY <1>1, <1>4, <1>5, <1>7, <1>8, CommandStep

-----------------------------------------------------------------------------
(* The answers.                                                            *)

\* What the handler of a current call makes of the answer: the page is free,
\* and its results still rest on each other.
LEMMA AnsweredPage ==
  ASSUME PageInv, NEW i \in Id, calls[i] # NoCall, calls[i].current
  PROVE  /\ Answered(calls[i]) \in State
         /\ ~Answered(calls[i]).busy
         /\ Chain(Answered(calls[i]))
         /\ Answered(calls[i]).validated /\ ~state.validated =>
               calls[i].op = "validate"
         /\ touched # {} =>
               \/ ~Answered(calls[i]).dryRunReady
               \/ calls[i].op = "dry_run" /\ calls[i].stage # "answered"
<1> USE DEF PageInv
<1> DEFINE c == calls[i]
           s == Answered(c)
<1>1. /\ state \in State /\ Chain(state) /\ LeftBy(c.op, state)
  BY RestIsChain DEF TypeOK, CurrentOK
<1>2. c.path = currentPath
  BY DEF CurrentOK
<1>3. c.answer = "ok" => currentPath # NoPath
  BY <1>2 DEF AnswersOK
<1>4. touched # {} /\ c.op # "provision" => ~state.dryRunReady
  BY DEF Fresh, TypeOK
<1>5. CASE c.op = "validate"
  <2>1. s = [[state EXCEPT !.busy = FALSE] EXCEPT !.validated = c.answer = "ok"]
    BY <1>5 DEF Answered
  <2>2. /\ s \in State /\ ~s.busy /\ s.projectPath = state.projectPath
        /\ s.validated <=> c.answer = "ok"
        /\ s.preflightReady = state.preflightReady
        /\ s.localReady = state.localReady
        /\ s.dryRunReady = state.dryRunReady
        /\ s.needsRecovery = state.needsRecovery
    BY <1>1, <2>1 DEF State
  <2>3. QED BY <1>1, <1>3, <1>5, <2>2 DEF Chain, LeftBy
<1>6. CASE c.op = "preflight"
  <2>1. s = [[state EXCEPT !.busy = FALSE]
               EXCEPT !.preflightReady = c.answer = "ok"]
    BY <1>6 DEF Answered
  <2>2. /\ s \in State /\ ~s.busy /\ s.projectPath = state.projectPath
        /\ s.validated = state.validated
        /\ s.localReady = state.localReady
        /\ s.dryRunReady = state.dryRunReady
        /\ s.needsRecovery = state.needsRecovery
    BY <1>1, <2>1 DEF State
  <2>3. QED BY <1>1, <1>6, <2>2 DEF Chain, LeftBy
<1>7. CASE c.op = "provision"
  <2>1. s = [[state EXCEPT !.busy = FALSE] EXCEPT !.dryRunReady = FALSE]
    BY <1>7 DEF Answered
  <2>2. /\ s \in State /\ ~s.busy /\ s.projectPath = state.projectPath
        /\ s.validated = state.validated
        /\ s.preflightReady = state.preflightReady
        /\ s.localReady = state.localReady
        /\ ~s.dryRunReady
        /\ s.needsRecovery = state.needsRecovery
    BY <1>1, <2>1 DEF State
  <2>3. QED BY <1>1, <2>2 DEF Chain
<1>8. CASE c.op = "prepare"
  <2>1. s = [[state EXCEPT !.busy = FALSE] EXCEPT !.localReady = c.answer = "ok"]
    BY <1>8 DEF Answered
  <2>2. /\ s \in State /\ ~s.busy /\ s.projectPath = state.projectPath
        /\ s.validated = state.validated
        /\ s.preflightReady = state.preflightReady
        /\ s.dryRunReady = state.dryRunReady
        /\ s.needsRecovery = state.needsRecovery
    BY <1>1, <2>1 DEF State
  <2>3. QED BY <1>1, <1>8, <2>2 DEF Chain, LeftBy
<1>9. CASE c.op = "dry_run"
  <2>1. s = [[state EXCEPT !.busy = FALSE]
               EXCEPT !.dryRunReady = c.answer = "ok"]
    BY <1>9 DEF Answered
  <2>2. /\ s \in State /\ ~s.busy /\ s.projectPath = state.projectPath
        /\ s.validated = state.validated
        /\ s.preflightReady = state.preflightReady
        /\ s.localReady = state.localReady
        /\ s.needsRecovery = state.needsRecovery
    BY <1>1, <2>1 DEF State
  <2>3. Chain(s)
    BY <1>1, <1>9, <2>2 DEF Chain, LeftBy
  <2>4. c.stage = "answered" => touched = {}
    BY <1>9 DEF CurrentOK
  <2>5. QED BY <1>9, <2>2, <2>3, <2>4
<1>10. CASE c.op = "publish" /\ c.answer \in {"ok", "needs_recovery"}
  <2>1. s = [[state EXCEPT !.busy = FALSE]
               EXCEPT !.dryRunReady = FALSE,
                      !.needsRecovery = c.answer = "needs_recovery"]
    BY <1>10 DEF Answered
  <2>2. /\ s \in State /\ ~s.busy /\ s.projectPath = state.projectPath
        /\ s.validated = state.validated
        /\ s.preflightReady = state.preflightReady
        /\ s.localReady = state.localReady
        /\ ~s.dryRunReady
    BY <1>1, <2>1 DEF State
  <2>3. QED BY <1>1, <1>10, <2>2 DEF Chain, LeftBy
<1>11. CASE /\ c.op \notin {"validate", "preflight", "provision", "prepare",
                            "dry_run"}
            /\ ~(c.op = "publish" /\ c.answer \in {"ok", "needs_recovery"})
  <2>1. s = [state EXCEPT !.busy = FALSE]
    BY <1>11 DEF Answered
  <2>2. /\ s \in State /\ ~s.busy /\ s.projectPath = state.projectPath
        /\ s.validated = state.validated
        /\ s.preflightReady = state.preflightReady
        /\ s.localReady = state.localReady
        /\ s.dryRunReady = state.dryRunReady
        /\ s.needsRecovery = state.needsRecovery
    BY <1>1, <2>1 DEF State
  <2>3. QED BY <1>1, <1>4, <1>11, <2>2 DEF Chain
<1>12. QED
  BY <1>5, <1>6, <1>7, <1>8, <1>9, <1>10, <1>11

LEMMA DeliverStep ==
  ASSUME PageInv, NEW i \in Id, Deliver(i)
  PROVE  PageInv'
<1> USE DEF PageInv
<1>1. /\ calls[i] # NoCall /\ calls[i].stage = "answered" /\ ~starting
      /\ calls' = [calls EXCEPT ![i] = NoCall]
      /\ state' = IF IsCurrent(calls[i]) THEN Answered(calls[i]) ELSE state
      /\ currentPath' = currentPath /\ starting' = starting
      /\ slot' = slot /\ touched' = touched /\ overtaken' = overtaken
  BY DEF Deliver, InFlight
<1>2. /\ calls'[i] = NoCall
      /\ \A j \in Id : j # i => calls'[j] = calls[j]
      /\ calls' \in [Id -> Call \cup {NoCall}]
  BY <1>1 DEF TypeOK
<1>3. SlotsMatchWorkers'
  <2>1. \A g \in Gated : Running(g)' = Running(g)
    BY <1>1, <1>2 DEF Running, InFlight
  <2>2. QED BY <1>1, <2>1 DEF NobodyWaitsInVain, SlotsMatchWorkers
<1>4. AnswersOK'
  BY <1>2 DEF AnswersOK
<1>5. CASE calls[i].current
  <2>1. state' = Answered(calls[i])
    BY <1>1, <1>5 DEF CurrentOK, IsCurrent
  <2>2. /\ state' \in State /\ ~state'.busy /\ Chain(state')
        /\ touched # {} => ~state'.dryRunReady
    BY <1>1, <1>5, <2>1, AnsweredPage
  <2>3. \A j \in Id : calls'[j] # NoCall => ~calls'[j].current
    BY <1>1, <1>2, <1>5 DEF TypeOK
  <2>4. TypeOK'
    BY <1>1, <1>2, <2>2, <2>3 DEF TypeOK
  <2>5. BusyAwaitsAnAnswer'
    BY <2>2 DEF BusyAwaitsAnAnswer
  <2>6. ResultsRestOnEachOther'
    BY <1>1, <2>2 DEF ResultsRestOnEachOther, Chain, OnPath
  <2>7. CurrentOK' /\ StartOK' /\ Fresh'
    BY <1>1, <2>2, <2>3 DEF CurrentOK, StartOK, Fresh
  <2>8. QED
    BY <1>3, <1>4, <2>4, <2>5, <2>6, <2>7 DEF NobodyWaitsInVain
<1>6. CASE ~calls[i].current
  <2>1. state' = state
    BY <1>1, <1>6 DEF IsCurrent
  <2>2. \A j \in Id : calls[j] # NoCall /\ calls[j].current =>
           calls'[j] = calls[j]
    BY <1>2, <1>6
  <2>3. TypeOK'
    BY <1>1, <1>2, <2>1 DEF TypeOK
  <2>4. BusyAwaitsAnAnswer'
    BY <1>1, <2>1, <2>2
    DEF NobodyWaitsInVain, BusyAwaitsAnAnswer, InFlight, IsCurrent
  <2>5. ResultsRestOnEachOther'
    BY <1>1, <2>1 DEF ResultsRestOnEachOther, OnPath
  <2>6. CurrentOK'
    BY <1>1, <1>2, <2>1 DEF CurrentOK, LeftBy
  <2>7. StartOK' /\ Fresh'
    BY <1>1, <2>1, <2>2 DEF StartOK, Fresh
  <2>8. QED
    BY <1>3, <1>4, <2>3, <2>4, <2>5, <2>6, <2>7 DEF NobodyWaitsInVain
<1>7. QED BY <1>5, <1>6

LEMMA IdleStep ==
  ASSUME PageInv, UNCHANGED vars
  PROVE  PageInv'
<1> USE DEF PageInv
<1>1. /\ currentPath' = currentPath /\ state' = state /\ calls' = calls
      /\ starting' = starting /\ slot' = slot
      /\ touched' = touched /\ overtaken' = overtaken
  BY DEF vars
<1>2. TypeOK'
  BY <1>1 DEF TypeOK
<1>3. NobodyWaitsInVain'
  BY <1>1 DEF NobodyWaitsInVain, SlotsMatchWorkers, BusyAwaitsAnAnswer,
              Running, InFlight, IsCurrent
<1>4. ResultsRestOnEachOther'
  BY <1>1 DEF ResultsRestOnEachOther, OnPath
<1>5. CurrentOK' /\ AnswersOK' /\ StartOK' /\ Fresh'
  BY <1>1 DEF CurrentOK, LeftBy, AnswersOK, StartOK, Fresh
<1>6. QED BY <1>2, <1>3, <1>4, <1>5

-----------------------------------------------------------------------------
(* The theorems.                                                           *)

LEMMA PageStep == PageInv /\ [Next]_vars => PageInv'
BY HandlersStep, PathStep, StartStep, ExecuteStep, RefuseStep, AdmitStep,
   FinishStep, DeliverStep, IdleStep
DEF Next, User, Backend

LEMMA PageInvariance == Spec => []PageInv
BY InitPage, PageStep, PTL DEF Spec

\* Only one of the calls in flight is of the present generation.
THEOREM DesktopTypeCorrect == Spec => []TypeOK
<1>1. PageInv => TypeOK
  BY DEF PageInv
<1>2. QED BY <1>1, PageInvariance, PTL

\* A slot is taken exactly while a thread of its operation runs, and the page
\* is busy only for an answer that it will accept, for any number of calls.
THEOREM NothingWaitsInVain == Spec => []NobodyWaitsInVain
<1>1. PageInv => NobodyWaitsInVain
  BY DEF PageInv
<1>2. QED BY <1>1, PageInvariance, PTL

\* No late answer supplies a link of the chain from the validation to the
\* dry run alone.
THEOREM ChainHolds == Spec => []ResultsRestOnEachOther
<1>1. PageInv => ResultsRestOnEachOther
  BY DEF PageInv
<1>2. QED BY <1>1, PageInvariance, PTL

\* Publish is offered only on a dry run that nothing the page awaits has
\* made obsolete.
THEOREM OfferedPlanIsFresh == Spec => []PlanIsFresh
<1>1. PageInv => PlanIsFresh
  <2> SUFFICES ASSUME PageInv, CanPublish, touched # {}
               PROVE  FALSE
    BY DEF PlanIsFresh
  <2>1. state.dryRunReady /\ ~state.busy
    BY DEF CanPublish, CanPrepareLocal, CanPreflight
  <2>2. PICK i \in Id : /\ calls[i] # NoCall /\ calls[i].current
                        /\ calls[i].op = "provision"
    BY <2>1 DEF PageInv, Fresh
  <2>3. state.busy
    BY <2>2 DEF PageInv, CurrentOK
  <2>4. QED BY <2>1, <2>3
<1>2. QED BY <1>1, PageInvariance, PTL

=============================================================================
