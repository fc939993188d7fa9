-------------------------- MODULE LocalPublication --------------------------
(***************************************************************************)
(* The local publication of one output directory: build_local_gallery and  *)
(* recover_publication of crates/publisher-pipeline/src/lib.rs, over the   *)
(* journal of src/journal.rs.  Every operating-system process that runs    *)
(* `publish` (or `prepare`) or `recover` on the directory is a member of   *)
(* Proc; a step is one durable change to the directory, so a process can   *)
(* be interrupted, by an I/O error or a kill, between any two of them.     *)
(***************************************************************************)
EXTENDS JournalRecords, FiniteSets

CONSTANTS
    Proc,          \* the processes that run a command on this directory
    Torn,          \* the content of a file whose write was cut short
    FaultPoints,   \* where a process may be interrupted (see FaultPointOf)
    MaxFaults,     \* bound: interruptions in one behaviour
    RecoverAlone   \* TRUE: `recover` is only run while nothing else runs

ASSUME TornAssumption == Torn \notin JournalRecord \cup {Absent}
ASSUME FaultAssumption == MaxFaults \in Nat /\ RecoverAlone \in BOOLEAN

VARIABLES
    \* the output directory
    journal,    \* .publisher/journal.json
    candidate,  \* .publisher/journal.json.new
    history,    \* the readable files of .publisher/journal/history
    torn,       \* sequences whose history file exists but does not parse
    active,     \* gallery.json and .publisher/state.json
    staging,    \* .publisher/staging/<generation>
    backups,    \* .publisher/backups/<generation>
    runLock,    \* .publisher/run.lock exists
    \* the processes
    pc,         \* what the process does next
    after,      \* where it goes on once the journal is updated
    command,    \* the command it runs
    rec,        \* the journal record it holds in memory
    target,     \* the photo set it found in the source directory
    outcome,    \* how the last run to end ended
    faults      \* interruptions so far

journalFiles == <<journal, candidate, history, torn>>
directories == <<staging, backups>>
memory == <<after, rec, target>>
vars == <<journal, candidate, history, torn, active, staging, backups,
          runLock, pc, after, command, rec, target, outcome, faults>>

StagingNames == 1 .. MaxGeneration + 1

RecoveryLabels ==
    {"recover", "completeState", "restoreGallery", "restoreState",
     "commitRecovered", "recovered"}
JournalLabels == {"archive", "writeCandidate", "replaceJournal"}
PublishLabels ==
    {"scan", "stageGallery", "stageState", "stageRecord", "prepare",
     "backup", "backupGallery", "backupState", "backupRecord",
     "installGallery", "installState", "commit", "cleanup"}
Labels == {"idle"} \cup RecoveryLabels \cup JournalLabels \cup PublishLabels
Commands == {"none", "publish", "recover"}
Outcomes == {"none", "done", "busy", "refused", "error", "killed"}

TypeOK ==
    /\ journal \in JournalRecord \cup {Absent, Torn}
    /\ candidate \in JournalRecord \cup {Absent, Torn}
    /\ history \in SUBSET JournalRecord
    /\ torn \in SUBSET Nat
    /\ active \in Pair
    /\ staging \in [StagingNames -> Directory \cup {Absent}]
    /\ backups \in [Generations -> Directory \cup {Absent}]
    /\ runLock \in BOOLEAN
    /\ pc \in [Proc -> Labels]
    /\ after \in [Proc -> Labels]
    /\ command \in [Proc -> Commands]
    /\ rec \in [Proc -> JournalRecord \cup {Absent}]
    /\ target \in [Proc -> File]
    /\ outcome \in Outcomes
    /\ faults \in 0 .. MaxFaults

Init ==
    /\ journal = Absent
    /\ candidate = Absent
    /\ history = {}
    /\ torn = {}
    /\ active = NoPair
    /\ staging = [g \in StagingNames |-> Absent]
    /\ backups = [g \in Generations |-> Absent]
    /\ runLock = FALSE
    /\ pc = [p \in Proc |-> "idle"]
    /\ after = [p \in Proc |-> "idle"]
    /\ command = [p \in Proc |-> "none"]
    /\ rec = [p \in Proc |-> Absent]
    /\ target = [p \in Proc |-> Absent]
    /\ outcome = "none"
    /\ faults = 0

-----------------------------------------------------------------------------
(* What a record says about the directory.                                 *)

ActiveIs(gallery, state) == active = [gallery |-> gallery, state |-> state]

HoldsNew(r) == ActiveIs(r.gallery, r.state)
HoldsPrevious(r) == ActiveIs(r.prevGallery, r.prevState)

\* validate_staging
StagingIsValid(r) ==
    /\ Verified(staging[r.gen])
    /\ staging[r.gen].record = [gallery |-> r.gallery, state |-> r.state]

\* verify_backup
BackupIsValid(r) ==
    /\ r.prev # NoGeneration
    /\ Verified(backups[r.prev])
    /\ backups[r.prev].record =
          [gallery |-> r.prevGallery, state |-> r.prevState]

\* The records recovery can read.  Files that do not parse are skipped.
Evidence ==
    ({journal, candidate} \ {Absent, Torn}) \cup history

-----------------------------------------------------------------------------
(* The decision of recover_record, one predicate for each way to go on.    *)

Trusted(r) ==
    /\ r \in Latest(Evidence)
    /\ ~Ambiguous(Evidence)
    /\ ChainHolds(r, Evidence)

\* No journal and no active file: there was never a publication.
NothingToRecover == Evidence = {} /\ active = NoPair

\* Committed or rolled back, and the active pair is the one the record names.
Settled(r) ==
    \/ r.phase = "Committed" /\ HoldsNew(r)
    \/ /\ r.phase = "RolledBack"
       /\ HoldsPrevious(r)
       /\ r.prev # NoGeneration => BackupIsValid(r)

\* Mutant of CanComplete: a half installed first publication is not taken up.
NeverCompletes(r) == FALSE

\* A first publication stopped between its two installations.
CanComplete(r) ==
    /\ r.phase = "Prepared"
    /\ r.prev = NoGeneration
    /\ ActiveIs(r.gallery, Absent)
    /\ StagingIsValid(r)

\* Mutant of BothInstalled: the state file is not looked at.
GalleryInstalled(r) ==
    r.phase \in InFlightPhases \ {"Prepared"} /\ active.gallery = r.gallery

BothInstalled(r) == r.phase \in InFlightPhases \ {"Prepared"} /\ HoldsNew(r)

CanPromote(r) ==
    /\ BothInstalled(r)
    /\ StagingIsValid(r)
    /\ r.prev # NoGeneration => BackupIsValid(r)

RollsBack(r) == r.phase \in InFlightPhases /\ ~BothInstalled(r)
\* Mutant of CanRestore: verify_backup is not called.
RestoresUnverified(r) == RollsBack(r) /\ r.prev # NoGeneration

CanRestore(r) == RollsBack(r) /\ BackupIsValid(r)
CanAbandon(r) == RollsBack(r) /\ r.prev = NoGeneration /\ active = NoPair

CanRecover ==
    \/ NothingToRecover
    \/ \E r \in Latest(Evidence) :
          /\ Trusted(r)
          /\ \/ Settled(r)
             \/ CanComplete(r)
             \/ CanPromote(r)
             \/ CanRestore(r)
             \/ CanAbandon(r)

-----------------------------------------------------------------------------
(* Control shared by the actions.                                          *)

Goto(p, label) == pc' = [pc EXCEPT ![p] = label]

\* Mutant of EndRun: every command removes run.lock, `recover` as well.
EndRunUnlocking(p, result) ==
    /\ Goto(p, "idle")
    /\ after' = [after EXCEPT ![p] = "idle"]
    /\ rec' = [rec EXCEPT ![p] = Absent]
    /\ target' = [target EXCEPT ![p] = Absent]
    /\ command' = [command EXCEPT ![p] = "none"]
    /\ outcome' = result
    /\ runLock' = FALSE

\* The end of a run.  The ExecutionLock guard removes run.lock on every
\* return, with or without an error, and never when the process is killed.
EndRun(p, result) ==
    /\ Goto(p, "idle")
    /\ after' = [after EXCEPT ![p] = "idle"]
    /\ rec' = [rec EXCEPT ![p] = Absent]
    /\ target' = [target EXCEPT ![p] = Absent]
    /\ command' = [command EXCEPT ![p] = "none"]
    /\ outcome' = result
    /\ runLock' = IF command[p] = "publish" /\ result # "killed"
                  THEN FALSE ELSE runLock

Stay == UNCHANGED <<runLock, command, outcome, faults>>

\* A call of update_journal: the three steps below, then the label `next`.
UpdateJournal(p, r, next) ==
    /\ rec' = [rec EXCEPT ![p] = r]
    /\ after' = [after EXCEPT ![p] = next]
    /\ Goto(p, "archive")
    /\ UNCHANGED target

-----------------------------------------------------------------------------
(* Starting and ending a command.                                          *)

OthersIdle(p) == \A q \in Proc \ {p} : pc[q] = "idle"

\* The discipline RecoverAlone asks of whoever types the commands.
MayStart(p, cmd) ==
    RecoverAlone =>
        /\ cmd = "recover" => OthersIdle(p)
        /\ \A q \in Proc : command[q] # "recover"

\* ExecutionLock::acquire, when run.lock can be created.
AcquireLock(p) ==
    /\ pc[p] = "idle"
    /\ MayStart(p, "publish")
    /\ ~runLock
    /\ runLock' = TRUE
    /\ command' = [command EXCEPT ![p] = "publish"]
    /\ outcome' = "none"
    /\ Goto(p, "recover")
    /\ UNCHANGED <<journalFiles, active, directories, memory, faults>>

\* Mutant of RefuseBusy: the guard is built, and dropped, before the file is
\* found to exist.
RefuseBusyUnlocking(p) ==
    /\ pc[p] = "idle"
    /\ MayStart(p, "publish")
    /\ runLock
    /\ runLock' = FALSE
    /\ outcome' = "busy"
    /\ UNCHANGED <<journalFiles, active, directories, memory, pc, command,
                   faults>>

\* ExecutionLock::acquire, when it is there: "another publisher execution
\* is active".
RefuseBusy(p) ==
    /\ pc[p] = "idle"
    /\ MayStart(p, "publish")
    /\ runLock
    /\ outcome' = "busy"
    /\ UNCHANGED <<journalFiles, active, directories, memory, runLock, pc,
                   command, faults>>

\* The `recover` command: it neither looks at run.lock nor creates it.
StartRecover(p) ==
    /\ pc[p] = "idle"
    /\ MayStart(p, "recover")
    /\ command' = [command EXCEPT ![p] = "recover"]
    /\ outcome' = "none"
    /\ Goto(p, "recover")
    /\ UNCHANGED <<journalFiles, active, directories, memory, runLock, faults>>

\* recover_publication returns: `recover` is done, `publish` goes on.
EndRecovery(p) ==
    /\ pc[p] = "recovered"
    /\ \/ /\ command[p] = "publish"
          /\ Goto(p, "scan")
          /\ UNCHANGED memory
          /\ Stay
       \/ /\ command[p] = "recover"
          /\ EndRun(p, "done")
          /\ UNCHANGED faults
    /\ UNCHANGED <<journalFiles, active, directories>>

-----------------------------------------------------------------------------
(* recover_publication.                                                    *)

RecoverFresh(p) ==
    /\ pc[p] = "recover"
    /\ NothingToRecover
    /\ Goto(p, "recovered")
    /\ UNCHANGED <<journalFiles, active, directories, memory>>
    /\ Stay

\* The record is returned as it was found, wherever it was found.
RecoverSettled(p, r) ==
    /\ Settled(r)
    /\ rec' = [rec EXCEPT ![p] = r]
    /\ Goto(p, "recovered")
    /\ UNCHANGED <<after, target>>

RecoverInitial(p, r) ==
    /\ CanComplete(r)
    /\ rec' = [rec EXCEPT ![p] = r]
    /\ Goto(p, "completeState")
    /\ UNCHANGED <<after, target>>

\* Mutant of RecoverPromote: it returns before the journal is committed.
PromoteWithoutCommit(p, r) ==
    /\ CanPromote(r)
    /\ rec' = [rec EXCEPT ![p] = r]
    /\ Goto(p, "recovered")
    /\ UNCHANGED <<after, target>>

\* Both files are new: go on to the journal entries that are missing.
RecoverPromote(p, r) ==
    /\ CanPromote(r)
    /\ IF r.phase = "StateInstalled"
       THEN /\ rec' = [rec EXCEPT ![p] = r]
            /\ Goto(p, "commitRecovered")
            /\ UNCHANGED <<after, target>>
       ELSE UpdateJournal(p, WithPhase(r, "StateInstalled"), "commitRecovered")

\* rollback_record with a previous generation, up to the restoration.
RecoverRestore(p, r) ==
    /\ CanRestore(r)
    /\ rec' = [rec EXCEPT ![p] = r]
    /\ Goto(p, "restoreGallery")
    /\ UNCHANGED <<after, target>>

\* rollback_record of a first publication that installed nothing.
RecoverAbandon(p, r) ==
    /\ CanAbandon(r)
    /\ UpdateJournal(p, WithPhase(r, "RolledBack"), "recovered")

RecoverRecord(p) ==
    /\ pc[p] = "recover"
    /\ \E r \in Latest(Evidence) :
          /\ Trusted(r)
          /\ \/ RecoverSettled(p, r)
             \/ RecoverInitial(p, r)
             \/ RecoverPromote(p, r)
             \/ RecoverRestore(p, r)
             \/ RecoverAbandon(p, r)
    /\ UNCHANGED <<journalFiles, active, directories>>
    /\ Stay

\* The missing state of a first publication is installed from staging.
CompleteState(p) ==
    /\ pc[p] = "completeState"
    /\ staging[rec[p].gen] # Absent
    /\ active' = [active EXCEPT !.state = staging[rec[p].gen].state]
    /\ UpdateJournal(p, WithPhase(rec[p], "StateInstalled"), "commitRecovered")
    /\ UNCHANGED <<journalFiles, directories>>
    /\ Stay

CommitRecovered(p) ==
    /\ pc[p] = "commitRecovered"
    /\ UpdateJournal(p, WithPhase(rec[p], "Committed"), "recovered")
    /\ UNCHANGED <<journalFiles, active, directories>>
    /\ Stay

\* Mutant of RestoreGallery: only the state is restored.
RestoreNoGallery(p) ==
    /\ pc[p] = "restoreGallery"
    /\ Goto(p, "restoreState")
    /\ UNCHANGED <<journalFiles, active, directories, memory>>
    /\ Stay

\* restore_backup, first file.
RestoreGallery(p) ==
    /\ pc[p] = "restoreGallery"
    /\ active' = [active EXCEPT !.gallery = backups[rec[p].prev].gallery]
    /\ Goto(p, "restoreState")
    /\ UNCHANGED <<journalFiles, directories, memory>>
    /\ Stay

\* restore_backup, second file, and the rest of rollback_record.
RestoreState(p) ==
    /\ pc[p] = "restoreState"
    /\ active' = [active EXCEPT !.state = backups[rec[p].prev].state]
    /\ UpdateJournal(p, WithPhase(rec[p], "RolledBack"), "recovered")
    /\ UNCHANGED <<journalFiles, directories>>
    /\ Stay

-----------------------------------------------------------------------------
(* update_journal.                                                         *)

\* The journal has a record whose sequence names no history file yet.
MustArchive ==
    /\ journal \notin {Absent, Torn}
    /\ journal.seq \notin torn
    /\ \A r \in history : r.seq # journal.seq

Archive(p) ==
    /\ pc[p] = "archive"
    /\ history' = IF MustArchive THEN history \cup {journal} ELSE history
    /\ Goto(p, "writeCandidate")
    /\ UNCHANGED <<journal, candidate, torn, active, directories, memory>>
    /\ Stay

\* A candidate left behind is used when it is this very record.
WriteCandidate(p) ==
    /\ pc[p] = "writeCandidate"
    /\ candidate \in {Absent, rec[p]}
    /\ candidate' = rec[p]
    /\ Goto(p, "replaceJournal")
    /\ UNCHANGED <<journal, history, torn, active, directories, memory>>
    /\ Stay

\* replace_file_preserving_old renames whatever the candidate file holds now.
ReplaceJournal(p) ==
    /\ pc[p] = "replaceJournal"
    /\ candidate # Absent
    /\ journal' = candidate
    /\ candidate' = Absent
    /\ Goto(p, after[p])
    /\ UNCHANGED <<history, torn, active, directories, memory>>
    /\ Stay

-----------------------------------------------------------------------------
(* build_local_gallery, after recovery.                                    *)

StagingOf(p) == NextGeneration(rec[p])

StagedFiles(p) ==
    IF staging[StagingOf(p)] = Absent THEN EmptyDirectory
    ELSE staging[StagingOf(p)]

\* The sync plan is empty when the active state lists the photos found.
NothingToBuild(found) == active.gallery # Absent /\ active.state = found

Scan(p) ==
    /\ pc[p] = "scan"
    /\ \E found \in Content :
          \/ /\ NothingToBuild(found)
             /\ EndRun(p, "done")
             /\ UNCHANGED faults
          \/ /\ ~NothingToBuild(found)
             /\ target' = [target EXCEPT ![p] = found]
             /\ Goto(p, "stageGallery")
             /\ UNCHANGED <<after, rec>>
             /\ Stay
    /\ UNCHANGED <<journalFiles, active, directories>>

StageFile(p, dir, next) ==
    /\ staging' = [staging EXCEPT ![StagingOf(p)] = dir]
    /\ Goto(p, next)
    /\ UNCHANGED <<journalFiles, active, backups, memory>>
    /\ Stay

StageGallery(p) ==
    /\ pc[p] = "stageGallery"
    /\ StageFile(p, [StagedFiles(p) EXCEPT !.gallery = target[p]], "stageState")

StageState(p) ==
    /\ pc[p] = "stageState"
    /\ StageFile(p, [StagedFiles(p) EXCEPT !.state = target[p]], "stageRecord")

StageRecord(p) ==
    /\ pc[p] = "stageRecord"
    /\ LET dir == StagedFiles(p)
       IN  StageFile(p, [dir EXCEPT !.record = [gallery |-> dir.gallery,
                                                state |-> dir.state]],
                     "prepare")

PreparedRecord(p) ==
    [seq |-> NextSequence(rec[p]), gen |-> NextGeneration(rec[p]),
     prev |-> ValidGeneration(rec[p]), phase |-> "Prepared",
     gallery |-> StagedFiles(p).gallery, state |-> StagedFiles(p).state,
     prevGallery |-> active.gallery, prevState |-> active.state]

\* Mutant of Prepare: the previous pair is replaced before it is copied.
PrepareWithoutBackup(p) ==
    /\ pc[p] = "prepare"
    /\ Validates(PreparedRecord(p))
    /\ UpdateJournal(p, PreparedRecord(p), "installGallery")
    /\ UNCHANGED <<journalFiles, active, directories>>
    /\ Stay

Prepare(p) ==
    /\ pc[p] = "prepare"
    /\ LET r == PreparedRecord(p)
       IN  /\ Validates(r)
           /\ UpdateJournal(p, r, IF r.prev = NoGeneration
                                  THEN "installGallery" ELSE "backup")
    /\ UNCHANGED <<journalFiles, active, directories>>
    /\ Stay

\* create_and_verify_backup: a directory that exists is verified, never
\* rewritten.
UseBackup(p) ==
    /\ pc[p] = "backup"
    /\ Verified(backups[rec[p].prev])
    /\ UpdateJournal(p, WithPhase(rec[p], "BackupCreated"), "installGallery")
    /\ UNCHANGED <<journalFiles, active, directories>>
    /\ Stay

BackupFile(p, dir, next) ==
    /\ backups' = [backups EXCEPT ![rec[p].prev] = dir]
    /\ Goto(p, next)
    /\ UNCHANGED <<journalFiles, active, staging, memory>>
    /\ Stay

CreateBackup(p) ==
    /\ pc[p] = "backup"
    /\ backups[rec[p].prev] = Absent
    /\ BackupFile(p, EmptyDirectory, "backupGallery")

\* A copy cut short leaves a directory without record.json, as any other
\* interruption before BackupRecord does.
BackupGallery(p) ==
    /\ pc[p] = "backupGallery"
    /\ active.gallery # Absent /\ active.state # Absent
    /\ BackupFile(p, [backups[rec[p].prev] EXCEPT !.gallery = active.gallery],
                  "backupState")

BackupState(p) ==
    /\ pc[p] = "backupState"
    /\ BackupFile(p, [backups[rec[p].prev] EXCEPT !.state = active.state],
                  "backupRecord")

\* The record takes its digests from the active files, and the directory is
\* then verified against it.
BackupRecord(p) ==
    /\ pc[p] = "backupRecord"
    /\ BackupFile(p, [backups[rec[p].prev] EXCEPT !.record = active], "backup")

\* publish_staged
InstallGallery(p) ==
    /\ pc[p] = "installGallery"
    /\ staging[rec[p].gen] # Absent
    /\ active' = [active EXCEPT !.gallery = staging[rec[p].gen].gallery]
    /\ UpdateJournal(p, WithPhase(rec[p], "GalleryInstalled"), "installState")
    /\ UNCHANGED <<journalFiles, directories>>
    /\ Stay

\* Mutant of InstallState: staging is cleaned up once both files are active.
InstallStateAndCleanUp(p) ==
    /\ pc[p] = "installState"
    /\ staging[rec[p].gen] # Absent
    /\ active' = [active EXCEPT !.state = staging[rec[p].gen].state]
    /\ staging' = [staging EXCEPT ![rec[p].gen] = Absent]
    /\ UpdateJournal(p, WithPhase(rec[p], "StateInstalled"), "commit")
    /\ UNCHANGED <<journalFiles, backups>>
    /\ Stay

InstallState(p) ==
    /\ pc[p] = "installState"
    /\ staging[rec[p].gen] # Absent
    /\ active' = [active EXCEPT !.state = staging[rec[p].gen].state]
    /\ UpdateJournal(p, WithPhase(rec[p], "StateInstalled"), "commit")
    /\ UNCHANGED <<journalFiles, directories>>
    /\ Stay

Commit(p) ==
    /\ pc[p] = "commit"
    /\ HoldsNew(rec[p])
    /\ UpdateJournal(p, WithPhase(rec[p], "Committed"), "cleanup")
    /\ UNCHANGED <<journalFiles, active, directories>>
    /\ Stay

\* cleanup_staging, and the return that drops the lock.
Cleanup(p) ==
    /\ pc[p] = "cleanup"
    /\ staging' = [staging EXCEPT ![rec[p].gen] = Absent]
    /\ EndRun(p, "done")
    /\ UNCHANGED <<journalFiles, active, backups, faults>>

-----------------------------------------------------------------------------
(* The errors the code raises itself, and interruptions from outside.      *)

Blocked(p) ==
    CASE pc[p] = "recover" -> ~CanRecover
      [] pc[p] = "writeCandidate" -> candidate \notin {Absent, rec[p]}
      [] pc[p] = "replaceJournal" -> candidate = Absent
      [] pc[p] = "prepare" -> ~Validates(PreparedRecord(p))
      [] pc[p] = "backup" ->
            /\ backups[rec[p].prev] # Absent
            /\ ~Verified(backups[rec[p].prev])
      [] pc[p] = "backupGallery" -> Absent \in {active.gallery, active.state}
      [] pc[p] \in {"completeState", "installGallery", "installState"} ->
            staging[rec[p].gen] = Absent
      [] pc[p] = "commit" -> ~HoldsNew(rec[p])
      [] OTHER -> FALSE

Refuse(p) ==
    /\ Blocked(p)
    /\ EndRun(p, "refused")
    /\ UNCHANGED <<journalFiles, active, directories, faults>>

\* The points of a first publication at which only one of its files, or
\* neither installation, is in the journal have names of their own.
FaultPointOf(p) ==
    IF pc[p] = "installState" /\ rec[p].prev = NoGeneration
    THEN "installFirstState"
    ELSE IF /\ pc[p] \in {"archive", "writeCandidate"}
            /\ rec[p].phase = "StateInstalled"
            /\ journal.phase = "Prepared"
    THEN "journalFirstState"
    ELSE pc[p]

FaultAt(p, point) ==
    /\ pc[p] # "idle"
    /\ point \in FaultPoints
    /\ faults < MaxFaults
    /\ faults' = faults + 1
    /\ \E result \in {"error", "killed"} : EndRun(p, result)
    /\ UNCHANGED <<journal, active, directories>>

\* An I/O error or a kill before the step at pc[p].
Interrupt(p) ==
    /\ FaultAt(p, FaultPointOf(p))
    /\ UNCHANGED <<candidate, history, torn>>

\* The copy of the journal into its history is not atomic.
TearArchive(p) ==
    /\ pc[p] = "archive"
    /\ MustArchive
    /\ FaultAt(p, "tearArchive")
    /\ torn' = torn \cup {journal.seq}
    /\ UNCHANGED <<candidate, history>>

\* Neither is the write of journal.json.new.
TearCandidate(p) ==
    /\ pc[p] = "writeCandidate"
    /\ candidate = Absent
    /\ FaultAt(p, "tearCandidate")
    /\ candidate' = Torn
    /\ UNCHANGED <<history, torn>>

-----------------------------------------------------------------------------

Recovering(p) ==
    \/ RecoverFresh(p) \/ RecoverRecord(p) \/ CompleteState(p)
    \/ RestoreGallery(p) \/ RestoreState(p) \/ CommitRecovered(p)
    \/ EndRecovery(p)

UpdatingJournal(p) == Archive(p) \/ WriteCandidate(p) \/ ReplaceJournal(p)

Publishing(p) ==
    \/ Scan(p) \/ StageGallery(p) \/ StageState(p) \/ StageRecord(p)
    \/ Prepare(p)
    \/ UseBackup(p) \/ CreateBackup(p) \/ BackupGallery(p) \/ BackupState(p)
    \/ BackupRecord(p)
    \/ InstallGallery(p) \/ InstallState(p) \/ Commit(p) \/ Cleanup(p)

\* What a process does by itself once it runs.
Step(p) == Recovering(p) \/ UpdatingJournal(p) \/ Publishing(p) \/ Refuse(p)

Fault(p) == Interrupt(p) \/ TearArchive(p) \/ TearCandidate(p)

AllFaultPoints ==
    (Labels \ {"idle"})
        \cup {"installFirstState", "journalFirstState",
              "tearArchive", "tearCandidate"}

\* The points after which nothing but a rerun is needed: those the code names
\* in FaultPoint, but for the first publication's, and every step before and
\* between them that leaves neither a candidate journal nor half a backup.
RecoverablePoints ==
    AllFaultPoints \
        {"backup", "backupGallery", "backupState", "backupRecord",
         "installFirstState", "journalFirstState", "replaceJournal",
         "tearArchive", "tearCandidate"}

Next ==
    \E p \in Proc :
        AcquireLock(p) \/ RefuseBusy(p) \/ StartRecover(p) \/ Step(p) \/ Fault(p)

Spec == Init /\ [][Next]_vars

\* The operating system goes on scheduling a process that runs.
FairSpec == Spec /\ \A p \in Proc : WF_vars(Step(p))

-----------------------------------------------------------------------------
(* Properties.                                                             *)

HasJournal == journal \notin {Absent, Torn}
InFlight == HasJournal /\ journal.phase \in InFlightPhases
AllIdle == \A p \in Proc : pc[p] = "idle"

\* ExecutionLock: run.lock lets one process at a time past acquire, whatever
\* was interrupted before, and it is there as long as that process runs.
PublishersExclude ==
    \A p \in Proc :
        command[p] = "publish" =>
            /\ runLock
            /\ \A q \in Proc \ {p} : command[q] # "publish"

\* What a process holds in memory where it reads it, and which command it
\* runs: the inductive companion of TypeOK and PublishersExclude.
AfterRecovery == {"recovered", "commitRecovered"}
AfterPublish == {"backup", "installGallery", "installState", "commit", "cleanup"}
StagingLabels == {"stageGallery", "stageState", "stageRecord", "prepare"}
WithBackupDirectory ==
    {"restoreGallery", "restoreState", "backupGallery", "backupState",
     "backupRecord"}
WithRecord ==
    {"completeState", "commitRecovered"} \cup JournalLabels \cup AfterPublish
        \cup WithBackupDirectory

ControlOf(p) ==
    /\ pc[p] \in PublishLabels => command[p] = "publish"
    /\ pc[p] \in WithRecord => rec[p] # Absent
    /\ pc[p] = "backup" => rec[p].prev # NoGeneration
    /\ pc[p] \in WithBackupDirectory =>
          rec[p].prev # NoGeneration /\ backups[rec[p].prev] # Absent
    /\ pc[p] \in JournalLabels =>
          /\ after[p] \in AfterRecovery \cup AfterPublish
          /\ after[p] \in AfterPublish => command[p] = "publish"
          /\ after[p] = "backup" => rec[p].prev # NoGeneration
    /\ pc[p] \in StagingLabels =>
          target[p] \in Content /\ StagingOf(p) \in StagingNames
    /\ pc[p] \in {"stageState", "stageRecord", "prepare"} =>
          /\ staging[StagingOf(p)] # Absent
          /\ staging[StagingOf(p)].gallery = target[p]
    /\ pc[p] \in {"stageRecord", "prepare"} =>
          staging[StagingOf(p)].state = target[p]

ControlOK == \A p \in Proc : ControlOf(p)

\* What LocalPublication::from_output and `inspect` rely on: a journal that
\* says COMMITTED or ROLLED_BACK names exactly the pair of files that is
\* active, at every instant and after every interruption.  No reader that
\* goes by the journal sees a gallery.json of one photo set beside the
\* state.json of another.
SettledJournalMatchesActive ==
    HasJournal =>
        /\ journal.phase = "Committed" => HoldsNew(journal)
        /\ journal.phase = "RolledBack" => HoldsPrevious(journal)

\* Until the journal commits, the pair it replaces is still there: it is
\* active, or create_and_verify_backup made a verified copy of it.
PreviousPairSurvives ==
    InFlight /\ journal.prev # NoGeneration =>
        HoldsPrevious(journal) \/ BackupIsValid(journal)

\* Recovery is never faced with two different records of one sequence
\* ("ambiguous journalSequence"), although an interrupted update leaves the
\* same record in up to three files.
EvidenceIsUnambiguous == ~Ambiguous(Evidence)

\* A generation number, once journaled, stands for one pair of files: the
\* coordinator identifies a publication by it.  A number is only reused by a
\* build that was interrupted before it was journaled.
GenerationNamesOnePair ==
    \A a, b \in Evidence :
        a.gen = b.gen => a.gallery = b.gallery /\ a.state = b.state

\* What recovery decides from is never ambiguous: one record for a sequence,
\* one pair for a generation.
EvidenceIsSound == EvidenceIsUnambiguous /\ GenerationNamesOnePair

\* The order of the entries of one generation, and what may follow it.
FollowsInGeneration(r, s) ==
    /\ s = [r EXCEPT !.seq = r.seq + 1, !.phase = s.phase]
    /\ CASE s.phase = "BackupCreated" ->
                r.phase = "Prepared" /\ r.prev # NoGeneration
         [] s.phase = "GalleryInstalled" ->
                r.phase = IF r.prev = NoGeneration THEN "Prepared"
                          ELSE "BackupCreated"
         [] s.phase = "StateInstalled" ->
                \/ r.phase \in {"BackupCreated", "GalleryInstalled"}
                \/ r.phase = "Prepared" /\ r.prev = NoGeneration
         [] s.phase = "Committed" -> r.phase = "StateInstalled"
         [] s.phase = "RolledBack" -> r.phase \in InFlightPhases
         [] OTHER -> FALSE

StartsGeneration(r, s) ==
    /\ r.phase \in {"Committed", "RolledBack"}
    /\ s.phase = "Prepared"
    /\ s.seq = r.seq + 1
    /\ s.gen = r.gen + 1
    /\ r.phase = "Committed" =>
          /\ s.prev = r.gen
          /\ s.prevGallery = r.gallery /\ s.prevState = r.state
    /\ r.phase = "RolledBack" =>
          /\ s.prev = r.prev
          /\ s.prevGallery = r.prevGallery /\ s.prevState = r.prevState

\* journal.json advances one sequence number at a time along the phases, a
\* generation is only followed once it is committed or rolled back, and the
\* next one names as previous the pair the last one settled on: no entry is
\* skipped, repeated or taken back, across processes and interruptions.
JournalSucceeds ==
    [][journal' # journal =>
          IF journal = Absent
          THEN journal'.seq = 1 /\ journal'.prev = NoGeneration
          ELSE \/ FollowsInGeneration(journal, journal')
               \/ StartsGeneration(journal, journal')]_journal

\* The output directory implements AtomicGallery: the photo set the journal
\* stands by is replaced as a whole or not at all, and the active files are
\* never anything but the old and the new ones.
Gallery ==
    INSTANCE AtomicGallery WITH
        shown <- IF ~HasJournal THEN Absent
                 ELSE IF journal.phase = "Committed" THEN journal.gallery
                 ELSE journal.prevGallery,
        next <- IF InFlight THEN journal.gallery ELSE Absent,
        files <- active

ReplacedAsAWhole == Gallery!ASpec

\* Whenever nothing runs, the next recovery will decide on a record and will
\* find no candidate of another record in its way.
StoppedIsRecoverable == AllIdle => CanRecover /\ candidate = Absent

\* A journal left in flight is settled in the end, if somebody goes on
\* running `recover`.
InFlightSettles == InFlight ~> ~InFlight

\* replace_file_preserving_old: "recovery protects process crashes": no
\* command gives up because of what an earlier interruption left behind.
\* (Six digits being used up is the one other reason to refuse.)
OnlyTheLimitRefuses ==
    outcome = "refused" => HasJournal /\ journal.gen = MaxGeneration

\* "another publisher execution is active" is said of one that is.
BusyMeansActive ==
    [][outcome' = "busy" => \E p \in Proc : pc[p] # "idle"]_outcome

\* Settling presumes that `recover` is run again after an interruption.
RecoveringSpec == FairSpec /\ \A p \in Proc : WF_vars(StartRecover(p))

=============================================================================
