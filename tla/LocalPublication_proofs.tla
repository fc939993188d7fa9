----------------------- MODULE LocalPublication_proofs -----------------------
(***************************************************************************)
(* Theorems about LocalPublication for every set of processes, every set   *)
(* of photo sets, every bound and every choice of fault points; and, in    *)
(* the last part, about the assets that GalleryBuild makes for it.         *)
(***************************************************************************)
EXTENDS LocalPublication, GalleryBuild, TLAPS

IndInv == TypeOK /\ ControlOK /\ PublishersExclude

LEMMA InitInv == Init => IndInv
<1> SUFFICES ASSUME Init PROVE IndInv
  OBVIOUS
<1> USE DEF Init
<1>1. TypeOK
  <2>1. active \in Pair /\ faults \in 0 .. MaxFaults
    BY FaultAssumption DEF Pair, NoPair, File
  <2>2. /\ staging \in [StagingNames -> Directory \cup {Absent}]
        /\ backups \in [Generations -> Directory \cup {Absent}]
    OBVIOUS
  <2>3. /\ pc \in [Proc -> Labels] /\ after \in [Proc -> Labels]
        /\ command \in [Proc -> Commands] /\ target \in [Proc -> File]
        /\ rec \in [Proc -> JournalRecord \cup {Absent}]
    BY DEF Labels, Commands, File
  <2>4. QED
    BY <2>1, <2>2, <2>3 DEF TypeOK, Outcomes
<1>2. ControlOK
  BY DEF ControlOK, ControlOf, PublishLabels, JournalLabels, WithRecord,
         AfterPublish, WithBackupDirectory, StagingLabels
<1>3. PublishersExclude
  BY DEF PublishersExclude
<1>4. QED
  BY <1>1, <1>2, <1>3 DEF IndInv

-----------------------------------------------------------------------------
(* What the steps have in common.                                          *)

LEMMA WithPhaseType ==
  ASSUME NEW r \in JournalRecord, NEW phase \in Phases
  PROVE  /\ WithPhase(r, phase) \in JournalRecord
         /\ WithPhase(r, phase).prev = r.prev
         /\ WithPhase(r, phase).gen = r.gen
<1>1. ASSUME NEW n \in Nat
      PROVE  [r EXCEPT !.seq = n, !.phase = phase] \in JournalRecord
  BY DEF JournalRecord
<1>2. r.seq + 1 \in Nat
  BY DEF JournalRecord
<1>3. [r EXCEPT !.seq = r.seq + 1, !.phase = phase] \in JournalRecord
  BY <1>1, <1>2
<1>4. WithPhase(r, phase) = [r EXCEPT !.seq = r.seq + 1, !.phase = phase]
  BY DEF WithPhase
<1>5. QED
  BY <1>3, <1>4 DEF JournalRecord

LEMMA EvidenceType == TypeOK => Evidence \subseteq JournalRecord
BY DEF TypeOK, Evidence

LEMMA StagingNumbers ==
  /\ Generations \subseteq StagingNames
  /\ \A r \in JournalRecord \cup {Absent} : NextGeneration(r) \in StagingNames
<1>1. MaxGeneration \in Nat \ {0}
  BY GenerationAssumption
<1>2. Generations \subseteq StagingNames
  BY <1>1 DEF Generations, StagingNames
<1>3. ASSUME NEW r \in JournalRecord \cup {Absent}
      PROVE  NextGeneration(r) \in StagingNames
  <2>1. CASE r = Absent
    BY <1>1, <2>1 DEF NextGeneration, StagingNames
  <2>2. CASE r # Absent
    <3>1. r.gen \in 1 .. MaxGeneration
      BY <2>2 DEF JournalRecord, Generations
    <3>2. QED
      BY <1>1, <2>2, <3>1 DEF NextGeneration, StagingNames
  <2>3. QED
    BY <2>1, <2>2
<1>4. QED
  BY <1>2, <1>3

\* A process that reads its record at pc has one.
LEMMA RecordHeld ==
  ASSUME IndInv, NEW p \in Proc, pc[p] \in WithRecord
  PROVE  rec[p] \in JournalRecord
BY DEF IndInv, TypeOK, ControlOK, ControlOf

\* A run that ends leaves every other process as it was.
LEMMA EndRunInv ==
  ASSUME IndInv, NEW p \in Proc, NEW result \in Outcomes, EndRun(p, result),
         UNCHANGED <<journal, active, backups>>,
         candidate' \in {candidate, Torn}, history' = history,
         torn' \in SUBSET Nat, faults' \in 0 .. MaxFaults,
         staging' \in [StagingNames -> Directory \cup {Absent}],
         command[p] = "publish" \/ staging' = staging
  PROVE  IndInv'
<1> USE DEF IndInv, EndRun, Goto
<1>1. TypeOK'
  BY DEF TypeOK, Labels, Commands, File
<1>2. ASSUME NEW q \in Proc PROVE ControlOf(q)'
  <2>1. CASE q = p
    BY <2>1 DEF TypeOK, ControlOf, PublishLabels, JournalLabels, WithRecord,
                AfterPublish, WithBackupDirectory, StagingLabels
  <2>2. CASE q # p
    <3>1. /\ ControlOf(q)
          /\ pc'[q] = pc[q] /\ after'[q] = after[q] /\ rec'[q] = rec[q]
          /\ command'[q] = command[q] /\ target'[q] = target[q]
      BY <2>2 DEF TypeOK, ControlOK
    <3>2. pc[q] \in PublishLabels => staging' = staging
      BY <2>2, <3>1 DEF PublishersExclude, ControlOf
    <3>3. QED
      BY <3>1, <3>2 DEF ControlOf, StagingLabels, PublishLabels, StagingOf
  <2>3. QED
    BY <2>1, <2>2
<1>3. PublishersExclude'
  BY DEF TypeOK, PublishersExclude
<1>4. QED
  BY <1>1, <1>2, <1>3 DEF ControlOK

LEMMA UpdateJournalInv ==
  ASSUME IndInv, NEW p \in Proc, NEW r \in JournalRecord,
         NEW next \in AfterRecovery \cup AfterPublish,
         next \in AfterPublish => command[p] = "publish",
         next = "backup" => r.prev # NoGeneration,
         UpdateJournal(p, r, next), active' \in Pair,
         UNCHANGED <<journalFiles, directories>>, Stay
  PROVE  IndInv'
<1> USE DEF IndInv, UpdateJournal, Goto, Stay, journalFiles, directories
<1>1. TypeOK'
  BY DEF TypeOK, Labels, JournalLabels, RecoveryLabels, PublishLabels,
         AfterRecovery, AfterPublish
<1>2. ASSUME NEW q \in Proc PROVE ControlOf(q)'
  <2>1. CASE q = p
    BY <2>1, AbsentRecordAssumption
    DEF TypeOK, ControlOf, PublishLabels, JournalLabels, WithRecord,
        AfterPublish, WithBackupDirectory, StagingLabels
  <2>2. CASE q # p
    BY <2>2 DEF TypeOK, ControlOK, ControlOf, StagingOf
  <2>3. QED
    BY <2>1, <2>2
<1>3. PublishersExclude'
  BY DEF PublishersExclude
<1>4. QED
  BY <1>1, <1>2, <1>3 DEF ControlOK

\* Moves of the program counter that change nothing else but the record
\* the process holds.
LEMMA GotoInv ==
  ASSUME IndInv, NEW p \in Proc, NEW label \in Labels, Goto(p, label),
         NEW r \in JournalRecord \cup {Absent}, rec' = [rec EXCEPT ![p] = r],
         label \notin JournalLabels, label # "backup",
         label \notin StagingLabels,
         label \in WithRecord => r # Absent,
         label \in WithBackupDirectory =>
            r.prev # NoGeneration /\ backups[r.prev] # Absent,
         label \in PublishLabels => command[p] = "publish",
         active' \in Pair, UNCHANGED <<journalFiles, directories>>,
         UNCHANGED <<after, target>>, Stay
  PROVE  IndInv'
<1> USE DEF IndInv, Goto, Stay, journalFiles, directories
<1>1. TypeOK'
  BY DEF TypeOK
<1>2. ASSUME NEW q \in Proc PROVE ControlOf(q)'
  <2>1. CASE q = p
    <3>1. pc'[q] = label /\ rec'[q] = r /\ command'[q] = command[q]
      BY <2>1 DEF TypeOK
    <3>2. QED
      BY <3>1, <2>1 DEF ControlOf, StagingLabels, PublishLabels
  <2>2. CASE q # p
    BY <2>2 DEF TypeOK, ControlOK, ControlOf, StagingOf
  <2>3. QED
    BY <2>1, <2>2
<1>3. PublishersExclude'
  BY DEF PublishersExclude
<1>4. QED
  BY <1>1, <1>2, <1>3 DEF ControlOK

\* The moves of recovery, and the one to Scan.
LEMMA RecoveryGotoInv ==
  ASSUME IndInv, NEW p \in Proc,
         NEW label \in {"recovered", "completeState", "commitRecovered",
                        "restoreGallery", "restoreState", "scan"},
         Goto(p, label),
         NEW r \in JournalRecord \cup {Absent}, rec' = [rec EXCEPT ![p] = r],
         label \notin {"recovered", "scan"} => r # Absent,
         label \in {"restoreGallery", "restoreState"} =>
            r.prev # NoGeneration /\ backups[r.prev] # Absent,
         label = "scan" => command[p] = "publish",
         active' \in Pair, UNCHANGED <<journalFiles, directories>>,
         UNCHANGED <<after, target>>, Stay
  PROVE  IndInv'
<1>1. /\ label \in Labels
      /\ label \notin JournalLabels /\ label # "backup"
      /\ label \notin StagingLabels
      /\ label \in WithBackupDirectory => label \in {"restoreGallery", "restoreState"}
      /\ label \in PublishLabels => label = "scan"
      /\ label \in WithRecord => label \notin {"recovered", "scan"}
  BY DEF Labels, RecoveryLabels, PublishLabels, JournalLabels, StagingLabels,
         WithRecord, WithBackupDirectory, AfterPublish
<1>2. QED
  BY <1>1, GotoInv

-----------------------------------------------------------------------------
(* Starting and ending a command.                                          *)

LEMMA AcquireLockInv ==
  ASSUME IndInv, NEW p \in Proc, AcquireLock(p) PROVE IndInv'
<1> USE DEF IndInv, AcquireLock, Goto, directories, memory, journalFiles
<1>1. TypeOK'
  BY DEF TypeOK, Labels, RecoveryLabels, Commands, Outcomes
<1>2. ControlOK'
  BY DEF TypeOK, ControlOK, ControlOf, PublishLabels, JournalLabels, WithRecord,
         AfterPublish, WithBackupDirectory, StagingLabels, StagingOf
<1>3. PublishersExclude'
  BY DEF TypeOK, PublishersExclude
<1>4. QED
  BY <1>1, <1>2, <1>3

LEMMA RefuseBusyInv ==
  ASSUME IndInv, NEW p \in Proc, RefuseBusy(p) PROVE IndInv'
<1> USE DEF IndInv, RefuseBusy, directories, memory, journalFiles
<1>1. TypeOK'
  BY DEF TypeOK, Outcomes
<1>2. ControlOK'
  BY DEF ControlOK, ControlOf, StagingOf
<1>3. PublishersExclude'
  BY DEF PublishersExclude
<1>4. QED
  BY <1>1, <1>2, <1>3

LEMMA StartRecoverInv ==
  ASSUME IndInv, NEW p \in Proc, StartRecover(p) PROVE IndInv'
<1> USE DEF IndInv, StartRecover, Goto, directories, memory, journalFiles
<1>1. TypeOK'
  BY DEF TypeOK, Labels, RecoveryLabels, Commands, Outcomes
<1>2. ASSUME NEW q \in Proc PROVE ControlOf(q)'
  <2>1. CASE q = p
    BY <2>1 DEF TypeOK, ControlOf, PublishLabels, JournalLabels, WithRecord,
                AfterPublish, WithBackupDirectory, StagingLabels
  <2>2. CASE q # p
    BY <2>2 DEF TypeOK, ControlOK, ControlOf, StagingOf
  <2>3. QED
    BY <2>1, <2>2
<1>3. PublishersExclude'
  BY DEF TypeOK, PublishersExclude
<1>4. QED
  BY <1>1, <1>2, <1>3 DEF ControlOK

LEMMA EndRecoveryInv ==
  ASSUME IndInv, NEW p \in Proc, EndRecovery(p) PROVE IndInv'
<1> USE DEF EndRecovery, directories, memory, journalFiles
<1>1. CASE command[p] = "publish" /\ Goto(p, "scan") /\ UNCHANGED memory /\ Stay
  <2>1. rec[p] \in JournalRecord \cup {Absent} /\ rec' = [rec EXCEPT ![p] = rec[p]]
    BY <1>1 DEF IndInv, TypeOK
  <2>2. active' \in Pair
    BY DEF IndInv, TypeOK
  <2>3. QED
    BY <1>1, <2>1, <2>2, RecoveryGotoInv
<1>2. CASE EndRun(p, "done") /\ UNCHANGED faults
  BY <1>2, EndRunInv DEF IndInv, TypeOK, Outcomes
<1>3. QED
  BY <1>1, <1>2

-----------------------------------------------------------------------------
(* recover_publication.                                                    *)

LEMMA RecoverFreshInv ==
  ASSUME IndInv, NEW p \in Proc, RecoverFresh(p) PROVE IndInv'
<1>1. rec[p] \in JournalRecord \cup {Absent} /\ rec' = [rec EXCEPT ![p] = rec[p]]
  BY DEF IndInv, TypeOK, RecoverFresh, memory
<1>2. active' \in Pair
  BY DEF IndInv, TypeOK, RecoverFresh
<1>3. QED
  BY <1>1, <1>2, RecoveryGotoInv DEF RecoverFresh, memory

LEMMA RecoverRecordInv ==
  ASSUME IndInv, NEW p \in Proc, RecoverRecord(p) PROVE IndInv'
<1>1. PICK r \in Latest(Evidence) :
        \/ RecoverSettled(p, r)
        \/ RecoverInitial(p, r)
        \/ RecoverPromote(p, r)
        \/ RecoverRestore(p, r)
        \/ RecoverAbandon(p, r)
  BY DEF RecoverRecord
<1>2. r \in JournalRecord /\ r # Absent
  BY EvidenceType, AbsentRecordAssumption DEF Latest, IndInv
<1>3. /\ active' \in Pair /\ Stay
      /\ UNCHANGED <<journalFiles, directories>>
  BY DEF IndInv, TypeOK, RecoverRecord
<1>4. CASE RecoverSettled(p, r)
  BY <1>2, <1>3, <1>4, RecoveryGotoInv DEF RecoverSettled
<1>5. CASE RecoverInitial(p, r)
  BY <1>2, <1>3, <1>5, RecoveryGotoInv DEF RecoverInitial
<1>6. CASE RecoverPromote(p, r)
  <2>1. CASE UpdateJournal(p, WithPhase(r, "StateInstalled"), "commitRecovered")
    <3>1. WithPhase(r, "StateInstalled") \in JournalRecord
      BY <1>2, WithPhaseType DEF Phases, InFlightPhases
    <3>2. QED
      BY <1>3, <2>1, <3>1, UpdateJournalInv DEF AfterRecovery, AfterPublish
  <2>2. CASE /\ rec' = [rec EXCEPT ![p] = r]
             /\ Goto(p, "commitRecovered")
             /\ UNCHANGED <<after, target>>
    BY <1>2, <1>3, <2>2, RecoveryGotoInv
  <2>3. QED
    BY <1>6, <2>1, <2>2 DEF RecoverPromote
<1>7. CASE RecoverRestore(p, r)
  <2>1. r.prev # NoGeneration /\ backups[r.prev] # Absent
    BY <1>7 DEF RecoverRestore, CanRestore, BackupIsValid, Verified
  <2>2. QED
    BY <1>2, <1>3, <1>7, <2>1, RecoveryGotoInv DEF RecoverRestore
<1>8. CASE RecoverAbandon(p, r)
  <2>1. WithPhase(r, "RolledBack") \in JournalRecord
    BY <1>2, WithPhaseType DEF Phases
  <2>2. QED
    BY <1>3, <1>8, <2>1, UpdateJournalInv
    DEF RecoverAbandon, AfterRecovery, AfterPublish
<1>9. QED
  BY <1>1, <1>4, <1>5, <1>6, <1>7, <1>8

\* Both files of a directory that exists are Files.
LEMMA StagedFilesType ==
  ASSUME IndInv, NEW g \in Generations, staging[g] # Absent
  PROVE  staging[g].gallery \in File /\ staging[g].state \in File
<1>1. staging[g] \in Directory
  BY StagingNumbers DEF IndInv, TypeOK
<1>2. QED
  BY <1>1 DEF Directory

LEMMA BackedUpFilesType ==
  ASSUME IndInv, NEW g \in Generations, backups[g] # Absent
  PROVE  /\ backups[g] \in Directory
         /\ backups[g].gallery \in File
         /\ backups[g].state \in File
BY DEF IndInv, TypeOK, Directory

LEMMA InstallType ==
  ASSUME IndInv, NEW f \in File
  PROVE  /\ [active EXCEPT !.gallery = f] \in Pair
         /\ [active EXCEPT !.state = f] \in Pair
BY DEF IndInv, TypeOK, Pair

LEMMA CompleteStateInv ==
  ASSUME IndInv, NEW p \in Proc, CompleteState(p) PROVE IndInv'
<1>1. rec[p] \in JournalRecord
  BY RecordHeld DEF CompleteState, WithRecord
<1>2. active' \in Pair
  BY <1>1, StagedFilesType, InstallType DEF CompleteState, JournalRecord
<1>3. WithPhase(rec[p], "StateInstalled") \in JournalRecord
  BY <1>1, WithPhaseType DEF Phases, InFlightPhases
<1>4. QED
  BY <1>2, <1>3, UpdateJournalInv
  DEF CompleteState, AfterRecovery, AfterPublish

LEMMA CommitRecoveredInv ==
  ASSUME IndInv, NEW p \in Proc, CommitRecovered(p) PROVE IndInv'
<1>1. rec[p] \in JournalRecord
  BY RecordHeld DEF CommitRecovered, WithRecord
<1>2. active' \in Pair
  BY DEF CommitRecovered, IndInv, TypeOK
<1>3. WithPhase(rec[p], "Committed") \in JournalRecord
  BY <1>1, WithPhaseType DEF Phases
<1>4. QED
  BY <1>2, <1>3, UpdateJournalInv
  DEF CommitRecovered, AfterRecovery, AfterPublish

LEMMA BackupDirectoryHeld ==
  ASSUME IndInv, NEW p \in Proc, pc[p] \in WithBackupDirectory
  PROVE  /\ rec[p] \in JournalRecord /\ rec[p] # Absent
         /\ rec[p].prev \in Generations
         /\ rec[p].prev # NoGeneration
         /\ backups[rec[p].prev] # Absent
<1>1. rec[p] \in JournalRecord
  BY RecordHeld DEF WithRecord
<1>2. ControlOf(p)
  BY DEF IndInv, ControlOK
<1>3. QED
  BY <1>1, <1>2, AbsentRecordAssumption DEF ControlOf, JournalRecord

LEMMA RestoreGalleryInv ==
  ASSUME IndInv, NEW p \in Proc, RestoreGallery(p) PROVE IndInv'
<1>1. /\ rec[p] \in JournalRecord /\ rec[p] # Absent
      /\ rec[p].prev \in Generations
      /\ rec[p].prev # NoGeneration
      /\ backups[rec[p].prev] # Absent
  BY BackupDirectoryHeld DEF RestoreGallery, WithBackupDirectory
<1>2. active' \in Pair
  BY <1>1, BackedUpFilesType, InstallType DEF RestoreGallery
<1>3. rec' = [rec EXCEPT ![p] = rec[p]]
  BY DEF IndInv, TypeOK, RestoreGallery, memory
<1>4. QED
  BY <1>1, <1>2, <1>3, RecoveryGotoInv DEF RestoreGallery, memory

LEMMA RestoreStateInv ==
  ASSUME IndInv, NEW p \in Proc, RestoreState(p) PROVE IndInv'
<1>1. /\ rec[p] \in JournalRecord
      /\ rec[p].prev \in Generations
      /\ backups[rec[p].prev] # Absent
  BY BackupDirectoryHeld DEF RestoreState, WithBackupDirectory
<1>2. active' \in Pair
  BY <1>1, BackedUpFilesType, InstallType DEF RestoreState
<1>3. WithPhase(rec[p], "RolledBack") \in JournalRecord
  BY <1>1, WithPhaseType DEF Phases
<1>4. QED
  BY <1>2, <1>3, UpdateJournalInv
  DEF RestoreState, AfterRecovery, AfterPublish

-----------------------------------------------------------------------------
(* update_journal.                                                         *)

LEMMA ArchiveInv == ASSUME IndInv, NEW p \in Proc, Archive(p) PROVE IndInv'
<1> USE DEF IndInv, Archive, Goto, Stay, directories, memory
<1>1. TypeOK'
  BY DEF TypeOK, MustArchive, Labels, JournalLabels
<1>2. ControlOK'
  BY DEF TypeOK, ControlOK, ControlOf, PublishLabels, JournalLabels, WithRecord,
         AfterPublish, WithBackupDirectory, StagingLabels, StagingOf
<1>3. PublishersExclude'
  BY DEF PublishersExclude
<1>4. QED
  BY <1>1, <1>2, <1>3

LEMMA WriteCandidateInv ==
  ASSUME IndInv, NEW p \in Proc, WriteCandidate(p) PROVE IndInv'
<1> USE DEF IndInv, WriteCandidate, Goto, Stay, directories, memory
<1>1. rec[p] \in JournalRecord
  BY RecordHeld DEF WithRecord, JournalLabels
<1>2. TypeOK'
  BY <1>1 DEF TypeOK, Labels, JournalLabels
<1>3. ControlOK'
  BY DEF TypeOK, ControlOK, ControlOf, PublishLabels, JournalLabels, WithRecord,
         AfterPublish, WithBackupDirectory, StagingLabels, StagingOf
<1>4. PublishersExclude'
  BY DEF PublishersExclude
<1>5. QED
  BY <1>2, <1>3, <1>4

LEMMA ReplaceJournalInv ==
  ASSUME IndInv, NEW p \in Proc, ReplaceJournal(p) PROVE IndInv'
<1> USE DEF IndInv, ReplaceJournal, Goto, Stay, directories, memory
<1>1. /\ after[p] \in AfterRecovery \cup AfterPublish
      /\ after[p] \in AfterPublish => command[p] = "publish"
      /\ after[p] = "backup" => rec[p].prev # NoGeneration
      /\ rec[p] # Absent
  BY DEF ControlOK, ControlOf, JournalLabels, WithRecord
<1>2. TypeOK'
  BY <1>1 DEF TypeOK, Labels, RecoveryLabels, PublishLabels, AfterRecovery,
              AfterPublish
<1>3. ControlOK'
  BY <1>1
  DEF TypeOK, ControlOK, ControlOf, PublishLabels, JournalLabels, WithRecord,
      AfterPublish, AfterRecovery, WithBackupDirectory, StagingLabels, StagingOf
<1>4. PublishersExclude'
  BY DEF PublishersExclude
<1>5. QED
  BY <1>2, <1>3, <1>4

-----------------------------------------------------------------------------
(* build_local_gallery, after recovery.                                    *)

LEMMA ScanInv ==
  ASSUME IndInv, NEW p \in Proc, Scan(p) PROVE IndInv'
<1> USE DEF Scan, directories, journalFiles
<1>1. PICK found \in Content :
        \/ EndRun(p, "done") /\ UNCHANGED faults
        \/ /\ target' = [target EXCEPT ![p] = found]
           /\ Goto(p, "stageGallery")
           /\ UNCHANGED <<after, rec>>
           /\ Stay
  OBVIOUS
<1>2. CASE EndRun(p, "done") /\ UNCHANGED faults
  BY <1>2, EndRunInv DEF IndInv, TypeOK, Outcomes
<1>3. CASE /\ target' = [target EXCEPT ![p] = found]
           /\ Goto(p, "stageGallery")
           /\ UNCHANGED <<after, rec>>
           /\ Stay
  <2> USE <1>3 DEF IndInv, Goto, Stay
  <2>1. TypeOK'
    BY DEF TypeOK, Labels, PublishLabels, File
  <2>2. StagingOf(p) \in StagingNames /\ command[p] = "publish"
    BY StagingNumbers
    DEF TypeOK, ControlOK, ControlOf, PublishLabels, StagingOf
  <2>3. ControlOK'
    BY <2>2
    DEF TypeOK, ControlOK, ControlOf, PublishLabels, JournalLabels, WithRecord,
        AfterPublish, WithBackupDirectory, StagingLabels, StagingOf
  <2>4. PublishersExclude'
    BY DEF PublishersExclude
  <2>5. QED
    BY <2>1, <2>3, <2>4
<1>4. QED
  BY <1>1, <1>2, <1>3

\* What a publisher that stages its files holds.
LEMMA StagingHeld ==
  ASSUME IndInv, NEW p \in Proc, pc[p] \in StagingLabels
  PROVE  /\ StagingOf(p) \in StagingNames
         /\ target[p] \in Content
         /\ command[p] = "publish"
         /\ StagedFiles(p) \in Directory
<1>1. /\ StagingOf(p) \in StagingNames
      /\ target[p] \in Content
      /\ command[p] = "publish"
  BY DEF IndInv, ControlOK, ControlOf, StagingLabels, PublishLabels
<1>2. EmptyDirectory \in Directory
  BY DEF EmptyDirectory, Directory, File
<1>3. QED
  BY <1>1, <1>2 DEF StagedFiles, IndInv, TypeOK

LEMMA StageFileInv ==
  ASSUME IndInv, NEW p \in Proc, pc[p] \in StagingLabels,
         NEW dir \in Directory,
         NEW next \in {"stageState", "stageRecord", "prepare"},
         dir.gallery = target[p],
         next \in {"stageRecord", "prepare"} => dir.state = target[p],
         StageFile(p, dir, next)
  PROVE  IndInv'
<1> USE DEF IndInv, StageFile, Goto, Stay, memory, journalFiles
<1>1. /\ StagingOf(p) \in StagingNames
      /\ target[p] \in Content
      /\ command[p] = "publish"
  BY StagingHeld
<1>2. TypeOK'
  BY <1>1 DEF TypeOK, Labels, PublishLabels
<1>3. ASSUME NEW q \in Proc PROVE ControlOf(q)'
  <2>1. CASE q = p
    <3>1. /\ pc'[q] = next /\ StagingOf(q)' = StagingOf(p)
          /\ staging'[StagingOf(p)] = dir /\ dir # Absent
      BY <1>1, <2>1, AbsentDirectoryAssumption DEF TypeOK, StagingOf
    <3>2. QED
      BY <1>1, <2>1, <3>1
      DEF ControlOf, PublishLabels, JournalLabels, WithRecord, AfterPublish,
          WithBackupDirectory, StagingLabels
  <2>2. CASE q # p
    <3>1. ControlOf(q) /\ pc'[q] = pc[q] /\ pc[q] \notin PublishLabels
      BY <1>1, <2>2 DEF TypeOK, ControlOK, ControlOf, PublishersExclude
    <3>2. QED
      BY <3>1 DEF ControlOf, StagingLabels, PublishLabels
  <2>3. QED
    BY <2>1, <2>2
<1>4. PublishersExclude'
  BY DEF PublishersExclude
<1>5. QED
  BY <1>2, <1>3, <1>4 DEF ControlOK

LEMMA StageGalleryInv ==
  ASSUME IndInv, NEW p \in Proc, StageGallery(p) PROVE IndInv'
<1>1. pc[p] \in StagingLabels
  BY DEF StageGallery, StagingLabels
<1>2. [StagedFiles(p) EXCEPT !.gallery = target[p]] \in Directory
  BY <1>1, StagingHeld DEF Directory, File
<1>3. [StagedFiles(p) EXCEPT !.gallery = target[p]].gallery = target[p]
  BY <1>1, StagingHeld DEF Directory
<1>4. QED
  BY <1>1, <1>2, <1>3, StageFileInv DEF StageGallery

\* What is in the staging directory once the gallery, or both files, are.
LEMMA StagedSoFar ==
  ASSUME IndInv, NEW p \in Proc
  PROVE  /\ pc[p] \in {"stageState", "stageRecord", "prepare"} =>
               StagedFiles(p).gallery = target[p]
         /\ pc[p] \in {"stageRecord", "prepare"} =>
               StagedFiles(p).state = target[p]
BY DEF IndInv, ControlOK, ControlOf, StagedFiles

LEMMA StageStateInv ==
  ASSUME IndInv, NEW p \in Proc, StageState(p) PROVE IndInv'
<1>1. pc[p] \in StagingLabels /\ StagedFiles(p).gallery = target[p]
  BY StagedSoFar DEF StageState, StagingLabels
<1>2. [StagedFiles(p) EXCEPT !.state = target[p]] \in Directory
  BY <1>1, StagingHeld DEF Directory, File
<1>3. /\ [StagedFiles(p) EXCEPT !.state = target[p]].gallery = target[p]
      /\ [StagedFiles(p) EXCEPT !.state = target[p]].state = target[p]
  BY <1>1, StagingHeld DEF Directory
<1>4. QED
  BY <1>1, <1>2, <1>3, StageFileInv DEF StageState

LEMMA StageRecordInv ==
  ASSUME IndInv, NEW p \in Proc, StageRecord(p) PROVE IndInv'
<1> DEFINE files == StagedFiles(p)
           dir == [files EXCEPT !.record = [gallery |-> files.gallery,
                                            state |-> files.state]]
<1>1. /\ pc[p] \in StagingLabels /\ files \in Directory
      /\ files.gallery = target[p] /\ files.state = target[p]
  BY StagedSoFar, StagingHeld DEF StageRecord, StagingLabels
<1>2. [gallery |-> files.gallery, state |-> files.state] \in Pair
  BY <1>1 DEF Directory, Pair
<1>3. ASSUME NEW d \in Directory, NEW pair \in Pair
      PROVE  /\ [d EXCEPT !.record = pair] \in Directory
             /\ [d EXCEPT !.record = pair].gallery = d.gallery
             /\ [d EXCEPT !.record = pair].state = d.state
  BY DEF Directory
<1>4. dir \in Directory /\ dir.gallery = target[p] /\ dir.state = target[p]
  BY <1>1, <1>2, <1>3
<1>5. StageFile(p, dir, "prepare")
  BY DEF StageRecord
<1> HIDE DEF dir
<1>6. QED
  BY <1>1, <1>4, <1>5, StageFileInv

LEMMA PreparedRecordType ==
  ASSUME IndInv, NEW p \in Proc, pc[p] = "prepare",
         Validates(PreparedRecord(p))
  PROVE  PreparedRecord(p) \in JournalRecord
<1>1. /\ StagedFiles(p).gallery \in Content
      /\ StagedFiles(p).state \in Content
  BY StagingHeld, StagedSoFar DEF StagingLabels
<1>2. active.gallery \in File /\ active.state \in File
  BY DEF IndInv, TypeOK, Pair
<1>3. rec[p] \in JournalRecord \cup {Absent}
  BY DEF IndInv, TypeOK
<1>4. /\ NextSequence(rec[p]) \in Nat
      /\ ValidGeneration(rec[p]) \in Generations \cup {NoGeneration}
  BY <1>3 DEF NextSequence, ValidGeneration, JournalRecord
<1>5. NextGeneration(rec[p]) \in Generations
  BY DEF Validates, PreparedRecord
<1>6. QED
  BY <1>1, <1>2, <1>4, <1>5
  DEF PreparedRecord, JournalRecord, Phases, InFlightPhases

LEMMA PrepareInv ==
  ASSUME IndInv, NEW p \in Proc, Prepare(p) PROVE IndInv'
<1> DEFINE r == PreparedRecord(p)
           next == IF r.prev = NoGeneration THEN "installGallery" ELSE "backup"
<1>1. r \in JournalRecord
  BY PreparedRecordType DEF Prepare
<1>2. command[p] = "publish"
  BY StagingHeld DEF Prepare, StagingLabels
<1>3. /\ next \in AfterRecovery \cup AfterPublish
      /\ next = "backup" => r.prev # NoGeneration
  BY DEF AfterPublish
<1>4. active' \in Pair /\ UpdateJournal(p, r, next) /\ Stay
      /\ UNCHANGED <<journalFiles, directories>>
  BY DEF Prepare, IndInv, TypeOK
<1> HIDE DEF r, next
<1>5. QED
  BY <1>1, <1>2, <1>3, <1>4, UpdateJournalInv

LEMMA UseBackupInv ==
  ASSUME IndInv, NEW p \in Proc, UseBackup(p) PROVE IndInv'
<1>1. rec[p] \in JournalRecord /\ command[p] = "publish"
  BY RecordHeld
  DEF UseBackup, WithRecord, AfterPublish, IndInv, ControlOK, ControlOf,
      PublishLabels
<1>2. WithPhase(rec[p], "BackupCreated") \in JournalRecord
  BY <1>1, WithPhaseType DEF Phases, InFlightPhases
<1>3. active' \in Pair
  BY DEF UseBackup, IndInv, TypeOK
<1>4. QED
  BY <1>1, <1>2, <1>3, UpdateJournalInv DEF UseBackup, AfterPublish

\* A file of the backup under construction is written.
LEMMA BackupFileInv ==
  ASSUME IndInv, NEW p \in Proc,
         pc[p] \in {"backup", "backupGallery", "backupState", "backupRecord"},
         NEW dir \in Directory,
         NEW next \in {"backup", "backupGallery", "backupState", "backupRecord"},
         BackupFile(p, dir, next)
  PROVE  IndInv'
<1> USE DEF IndInv, BackupFile, Goto, Stay, memory, journalFiles
<1>1. rec[p] \in JournalRecord /\ rec[p] # Absent
  BY RecordHeld, AbsentRecordAssumption
  DEF WithRecord, WithBackupDirectory, AfterPublish
<1>2. rec[p].prev # NoGeneration /\ command[p] = "publish"
  BY DEF ControlOK, ControlOf, PublishLabels, WithBackupDirectory
<1>3. rec[p].prev \in Generations
  BY <1>1, <1>2 DEF JournalRecord
<1>4. TypeOK'
  BY <1>3 DEF TypeOK, Labels, PublishLabels
<1>5. /\ backups'[rec[p].prev] # Absent
      /\ \A g \in Generations : backups[g] # Absent => backups'[g] # Absent
  BY <1>3, AbsentDirectoryAssumption DEF TypeOK
<1>6. ASSUME NEW q \in Proc PROVE ControlOf(q)'
  <2>1. CASE q = p
    BY <1>1, <1>2, <1>5, <2>1
    DEF TypeOK, ControlOf, PublishLabels, JournalLabels, WithRecord,
        WithBackupDirectory, StagingLabels
  <2>2. CASE q # p
    <3>1. ControlOf(q) /\ pc'[q] = pc[q]
      BY <2>2 DEF TypeOK, ControlOK
    <3>2. pc[q] \in WithBackupDirectory => backups'[rec[q].prev] # Absent
      BY <1>5, BackupDirectoryHeld
    <3>3. QED
      BY <3>1, <3>2 DEF ControlOf, StagingOf
  <2>3. QED
    BY <2>1, <2>2
<1>7. PublishersExclude'
  BY DEF PublishersExclude
<1>8. QED
  BY <1>4, <1>6, <1>7 DEF ControlOK

LEMMA CreateBackupInv ==
  ASSUME IndInv, NEW p \in Proc, CreateBackup(p) PROVE IndInv'
<1>1. EmptyDirectory \in Directory
  BY DEF EmptyDirectory, Directory, File
<1>2. QED
  BY <1>1, BackupFileInv DEF CreateBackup

\* Writing one file of a directory gives a directory.
LEMMA DirectoryExcept ==
  ASSUME NEW dir \in Directory, NEW f \in File, NEW pair \in Pair
  PROVE  /\ [dir EXCEPT !.gallery = f] \in Directory
         /\ [dir EXCEPT !.state = f] \in Directory
         /\ [dir EXCEPT !.record = pair] \in Directory
BY DEF Directory

LEMMA BackupGalleryInv ==
  ASSUME IndInv, NEW p \in Proc, BackupGallery(p) PROVE IndInv'
<1>1. active.gallery \in File /\ NoPair \in Pair
  BY DEF IndInv, TypeOK, Pair, NoPair, File
<1>2. backups[rec[p].prev] \in Directory
  BY BackupDirectoryHeld, BackedUpFilesType
  DEF BackupGallery, WithBackupDirectory
<1>3. [backups[rec[p].prev] EXCEPT !.gallery = active.gallery] \in Directory
  BY <1>1, <1>2, DirectoryExcept
<1>4. QED
  BY <1>3, BackupFileInv DEF BackupGallery

LEMMA BackupStateInv ==
  ASSUME IndInv, NEW p \in Proc, BackupState(p) PROVE IndInv'
<1>1. active.state \in File /\ NoPair \in Pair
  BY DEF IndInv, TypeOK, Pair, NoPair, File
<1>2. backups[rec[p].prev] \in Directory
  BY BackupDirectoryHeld, BackedUpFilesType
  DEF BackupState, WithBackupDirectory
<1>3. [backups[rec[p].prev] EXCEPT !.state = active.state] \in Directory
  BY <1>1, <1>2, DirectoryExcept
<1>4. QED
  BY <1>3, BackupFileInv DEF BackupState

LEMMA BackupRecordInv ==
  ASSUME IndInv, NEW p \in Proc, BackupRecord(p) PROVE IndInv'
<1>1. active \in Pair /\ Absent \in File
  BY DEF IndInv, TypeOK, File
<1>2. backups[rec[p].prev] \in Directory
  BY BackupDirectoryHeld, BackedUpFilesType
  DEF BackupRecord, WithBackupDirectory
<1>3. [backups[rec[p].prev] EXCEPT !.record = active] \in Directory
  BY <1>1, <1>2, DirectoryExcept
<1>4. QED
  BY <1>3, BackupFileInv DEF BackupRecord

\* What a publisher past Prepared holds.
LEMMA PublishingHeld ==
  ASSUME IndInv, NEW p \in Proc, pc[p] \in AfterPublish
  PROVE  rec[p] \in JournalRecord /\ command[p] = "publish"
BY RecordHeld
DEF WithRecord, AfterPublish, IndInv, ControlOK, ControlOf, PublishLabels

LEMMA InstallGalleryInv ==
  ASSUME IndInv, NEW p \in Proc, InstallGallery(p) PROVE IndInv'
<1>1. rec[p] \in JournalRecord /\ command[p] = "publish"
  BY PublishingHeld DEF InstallGallery, AfterPublish
<1>2. active' \in Pair
  BY <1>1, StagedFilesType, InstallType DEF InstallGallery, JournalRecord
<1>3. WithPhase(rec[p], "GalleryInstalled") \in JournalRecord
  BY <1>1, WithPhaseType DEF Phases, InFlightPhases
<1>4. QED
  BY <1>1, <1>2, <1>3, UpdateJournalInv DEF InstallGallery, AfterPublish

LEMMA InstallStateInv ==
  ASSUME IndInv, NEW p \in Proc, InstallState(p) PROVE IndInv'
<1>1. rec[p] \in JournalRecord /\ command[p] = "publish"
  BY PublishingHeld DEF InstallState, AfterPublish
<1>2. active' \in Pair
  BY <1>1, StagedFilesType, InstallType DEF InstallState, JournalRecord
<1>3. WithPhase(rec[p], "StateInstalled") \in JournalRecord
  BY <1>1, WithPhaseType DEF Phases, InFlightPhases
<1>4. QED
  BY <1>1, <1>2, <1>3, UpdateJournalInv DEF InstallState, AfterPublish

LEMMA CommitInv ==
  ASSUME IndInv, NEW p \in Proc, Commit(p) PROVE IndInv'
<1>1. rec[p] \in JournalRecord /\ command[p] = "publish"
  BY PublishingHeld DEF Commit, AfterPublish
<1>2. active' \in Pair
  BY DEF Commit, IndInv, TypeOK
<1>3. WithPhase(rec[p], "Committed") \in JournalRecord
  BY <1>1, WithPhaseType DEF Phases
<1>4. QED
  BY <1>1, <1>2, <1>3, UpdateJournalInv DEF Commit, AfterPublish

LEMMA CleanupInv ==
  ASSUME IndInv, NEW p \in Proc, Cleanup(p) PROVE IndInv'
<1>1. command[p] = "publish"
  BY PublishingHeld DEF Cleanup, AfterPublish
<1>2. staging' \in [StagingNames -> Directory \cup {Absent}]
  BY DEF Cleanup, IndInv, TypeOK
<1>3. QED
  BY <1>1, <1>2, EndRunInv
  DEF Cleanup, Outcomes, IndInv, TypeOK, journalFiles

-----------------------------------------------------------------------------
(* Errors and interruptions.                                               *)

LEMMA RefuseInv ==
  ASSUME IndInv, NEW p \in Proc, Refuse(p) PROVE IndInv'
BY EndRunInv
DEF Refuse, Outcomes, IndInv, TypeOK, journalFiles, directories

LEMMA FaultInv ==
  ASSUME IndInv, NEW p \in Proc, Fault(p) PROVE IndInv'
<1>1. \E point : FaultAt(p, point)
  BY DEF Fault, Interrupt, TearArchive, TearCandidate
<1>2. /\ faults' \in 0 .. MaxFaults
      /\ UNCHANGED <<journal, active, directories>>
  BY <1>1, FaultAssumption DEF FaultAt, IndInv, TypeOK
<1>3. PICK result \in {"error", "killed"} : EndRun(p, result)
  BY <1>1 DEF FaultAt
<1>4. /\ candidate' \in {candidate, Torn}
      /\ history' = history
      /\ torn' \in SUBSET Nat
  <2>1. CASE Interrupt(p)
    BY <2>1 DEF Interrupt, IndInv, TypeOK
  <2>2. CASE TearArchive(p)
    <3>1. journal \in JournalRecord
      BY <2>2 DEF TearArchive, MustArchive, IndInv, TypeOK
    <3>2. QED
      BY <2>2, <3>1 DEF TearArchive, IndInv, TypeOK, JournalRecord
  <2>3. CASE TearCandidate(p)
    BY <2>3 DEF TearCandidate, IndInv, TypeOK
  <2>4. QED
    BY <2>1, <2>2, <2>3 DEF Fault
<1>5. QED
  BY <1>2, <1>3, <1>4, EndRunInv DEF Outcomes, directories, IndInv, TypeOK

-----------------------------------------------------------------------------
(* Every step keeps the invariant.                                         *)

LEMMA StepInv ==
  ASSUME IndInv, NEW p \in Proc, Step(p) PROVE IndInv'
<1>1. CASE Recovering(p)
  BY <1>1, RecoverFreshInv, RecoverRecordInv, CompleteStateInv,
     RestoreGalleryInv, RestoreStateInv, CommitRecoveredInv, EndRecoveryInv
  DEF Recovering
<1>2. CASE UpdatingJournal(p)
  BY <1>2, ArchiveInv, WriteCandidateInv, ReplaceJournalInv
  DEF UpdatingJournal
<1>3. CASE Publishing(p)
  BY <1>3, ScanInv, StageGalleryInv, StageStateInv, StageRecordInv,
     PrepareInv, UseBackupInv, CreateBackupInv, BackupGalleryInv,
     BackupStateInv, BackupRecordInv, InstallGalleryInv, InstallStateInv,
     CommitInv, CleanupInv
  DEF Publishing
<1>4. QED
  BY <1>1, <1>2, <1>3, RefuseInv DEF Step

LEMMA NextInv == IndInv /\ [Next]_vars => IndInv'
<1> SUFFICES ASSUME IndInv, [Next]_vars PROVE IndInv'
  OBVIOUS
<1>1. ASSUME NEW p \in Proc,
             \/ AcquireLock(p) \/ RefuseBusy(p) \/ StartRecover(p)
             \/ Step(p) \/ Fault(p)
      PROVE  IndInv'
  BY <1>1, AcquireLockInv, RefuseBusyInv, StartRecoverInv, StepInv, FaultInv
<1>2. CASE UNCHANGED vars
  BY <1>2
  DEF vars, IndInv, TypeOK, ControlOK, ControlOf, StagingOf, PublishersExclude
<1>3. QED
  BY <1>1, <1>2 DEF Next

LEMMA Invariance == Spec => []IndInv
BY InitInv, NextInv, PTL DEF Spec

\* The fields and files keep their kinds however many processes interleave
\* and wherever they are interrupted; in particular only the six-digit
\* generations are ever journaled, staged under or backed up.
THEOREM TypeCorrect == Spec => []TypeOK
<1>1. IndInv => TypeOK
  BY DEF IndInv
<1>2. QED
  BY <1>1, Invariance, PTL

\* Every process that reads the record it holds has one that names what the
\* step needs: the staged pair, the previous generation, its backup.
THEOREM ControlCorrect == Spec => []ControlOK
<1>1. IndInv => ControlOK
  BY DEF IndInv
<1>2. QED
  BY <1>1, Invariance, PTL

\* ExecutionLock keeps publishers apart, for any number of processes, any
\* interruptions and `recover` commands running beside them.
THEOREM MutualExclusion == Spec => []PublishersExclude
<1>1. IndInv => PublishersExclude
  BY DEF IndInv
<1>2. QED
  BY <1>1, Invariance, PTL

-----------------------------------------------------------------------------
(* One command at a time.  The invariant behind the promises to readers of *)
(* the directory, when `recover` is only run while nothing else runs.      *)

OneAtATime ==
    /\ \A p \in Proc : pc[p] = "idle" <=> command[p] = "none"
    /\ \A p, q \in Proc : pc[p] # "idle" /\ pc[q] # "idle" => p = q

IsRecord(file) == file \notin {Absent, Torn}

\* The record recovery decides from: the last one that was written.
Base == IF IsRecord(candidate) THEN candidate ELSE journal

StartsFirst(s) ==
    s.seq = 1 /\ s.gen = 1 /\ s.prev = NoGeneration /\ s.phase = "Prepared"

Succeeds(r, s) ==
    IF r = Absent THEN StartsFirst(s)
    ELSE FollowsInGeneration(r, s) \/ StartsGeneration(r, s)

\* A record names one photo set and another one it replaces, if any.
WellFormed(r) ==
    /\ r.state = r.gallery
    /\ r.prevState = r.prevGallery
    /\ r.gallery # r.prevGallery
    /\ r.prev < r.gen
    /\ r.prev = NoGeneration <=> r.prevGallery = Absent

GalleryReplaced(r) == ActiveIs(r.gallery, r.prevState)

\* What the active pair may be beside a record of each phase.
FilesAgree(r) ==
    /\ r.phase = "Prepared" =>
          \/ HoldsPrevious(r)
          \/ r.prev = NoGeneration /\ (GalleryReplaced(r) \/ HoldsNew(r))
    /\ r.phase = "BackupCreated" =>
          r.prev # NoGeneration /\ (HoldsPrevious(r) \/ GalleryReplaced(r))
    /\ r.phase = "GalleryInstalled" =>
          \/ r.prev # NoGeneration /\ HoldsPrevious(r)
          \/ GalleryReplaced(r)
          \/ HoldsNew(r)
    /\ r.phase \in {"StateInstalled", "Committed"} => HoldsNew(r)
    /\ r.phase = "RolledBack" => HoldsPrevious(r)

\* Past Prepared there is a verified copy of the previous pair.
BackedUp(r) ==
    r.prev # NoGeneration /\ r.phase # "Prepared" => BackupIsValid(r)

\* A backup directory is one of a generation that was published before, and
\* a verified one of the previous generation holds the previous pair.
BackupsTrue(r) ==
    /\ \A g \in Generations : backups[g] # Absent => g <= r.prev
    /\ r.prev # NoGeneration /\ Verified(backups[r.prev]) => BackupIsValid(r)

Consistent(r) ==
    IF r = Absent
    THEN active = NoPair /\ \A g \in Generations : backups[g] = Absent
    ELSE WellFormed(r) /\ FilesAgree(r) /\ BackedUp(r) /\ BackupsTrue(r)

EvidenceInv ==
    /\ journal # Torn
    /\ IsRecord(candidate) => Succeeds(journal, candidate)
    /\ \A h \in history :
          HasJournal /\ h.seq <= journal.seq /\ h.gen <= journal.gen
    /\ EvidenceIsSound

\* A record prepared but not yet in journal.json has installed nothing.
LeftPrepared ==
    IsRecord(candidate) /\ candidate.phase = "Prepared" =>
        HoldsPrevious(candidate)

AtRest(r) == r # Absent => r.phase \in {"Committed", "RolledBack"}

BackupLabels == {"backup", "backupGallery", "backupState", "backupRecord"}

\* What a process that goes on at label knows of the record r it holds.
Ready(label, r) ==
    /\ label \in {"recovered", "scan"} \cup StagingLabels => AtRest(r)
    /\ label = "completeState" =>
          r.phase = "Prepared" /\ r.prev = NoGeneration
            /\ GalleryReplaced(r) /\ StagingIsValid(r)
    /\ label \in {"restoreGallery", "restoreState"} =>
          /\ r.phase \in {"Prepared", "BackupCreated", "GalleryInstalled"}
          /\ BackupIsValid(r)
          /\ active.state = r.prevState
    /\ label = "restoreState" => HoldsPrevious(r)
    /\ label \in {"commitRecovered", "commit"} =>
          r.phase = "StateInstalled" /\ HoldsNew(r)
    /\ label \in BackupLabels =>
          r.phase = "Prepared" /\ HoldsPrevious(r) /\ StagingIsValid(r)
    /\ label = "installGallery" =>
          /\ r.phase = IF r.prev = NoGeneration THEN "Prepared"
                       ELSE "BackupCreated"
          /\ HoldsPrevious(r) /\ StagingIsValid(r)
    /\ label = "installState" =>
          r.phase = "GalleryInstalled" /\ GalleryReplaced(r) /\ StagingIsValid(r)
    /\ label = "cleanup" => r.phase = "Committed"

\* The files of the backup that is being made.
BackupSoFar(label, r) ==
    /\ label \in BackupLabels \ {"backup"} => backups[r.prev].record = Absent
    /\ label \in {"backupState", "backupRecord"} =>
          backups[r.prev].gallery = active.gallery
    /\ label = "backupRecord" => backups[r.prev].state = active.state

HeldOK(p) ==
    /\ pc[p] \in {"idle", "recover"} => rec[p] = Absent
    /\ pc[p] \notin {"idle", "recover"} \cup JournalLabels =>
          rec[p] = Base /\ Ready(pc[p], rec[p])
    /\ pc[p] \in StagingLabels => target[p] # active.gallery
    /\ pc[p] \in JournalLabels => Ready(after[p], rec[p])
    /\ pc[p] \in {"archive", "writeCandidate"} =>
          /\ Succeeds(Base, rec[p])
          /\ Consistent(rec[p])
          /\ rec[p].phase = "Prepared" => HoldsPrevious(rec[p])
    /\ pc[p] = "replaceJournal" => candidate = rec[p]
    /\ pc[p] \in BackupLabels \cup AfterPublish => candidate = Absent
    /\ BackupSoFar(pc[p], rec[p])
    /\ pc[p] = "prepare" => Verified(staging[StagingOf(p)])

DirectoryInv == EvidenceInv /\ LeftPrepared /\ Consistent(Base)
HeldInv == \A p \in Proc : HeldOK(p)

GalleryInv == IndInv /\ OneAtATime /\ DirectoryInv /\ HeldInv

-----------------------------------------------------------------------------
(* Facts about records.                                                    *)

LEMMA NextEntry ==
  ASSUME NEW r \in JournalRecord, NEW phase \in Phases,
         NEW s, s = WithPhase(r, phase)
  PROVE  /\ s \in JournalRecord /\ s # Absent
         /\ s.seq = r.seq + 1 /\ s.phase = phase
         /\ s.gen = r.gen /\ s.prev = r.prev
         /\ s.gallery = r.gallery /\ s.state = r.state
         /\ s.prevGallery = r.prevGallery /\ s.prevState = r.prevState
<1>1. s \in JournalRecord
  BY WithPhaseType
<1>2. QED
  BY <1>1, AbsentRecordAssumption DEF WithPhase, JournalRecord

\* The entries that may follow one of the same generation.
LEMMA NextFollows ==
  ASSUME NEW r \in JournalRecord, NEW phase \in Phases,
         NEW s, s = WithPhase(r, phase),
         \/ /\ phase = "BackupCreated"
            /\ r.phase = "Prepared" /\ r.prev # NoGeneration
         \/ /\ phase = "GalleryInstalled"
            /\ r.phase = IF r.prev = NoGeneration THEN "Prepared"
                         ELSE "BackupCreated"
         \/ /\ phase = "StateInstalled"
            /\ \/ r.phase \in {"BackupCreated", "GalleryInstalled"}
               \/ r.phase = "Prepared" /\ r.prev = NoGeneration
         \/ phase = "Committed" /\ r.phase = "StateInstalled"
         \/ phase = "RolledBack" /\ r.phase \in InFlightPhases
  PROVE  FollowsInGeneration(r, s)
<1>1. s = [r EXCEPT !.seq = r.seq + 1, !.phase = s.phase] /\ s.phase = phase
  BY DEF WithPhase, JournalRecord
<1>2. QED
  BY <1>1 DEF FollowsInGeneration

\* What is true of a record's generation is true of its next entry.
LEMMA NextConsistent ==
  ASSUME NEW r \in JournalRecord, NEW phase \in Phases,
         NEW s, s = WithPhase(r, phase)
  PROVE  /\ WellFormed(r) => WellFormed(s)
         /\ BackupsTrue(r) => BackupsTrue(s)
         /\ HoldsNew(s) <=> HoldsNew(r)
         /\ HoldsPrevious(s) <=> HoldsPrevious(r)
         /\ GalleryReplaced(s) <=> GalleryReplaced(r)
         /\ BackupIsValid(s) <=> BackupIsValid(r)
         /\ StagingIsValid(s) <=> StagingIsValid(r)
<1>1. /\ s.gen = r.gen /\ s.prev = r.prev
      /\ s.gallery = r.gallery /\ s.state = r.state
      /\ s.prevGallery = r.prevGallery /\ s.prevState = r.prevState
  BY DEF WithPhase, JournalRecord
<1>2. BackupIsValid(s) <=> BackupIsValid(r)
  BY <1>1 DEF BackupIsValid
<1>3. QED
  BY <1>1, <1>2
  DEF WellFormed, BackupsTrue, HoldsNew, HoldsPrevious, GalleryReplaced,
      StagingIsValid

LEMMA EvidenceTypes ==
  ASSUME GalleryInv
  PROVE  /\ Base \in JournalRecord \cup {Absent}
         /\ Evidence \subseteq JournalRecord
         /\ journal \in JournalRecord \cup {Absent}
         /\ IsRecord(candidate) => candidate \in JournalRecord
         /\ Torn # Absent
<1>1. Evidence \subseteq JournalRecord
  BY EvidenceType DEF GalleryInv, IndInv
<1>2. QED
  BY <1>1, TornAssumption
  DEF GalleryInv, IndInv, TypeOK, DirectoryInv, EvidenceInv, Base, IsRecord

\* A valid staging directory holds the record's own pair.
LEMMA StagedPair ==
  ASSUME NEW r, StagingIsValid(r)
  PROVE  /\ staging[r.gen] # Absent
         /\ staging[r.gen].gallery = r.gallery
         /\ staging[r.gen].state = r.state
BY DEF StagingIsValid, Verified

\* The last record written is the one recovery reads.
LEMMA LatestIsBase ==
  ASSUME GalleryInv
  PROVE  /\ \A e \in Evidence :
               Base # Absent /\ e.seq <= Base.seq /\ e.gen <= Base.gen
         /\ \A r \in Latest(Evidence) : r = Base
         /\ Base # Absent => Base \in Evidence
<1>1. Base # Absent => Base \in Evidence
  BY EvidenceTypes
  DEF Base, Evidence, IsRecord, GalleryInv, DirectoryInv, EvidenceInv
<1>2. ASSUME NEW e \in Evidence
      PROVE  Base # Absent /\ e.seq <= Base.seq /\ e.gen <= Base.gen
  <2>1. CASE e = candidate /\ IsRecord(candidate)
    BY <2>1, EvidenceTypes DEF Base, IsRecord, JournalRecord, Generations
  <2>2. CASE e \in history \cup {journal} /\ HasJournal
    <3>1. e.seq <= journal.seq /\ e.gen <= journal.gen
      BY <2>2, EvidenceTypes
      DEF GalleryInv, DirectoryInv, EvidenceInv, JournalRecord, Generations
    <3>2. CASE IsRecord(candidate)
      <4>1. Succeeds(journal, candidate) /\ journal # Absent
        BY <2>2, <3>2 DEF GalleryInv, DirectoryInv, EvidenceInv, HasJournal
      <4>2. /\ candidate \in JournalRecord /\ journal \in JournalRecord
            /\ e \in JournalRecord
        BY <3>2, <2>2, EvidenceTypes DEF HasJournal
      <4>3. candidate.seq = journal.seq + 1
        BY <4>1, <4>2
        DEF Succeeds, FollowsInGeneration, StartsGeneration, JournalRecord
      <4>4. candidate.gen \in {journal.gen, journal.gen + 1}
        BY <4>1, <4>2
        DEF Succeeds, FollowsInGeneration, StartsGeneration, JournalRecord
      <4>5. QED
        BY <3>1, <3>2, <4>2, <4>3, <4>4
        DEF Base, JournalRecord, Generations, IsRecord
    <3>3. CASE ~IsRecord(candidate)
      BY <2>2, <3>1, <3>3 DEF Base, HasJournal
    <3>4. QED
      BY <3>2, <3>3
  <2>3. QED
    BY <2>1, <2>2
    DEF Evidence, IsRecord, HasJournal, GalleryInv, DirectoryInv, EvidenceInv
<1>3. ASSUME NEW r \in Latest(Evidence) PROVE r = Base
  <2>1. r \in Evidence /\ Base \in Evidence /\ r.seq <= Base.seq
    BY <1>1, <1>2 DEF Latest
  <2>2. Base.seq <= r.seq
    BY <2>1 DEF Latest
  <2>3. r.seq \in Nat /\ Base.seq \in Nat
    BY <2>1, EvidenceTypes DEF JournalRecord
  <2>4. r.seq = Base.seq
    BY <2>1, <2>2, <2>3
  <2>5. QED
    BY <2>1, <2>4
    DEF GalleryInv, DirectoryInv, EvidenceInv, EvidenceIsSound,
        EvidenceIsUnambiguous, Ambiguous
<1>4. QED
  BY <1>1, <1>2, <1>3


-----------------------------------------------------------------------------
(* What the steps have in common.                                          *)

LEMMA Alone ==
  ASSUME GalleryInv, NEW p \in Proc, pc[p] # "idle", NEW q \in Proc, q # p
  PROVE  pc[q] = "idle" /\ rec[q] = Absent /\ command[q] = "none"
BY DEF GalleryInv, OneAtATime, HeldInv, HeldOK

\* Nothing is asked of a process that does not run.
LEMMA IdleHolds ==
  ASSUME NEW q \in Proc, pc'[q] = "idle", rec'[q] = Absent
  PROVE  HeldOK(q)'
BY DEF HeldOK, JournalLabels, StagingLabels, BackupLabels, AfterPublish,
       BackupSoFar

\* A process that runs takes a step and goes on running.
LEMMA RunningKeeps ==
  ASSUME GalleryInv, IndInv', NEW p \in Proc, pc[p] # "idle",
         NEW label \in Labels \ {"idle"}, Goto(p, label), command' = command,
         NEW r, rec' = [rec EXCEPT ![p] = r],
         DirectoryInv', HeldOK(p)'
  PROVE  GalleryInv'
<1> USE DEF Goto
<1>1. OneAtATime'
  BY DEF OneAtATime, GalleryInv, IndInv, TypeOK
<1>2. ASSUME NEW q \in Proc PROVE HeldOK(q)'
  <2>1. CASE q # p
    <3>1. pc'[q] = "idle" /\ rec'[q] = Absent
      BY <2>1, Alone DEF GalleryInv, IndInv, TypeOK
    <3>2. QED
      BY <3>1, IdleHolds
  <2>2. QED
    BY <2>1
<1>3. QED
  BY <1>1, <1>2 DEF GalleryInv, HeldInv

\* The directory says what it said when nothing recovery reads has changed.
LEMMA DirectoryKept ==
  ASSUME GalleryInv, UNCHANGED <<journal, history, active, backups>>,
         \/ candidate' = candidate
         \/ candidate = Absent /\ candidate' = Torn
  PROVE  DirectoryInv' /\ Base' = Base
<1> DEFINE b == Base
<1>1. Base' = Base /\ Evidence' = Evidence
  BY EvidenceTypes DEF Base, Evidence, IsRecord
<1>2. EvidenceInv'
  BY <1>1, EvidenceTypes
  DEF GalleryInv, DirectoryInv, EvidenceInv, IsRecord, HasJournal,
      EvidenceIsSound, EvidenceIsUnambiguous, GenerationNamesOnePair
<1>3. LeftPrepared'
  BY DEF GalleryInv, DirectoryInv, LeftPrepared, IsRecord, HoldsPrevious,
         ActiveIs
<1>4. Consistent(Base)'
  BY <1>1
  DEF GalleryInv, DirectoryInv, Consistent, WellFormed, FilesAgree, BackedUp,
      BackupsTrue, HoldsNew, HoldsPrevious, GalleryReplaced, ActiveIs,
      BackupIsValid
<1>5. QED
  BY <1>1, <1>2, <1>3, <1>4 DEF DirectoryInv

\* A run that ends, wherever it ends.
LEMMA EndRunKeeps ==
  ASSUME GalleryInv, IndInv', NEW p \in Proc, pc[p] # "idle",
         NEW result, EndRun(p, result),
         UNCHANGED <<journal, history, active, backups>>,
         \/ candidate' = candidate
         \/ candidate = Absent /\ candidate' = Torn
  PROVE  GalleryInv'
<1>1. /\ pc' = [pc EXCEPT ![p] = "idle"]
      /\ rec' = [rec EXCEPT ![p] = Absent]
      /\ command' = [command EXCEPT ![p] = "none"]
  BY DEF EndRun, Goto
<1>2. OneAtATime'
  BY <1>1 DEF OneAtATime, GalleryInv, IndInv, TypeOK
<1>3. ASSUME NEW q \in Proc PROVE HeldOK(q)'
  <2>1. pc'[q] = "idle" /\ rec'[q] = Absent
    BY <1>1, Alone DEF GalleryInv, IndInv, TypeOK
  <2>2. QED
    BY <2>1, IdleHolds
<1>4. QED
  BY <1>2, <1>3, DirectoryKept DEF GalleryInv, HeldInv

\* A process that goes on with the record it recovered or journaled.
LEMMA GotoKeeps ==
  ASSUME GalleryInv, IndInv', NEW p \in Proc, pc[p] # "idle",
         NEW label \in Labels \ ({"idle", "recover"} \cup JournalLabels),
         label \notin AfterPublish \cup BackupLabels \cup StagingLabels,
         Goto(p, label), command' = command,
         rec' = [rec EXCEPT ![p] = Base],
         DirectoryInv', Base' = Base, Ready(label, Base)'
  PROVE  GalleryInv'
<1>1. pc'[p] = label /\ rec'[p] = Base'
  BY DEF Goto, GalleryInv, IndInv, TypeOK
<1>2. Ready(pc[p], rec[p])'
  BY <1>1 DEF Ready, AtRest, GalleryReplaced, StagingIsValid, BackupIsValid,
              HoldsNew, HoldsPrevious, ActiveIs
<1>3. HeldOK(p)'
  BY <1>1, <1>2
  DEF HeldOK, JournalLabels, StagingLabels, BackupLabels, AfterPublish, 
      BackupSoFar
<1>4. QED
  BY <1>3, RunningKeeps

\* The part of DirectoryInv that only speaks of the journal's files.
LEMMA EvidenceKept ==
  ASSUME GalleryInv, UNCHANGED <<journal, candidate, history>>
  PROVE  EvidenceInv' /\ Base' = Base
<1>1. Base' = Base /\ Evidence' = Evidence
  BY DEF Base, Evidence, IsRecord
<1>2. EvidenceInv'
  BY <1>1
  DEF GalleryInv, DirectoryInv, EvidenceInv, IsRecord, HasJournal,
      EvidenceIsSound, EvidenceIsUnambiguous, GenerationNamesOnePair
<1>3. QED
  BY <1>1, <1>2

\* A call of update_journal is prepared: r is a legal next entry.
LEMMA UpdateJournalKeeps ==
  ASSUME GalleryInv, IndInv', NEW p \in Proc, pc[p] # "idle",
         NEW r \in JournalRecord, NEW next \in Labels,
         UpdateJournal(p, r, next), command' = command,
         UNCHANGED <<journalFiles, directories>>,
         Succeeds(Base, r),
         Consistent(Base)', LeftPrepared',
         Consistent(r)', r.phase = "Prepared" => HoldsPrevious(r)',
         Ready(next, r)'
  PROVE  GalleryInv'
<1>1. DirectoryInv' /\ Base' = Base
  BY EvidenceKept DEF DirectoryInv, journalFiles
<1>2. /\ pc'[p] = "archive" /\ rec'[p] = r /\ after'[p] = next
      /\ Goto(p, "archive") /\ rec' = [rec EXCEPT ![p] = r]
  BY DEF UpdateJournal, Goto, GalleryInv, IndInv, TypeOK
<1>3. Succeeds(Base, rec[p])'
  BY <1>1, <1>2
  DEF Succeeds, StartsFirst, FollowsInGeneration, StartsGeneration
<1>4. Consistent(rec[p])'
  BY <1>2
  DEF Consistent, WellFormed, FilesAgree, BackedUp, BackupsTrue, HoldsNew,
      HoldsPrevious, GalleryReplaced, ActiveIs, BackupIsValid
<1>5. Ready(after[p], rec[p])'
  BY <1>2 DEF Ready, AtRest, GalleryReplaced, StagingIsValid, BackupIsValid,
              HoldsNew, HoldsPrevious, ActiveIs
<1>6. (rec[p].phase = "Prepared" => HoldsPrevious(rec[p]))'
  BY <1>2 DEF HoldsPrevious, ActiveIs
<1>7. HeldOK(p)'
  BY <1>2, <1>3, <1>4, <1>5, <1>6
  DEF HeldOK, JournalLabels, StagingLabels, BackupLabels, AfterPublish,
      BackupSoFar
<1>8. "archive" \in Labels \ {"idle"}
  BY DEF Labels, JournalLabels
<1>9. QED
  BY <1>1, <1>2, <1>7, <1>8, RunningKeeps

-----------------------------------------------------------------------------
(* Starting and ending a command.                                          *)

LEMMA AcquireLockKeeps ==
  ASSUME RecoverAlone, GalleryInv, IndInv', NEW p \in Proc, AcquireLock(p)
  PROVE  GalleryInv'
<1>1. ASSUME NEW q \in Proc PROVE command[q] = "none" /\ pc[q] = "idle"
  BY DEF AcquireLock, MayStart, GalleryInv, IndInv, TypeOK, Commands,
         PublishersExclude, OneAtATime
<1>2. OneAtATime'
  BY <1>1 DEF AcquireLock, Goto, OneAtATime, GalleryInv, IndInv, TypeOK
<1>3. ASSUME NEW q \in Proc PROVE HeldOK(q)'
  <2>1. rec'[q] = Absent /\ pc'[q] \in {"idle", "recover"}
    BY <1>1 DEF AcquireLock, Goto, memory, GalleryInv, HeldInv, HeldOK, IndInv,
                TypeOK
  <2>2. QED
    BY <2>1 DEF HeldOK, JournalLabels, StagingLabels, BackupLabels,
                AfterPublish, BackupSoFar
<1>4. DirectoryInv'
  BY DirectoryKept DEF AcquireLock, journalFiles, directories
<1>5. QED
  BY <1>2, <1>3, <1>4 DEF GalleryInv, HeldInv

LEMMA StartRecoverKeeps ==
  ASSUME RecoverAlone, GalleryInv, IndInv', NEW p \in Proc, StartRecover(p)
  PROVE  GalleryInv'
<1>1. ASSUME NEW q \in Proc PROVE command[q] = "none" /\ pc[q] = "idle"
  BY DEF StartRecover, MayStart, OthersIdle, GalleryInv, OneAtATime
<1>2. OneAtATime'
  BY <1>1 DEF StartRecover, Goto, OneAtATime, GalleryInv, IndInv, TypeOK
<1>3. ASSUME NEW q \in Proc PROVE HeldOK(q)'
  <2>1. rec'[q] = Absent /\ pc'[q] \in {"idle", "recover"}
    BY <1>1 DEF StartRecover, Goto, memory, GalleryInv, HeldInv, HeldOK, IndInv,
                TypeOK
  <2>2. QED
    BY <2>1 DEF HeldOK, JournalLabels, StagingLabels, BackupLabels,
                AfterPublish, BackupSoFar
<1>4. DirectoryInv'
  BY DirectoryKept DEF StartRecover, journalFiles, directories
<1>5. QED
  BY <1>2, <1>3, <1>4 DEF GalleryInv, HeldInv

\* Steps that leave what the invariant reads as it was.
LEMMA UnchangedKeeps ==
  ASSUME GalleryInv, IndInv',
         UNCHANGED <<journalFiles, active, directories, memory, pc, command>>
  PROVE  GalleryInv'
<1>1. DirectoryInv' /\ Base' = Base
  BY DirectoryKept DEF journalFiles, directories
<1>2. OneAtATime'
  BY DEF OneAtATime, GalleryInv
<1>3. ASSUME NEW q \in Proc PROVE HeldOK(q)'
  BY <1>1
  DEF GalleryInv, HeldInv, HeldOK, BackupSoFar, Ready, AtRest, GalleryReplaced,
      StagingIsValid, StagingOf, BackupIsValid, HoldsNew, HoldsPrevious,
      ActiveIs, Succeeds, StartsFirst, FollowsInGeneration, StartsGeneration,
      Consistent, WellFormed, FilesAgree, BackedUp, BackupsTrue, journalFiles,
      directories, memory
<1>4. QED
  BY <1>1, <1>2, <1>3 DEF GalleryInv, HeldInv

\* What a process that is past "recover", and not updating the journal, holds.
LEMMA Held ==
  ASSUME GalleryInv, NEW p \in Proc,
         pc[p] \notin {"idle", "recover"} \cup JournalLabels
  PROVE  /\ rec[p] = Base /\ Ready(pc[p], Base) /\ Consistent(Base)
         /\ Base \in JournalRecord \cup {Absent}
BY EvidenceTypes DEF GalleryInv, HeldInv, HeldOK, DirectoryInv

LEMMA EndRecoveryKeeps ==
  ASSUME GalleryInv, IndInv', NEW p \in Proc, EndRecovery(p)
  PROVE  GalleryInv'
<1> USE DEF EndRecovery, directories, journalFiles
<1>1. CASE Goto(p, "scan") /\ UNCHANGED memory /\ Stay
  <2>1. /\ rec[p] = Base /\ Ready("recovered", Base)
        /\ pc[p] # "idle"
    BY Held DEF JournalLabels
  <2>2. rec' = [rec EXCEPT ![p] = Base]
    BY <1>1, <2>1 DEF memory, GalleryInv, IndInv, TypeOK
  <2>3. DirectoryInv' /\ Base' = Base
    BY DirectoryKept
  <2>4. Ready("scan", Base)'
    BY <2>1, <2>3 DEF Ready, AtRest, StagingLabels, BackupLabels
  <2>5. "scan" \in Labels \ ({"idle", "recover"} \cup JournalLabels)
    BY DEF Labels, PublishLabels, JournalLabels
  <2>6. "scan" \notin AfterPublish \cup BackupLabels \cup StagingLabels
    BY DEF AfterPublish, BackupLabels, StagingLabels
  <2>7. QED
    BY <1>1, <2>1, <2>2, <2>3, <2>4, <2>5, <2>6, GotoKeeps DEF Stay
<1>2. CASE EndRun(p, "done")
  BY <1>2, EndRunKeeps
<1>3. QED
  BY <1>1, <1>2

-----------------------------------------------------------------------------
(* recover_publication.                                                    *)

LEMMA RecoverFreshKeeps ==
  ASSUME GalleryInv, IndInv', NEW p \in Proc, RecoverFresh(p)
  PROVE  GalleryInv'
<1> USE DEF RecoverFresh, directories, journalFiles
<1>1. Base = Absent /\ rec[p] = Absent
  BY LatestIsBase DEF NothingToRecover, GalleryInv, HeldInv, HeldOK
<1>2. rec' = [rec EXCEPT ![p] = Base]
  BY <1>1 DEF memory, GalleryInv, IndInv, TypeOK
<1>3. DirectoryInv' /\ Base' = Base
  BY DirectoryKept
<1>4. Ready("recovered", Base)'
  BY <1>1, <1>3 DEF Ready, AtRest, StagingLabels, BackupLabels
<1>5. "recovered" \in Labels \ ({"idle", "recover"} \cup JournalLabels)
  BY DEF Labels, RecoveryLabels, JournalLabels
<1>6. "recovered" \notin AfterPublish \cup BackupLabels \cup StagingLabels
  BY DEF AfterPublish, BackupLabels, StagingLabels
<1>7. QED
  BY <1>2, <1>3, <1>4, <1>5, <1>6, GotoKeeps DEF Stay

\* Nothing recovery decides from, and nothing it decides on, has changed.
LEMMA ReadyKept ==
  ASSUME NEW label, NEW r, UNCHANGED <<active, staging, backups>>
  PROVE  /\ Ready(label, r)' <=> Ready(label, r)
         /\ Consistent(r)' <=> Consistent(r)
         /\ HoldsPrevious(r)' <=> HoldsPrevious(r)
BY DEF Ready, AtRest, GalleryReplaced, StagingIsValid, BackupIsValid, HoldsNew,
       HoldsPrevious, ActiveIs, Consistent, WellFormed, FilesAgree, BackedUp,
       BackupsTrue

\* Recovery takes up the record without a change to the directory.
LEMMA TakeUpKeeps ==
  ASSUME GalleryInv, IndInv', NEW p \in Proc, pc[p] = "recover",
         NEW label \in {"recovered", "completeState", "commitRecovered",
                        "restoreGallery"},
         Goto(p, label), rec' = [rec EXCEPT ![p] = Base],
         UNCHANGED <<journalFiles, active, directories>>, Stay,
         Ready(label, Base)
  PROVE  GalleryInv'
<1>1. DirectoryInv' /\ Base' = Base
  BY DirectoryKept DEF directories, journalFiles
<1>2. PICK b : b = Base
  OBVIOUS
<1>3. Ready(label, b)'
  BY <1>2, ReadyKept DEF directories
<1>4. Ready(label, Base)'
  BY <1>1, <1>2, <1>3
  DEF Ready, AtRest, GalleryReplaced, StagingIsValid, BackupIsValid, HoldsNew,
      HoldsPrevious, ActiveIs
<1>5. label \in Labels \ ({"idle", "recover"} \cup JournalLabels)
  BY DEF Labels, RecoveryLabels, JournalLabels
<1>6. label \notin AfterPublish \cup BackupLabels \cup StagingLabels
  BY DEF AfterPublish, BackupLabels, StagingLabels
<1>7. QED
  BY <1>1, <1>4, <1>5, <1>6, GotoKeeps DEF Stay

\* What the record recovery reads says is so.
LEMMA BaseConsistent ==
  ASSUME GalleryInv, Base # Absent
  PROVE  /\ Base \in JournalRecord
         /\ WellFormed(Base) /\ FilesAgree(Base)
         /\ BackedUp(Base) /\ BackupsTrue(Base)
BY EvidenceTypes DEF GalleryInv, DirectoryInv, Consistent

\* A following entry of the generation at hand, with the files as they are.
LEMMA FollowUpKeeps ==
  ASSUME GalleryInv, IndInv', NEW p \in Proc, pc[p] # "idle", Base # Absent,
         NEW phase \in Phases \ {"Prepared"}, NEW next \in Labels,
         UpdateJournal(p, WithPhase(Base, phase), next), command' = command,
         UNCHANGED <<journalFiles, active, directories>>,
         NEW s, s = WithPhase(Base, phase),
         FollowsInGeneration(Base, s), FilesAgree(s), BackedUp(s),
         Ready(next, s)
  PROVE  GalleryInv'
<1>1. PICK b : b = Base
  OBVIOUS
<1>2. /\ s \in JournalRecord /\ s # Absent /\ s.phase = phase
      /\ WellFormed(s) /\ BackupsTrue(s)
  BY <1>1, BaseConsistent, NextEntry, NextConsistent
<1>3. Succeeds(Base, s)
  BY DEF Succeeds
<1>4. Consistent(s)' /\ Consistent(Base) /\ Ready(next, s)'
  BY <1>2, ReadyKept
  DEF Consistent, GalleryInv, DirectoryInv, directories
<1>5. Consistent(Base)' /\ LeftPrepared'
  BY DirectoryKept DEF DirectoryInv, directories, journalFiles
<1>6. QED
  BY <1>2, <1>3, <1>4, <1>5, UpdateJournalKeeps

LEMMA RecoverRecordKeeps ==
  ASSUME GalleryInv, IndInv', NEW p \in Proc, RecoverRecord(p)
  PROVE  GalleryInv'
<1> DEFINE r == Base
<1>1. /\ \/ RecoverSettled(p, r)
         \/ RecoverInitial(p, r)
         \/ RecoverPromote(p, r)
         \/ RecoverRestore(p, r)
         \/ RecoverAbandon(p, r)
      /\ r # Absent
  BY LatestIsBase DEF RecoverRecord, Latest
<1>2. /\ pc[p] = "recover" /\ Stay
      /\ UNCHANGED <<journalFiles, active, directories>>
  BY DEF RecoverRecord
<1>3. /\ r \in JournalRecord
      /\ WellFormed(r) /\ FilesAgree(r) /\ BackedUp(r) /\ BackupsTrue(r)
  BY <1>1, BaseConsistent
<1>4. CASE RecoverSettled(p, r)
  <2>1. Ready("recovered", r)
    BY <1>4 DEF RecoverSettled, Settled, Ready, AtRest, BackupLabels
  <2>2. QED
    BY <1>2, <1>4, <2>1, TakeUpKeeps DEF RecoverSettled
<1>5. CASE RecoverInitial(p, r)
  <2>1. /\ r.phase = "Prepared" /\ r.prev = NoGeneration
        /\ ActiveIs(r.gallery, Absent) /\ StagingIsValid(r)
    BY <1>5 DEF RecoverInitial, CanComplete
  <2>2. StagingIsValid(r)
    BY <2>1 DEF StagingIsValid, Verified
  <2>3. GalleryReplaced(r)
    BY <1>3, <2>1 DEF WellFormed, GalleryReplaced
  <2>4. Ready("completeState", r)
    BY <2>1, <2>2, <2>3 DEF Ready, StagingLabels, BackupLabels
  <2>5. QED
    BY <1>2, <1>5, <2>4, TakeUpKeeps DEF RecoverInitial
<1>6. CASE RecoverPromote(p, r)
  <2>1. CanPromote(r) /\ HoldsNew(r) /\ r.phase \in InFlightPhases \ {"Prepared"}
    BY <1>6 DEF RecoverPromote, CanPromote, BothInstalled
  <2>2. CASE r.phase = "StateInstalled"
    <3>1. Ready("commitRecovered", r)
      BY <2>1, <2>2 DEF Ready, StagingLabels, BackupLabels
    <3>2. QED
      BY <1>2, <1>6, <2>2, <3>1, TakeUpKeeps DEF RecoverPromote
  <2>3. CASE r.phase # "StateInstalled"
    <3>1. PICK s : s = WithPhase(r, "StateInstalled")
      OBVIOUS
    <3>2. /\ s.phase = "StateInstalled" /\ s.prev = r.prev
          /\ HoldsNew(s) /\ (BackupIsValid(s) <=> BackupIsValid(r))
      <4>1. "StateInstalled" \in Phases
        BY DEF Phases, InFlightPhases
      <4>2. QED
        BY <1>3, <2>1, <3>1, <4>1, NextEntry, NextConsistent
    <3>3. FollowsInGeneration(r, s)
      BY <1>3, <2>1, <2>3, <3>1, NextFollows DEF Phases, InFlightPhases
    <3>4. FilesAgree(s) /\ BackedUp(s)
      BY <2>1, <3>2 DEF FilesAgree, BackedUp, CanPromote
    <3>5. Ready("commitRecovered", s)
      BY <3>2 DEF Ready, StagingLabels, BackupLabels
    <3>6. QED
      BY <1>1, <1>2, <1>6, <2>3, <3>1, <3>3, <3>4, <3>5, FollowUpKeeps
      DEF RecoverPromote, Stay, Labels, RecoveryLabels, Phases, InFlightPhases
  <2>4. QED
    BY <2>2, <2>3
<1>7. CASE RecoverRestore(p, r)
  <2>1. CanRestore(r) /\ BackupIsValid(r) /\ r.prev # NoGeneration
    BY <1>7 DEF RecoverRestore, CanRestore, BackupIsValid
  <2>2. /\ r.phase \in {"Prepared", "BackupCreated", "GalleryInstalled"}
        /\ active.state = r.prevState
    BY <1>3, <2>1
    DEF CanRestore, RollsBack, BothInstalled, FilesAgree, InFlightPhases,
        HoldsPrevious, GalleryReplaced, HoldsNew, ActiveIs
  <2>3. Ready("restoreGallery", r)
    BY <2>1, <2>2 DEF Ready, StagingLabels, BackupLabels
  <2>4. QED
    BY <1>2, <1>7, <2>3, TakeUpKeeps DEF RecoverRestore
<1>8. CASE RecoverAbandon(p, r)
  <2>1. /\ r.phase \in InFlightPhases
        /\ r.prev = NoGeneration /\ active = NoPair
    BY <1>8 DEF RecoverAbandon, CanAbandon, RollsBack
  <2>2. PICK s : s = WithPhase(r, "RolledBack")
    OBVIOUS
  <2>3. /\ s.phase = "RolledBack" /\ s.prev = r.prev
        /\ (HoldsPrevious(s) <=> HoldsPrevious(r))
    BY <1>3, <2>2, NextEntry, NextConsistent DEF Phases
  <2>4. HoldsPrevious(r)
    BY <1>3, <2>1 DEF WellFormed, HoldsPrevious, ActiveIs, NoPair
  <2>5. FollowsInGeneration(r, s)
    BY <1>3, <2>1, <2>2, NextFollows DEF Phases
  <2>6. FilesAgree(s) /\ BackedUp(s)
    BY <2>1, <2>3, <2>4 DEF FilesAgree, BackedUp
  <2>7. Ready("recovered", s)
    BY <2>3 DEF Ready, AtRest, StagingLabels, BackupLabels
  <2>8. QED
    BY <1>1, <1>2, <1>8, <2>2, <2>5, <2>6, <2>7, FollowUpKeeps
    DEF RecoverAbandon, Stay, Labels, RecoveryLabels, Phases, InFlightPhases
<1>9. QED
  BY <1>1, <1>4, <1>5, <1>6, <1>7, <1>8

LEMMA ActiveExcept ==
  ASSUME GalleryInv, NEW f
  PROVE  /\ [active EXCEPT !.gallery = f] = [gallery |-> f, state |-> active.state]
         /\ [active EXCEPT !.state = f] = [gallery |-> active.gallery, state |-> f]
         /\ active = [gallery |-> active.gallery, state |-> active.state]
BY DEF GalleryInv, IndInv, TypeOK, Pair

LEMMA CompleteStateKeeps ==
  ASSUME GalleryInv, IndInv', NEW p \in Proc, CompleteState(p)
  PROVE  GalleryInv'
<1> USE DEF CompleteState
<1>1. /\ rec[p] = Base /\ pc[p] # "idle"
      /\ Base \in JournalRecord /\ Base # Absent
  BY Held, RecordHeld, AbsentRecordAssumption
  DEF JournalLabels, WithRecord, GalleryInv
<1>2. PICK r \in JournalRecord : r = Base
  BY <1>1
<1>3. /\ r.phase = "Prepared" /\ r.prev = NoGeneration
      /\ GalleryReplaced(r) /\ StagingIsValid(r)
  BY <1>1, <1>2, Held DEF Ready, JournalLabels
<1>4. WellFormed(r) /\ BackupsTrue(r)
  BY <1>1, <1>2, BaseConsistent
<1>5. PICK s : s = WithPhase(r, "StateInstalled")
  OBVIOUS
<1>6. "StateInstalled" \in Phases
  BY DEF Phases, InFlightPhases
<1>7. /\ s \in JournalRecord /\ s # Absent /\ s.phase = "StateInstalled"
      /\ s.prev = r.prev /\ s.gallery = r.gallery /\ s.state = r.state
      /\ WellFormed(s) /\ BackupsTrue(s) /\ FollowsInGeneration(r, s)
  BY <1>3, <1>4, <1>5, <1>6, NextEntry, NextConsistent, NextFollows
<1>8. active' = [gallery |-> r.gallery, state |-> r.state]
  BY <1>1, <1>2, <1>3, StagedPair, ActiveExcept DEF GalleryReplaced, ActiveIs
<1>9. HoldsNew(r)' /\ HoldsNew(s)'
  BY <1>7, <1>8 DEF HoldsNew, ActiveIs
<1>10. Base' = Base
  BY EvidenceKept DEF journalFiles
<1>11. BackupsTrue(r)' /\ BackupsTrue(s)'
  BY <1>4, <1>7 DEF BackupsTrue, BackupIsValid, directories
<1>12. Consistent(Base)' /\ Consistent(s)'
  BY <1>1, <1>2, <1>3, <1>4, <1>7, <1>9, <1>10, <1>11
  DEF Consistent, FilesAgree, BackedUp, BackupsTrue, BackupIsValid, HoldsNew,
      ActiveIs
<1>13. LeftPrepared'
  <2>1. ~HoldsPrevious(r)
    BY <1>3, <1>4 DEF HoldsPrevious, GalleryReplaced, ActiveIs, WellFormed
  <2>2. ~IsRecord(candidate)
    BY <1>2, <1>3, <2>1 DEF GalleryInv, DirectoryInv, LeftPrepared, Base
  <2>3. QED
    BY <2>2 DEF LeftPrepared, IsRecord, journalFiles
<1>14. Ready("commitRecovered", s)'
  BY <1>7, <1>9 DEF Ready, StagingLabels, BackupLabels, HoldsNew, ActiveIs
<1>15. Succeeds(Base, s)
  BY <1>1, <1>2, <1>7 DEF Succeeds
<1>16. UpdateJournal(p, s, "commitRecovered")
  BY <1>1, <1>2, <1>5
<1>17. QED
  BY <1>1, <1>7, <1>12, <1>13, <1>14, <1>15, <1>16, UpdateJournalKeeps
  DEF Stay, Labels, RecoveryLabels

LEMMA CommitRecoveredKeeps ==
  ASSUME GalleryInv, IndInv', NEW p \in Proc, CommitRecovered(p)
  PROVE  GalleryInv'
<1> USE DEF CommitRecovered
<1>1. /\ rec[p] = Base /\ pc[p] # "idle"
      /\ Base \in JournalRecord /\ Base # Absent
  BY Held, RecordHeld, AbsentRecordAssumption
  DEF JournalLabels, WithRecord, GalleryInv
<1>2. Base.phase = "StateInstalled" /\ HoldsNew(Base)
  BY <1>1, Held DEF Ready, JournalLabels
<1>3. PICK s : s = WithPhase(Base, "Committed")
  OBVIOUS
<1>4. "Committed" \in Phases \ {"Prepared"}
  BY DEF Phases
<1>5. FollowsInGeneration(Base, s)
  BY <1>1, <1>2, <1>3, <1>4, NextFollows
<1>6. /\ s.phase = "Committed" /\ HoldsNew(s) /\ s.prev = Base.prev
      /\ BackupIsValid(s) <=> BackupIsValid(Base)
  BY <1>1, <1>2, <1>3, <1>4, NextEntry, NextConsistent
<1>7. FilesAgree(s) /\ BackedUp(s)
  BY <1>1, <1>2, <1>6, BaseConsistent DEF FilesAgree, BackedUp
<1>8. Ready("recovered", s)
  BY <1>6 DEF Ready, AtRest, StagingLabels, BackupLabels
<1>9. QED
  BY <1>1, <1>3, <1>4, <1>5, <1>7, <1>8, FollowUpKeeps
  DEF Stay, Labels, RecoveryLabels

LEMMA RestoreGalleryKeeps ==
  ASSUME GalleryInv, IndInv', NEW p \in Proc, RestoreGallery(p)
  PROVE  GalleryInv'
<1> USE DEF RestoreGallery
<1>1. /\ rec[p] = Base /\ pc[p] # "idle"
      /\ Base \in JournalRecord /\ Base # Absent
  BY Held, BackupDirectoryHeld, AbsentRecordAssumption
  DEF JournalLabels, WithBackupDirectory, GalleryInv
<1>2. PICK r \in JournalRecord : r = Base
  BY <1>1
<1>3. /\ r.phase \in {"Prepared", "BackupCreated", "GalleryInstalled"}
      /\ BackupIsValid(r) /\ active.state = r.prevState
  BY <1>1, <1>2, Held DEF Ready, JournalLabels
<1>4. active' = [gallery |-> r.prevGallery, state |-> r.prevState]
  <2>1. backups[r.prev].gallery = r.prevGallery
    BY <1>3 DEF BackupIsValid, Verified
  <2>2. active' = [active EXCEPT !.gallery = r.prevGallery]
    BY <1>1, <1>2, <2>1
  <2>3. QED
    BY <1>3, <2>2, ActiveExcept
<1>5. HoldsPrevious(r)' /\ BackupIsValid(r)'
  BY <1>3, <1>4 DEF HoldsPrevious, ActiveIs, BackupIsValid, directories
<1>6. EvidenceInv' /\ Base' = Base
  BY EvidenceKept DEF journalFiles
<1>7. WellFormed(r) /\ BackupsTrue(r)
  BY <1>1, <1>2, BaseConsistent
<1>8. BackupsTrue(r)' /\ BackedUp(r)' /\ FilesAgree(r)'
  BY <1>3, <1>5, <1>7
  DEF BackupsTrue, BackedUp, FilesAgree, BackupIsValid, directories
<1>9. Consistent(Base)'
  BY <1>1, <1>2, <1>6, <1>7, <1>8
  DEF Consistent, BackupsTrue, BackedUp, FilesAgree, BackupIsValid,
      HoldsPrevious, HoldsNew, GalleryReplaced, ActiveIs
<1>10. LeftPrepared'
  BY <1>2, <1>5 DEF LeftPrepared, Base, HoldsPrevious, ActiveIs, journalFiles,
                    IsRecord
<1>11. Ready("restoreState", Base)'
  BY <1>2, <1>3, <1>4, <1>5, <1>6
  DEF Ready, StagingLabels, BackupLabels, BackupIsValid, HoldsPrevious, ActiveIs
<1>12. rec' = [rec EXCEPT ![p] = Base]
  BY <1>1 DEF memory, GalleryInv, IndInv, TypeOK
<1>13. "restoreState" \in Labels \ ({"idle", "recover"} \cup JournalLabels)
  BY DEF Labels, RecoveryLabels, JournalLabels
<1>14. "restoreState" \notin AfterPublish \cup BackupLabels \cup StagingLabels
  BY DEF AfterPublish, BackupLabels, StagingLabels
<1>15. QED
  BY <1>1, <1>6, <1>9, <1>10, <1>11, <1>12, <1>13, <1>14, GotoKeeps
  DEF Stay, DirectoryInv

LEMMA RestoreStateKeeps ==
  ASSUME GalleryInv, IndInv', NEW p \in Proc, RestoreState(p)
  PROVE  GalleryInv'
<1> USE DEF RestoreState
<1>1. /\ rec[p] = Base /\ pc[p] # "idle"
      /\ Base \in JournalRecord /\ Base # Absent
  BY Held, BackupDirectoryHeld, AbsentRecordAssumption
  DEF JournalLabels, WithBackupDirectory, GalleryInv
<1>2. PICK r \in JournalRecord : r = Base
  BY <1>1
<1>3. /\ r.phase \in {"Prepared", "BackupCreated", "GalleryInstalled"}
      /\ BackupIsValid(r) /\ HoldsPrevious(r)
  BY <1>1, <1>2, Held DEF Ready, JournalLabels
<1>4. active' = active
  BY <1>1, <1>2, <1>3, ActiveExcept
  DEF BackupIsValid, Verified, HoldsPrevious, ActiveIs
<1>5. PICK s : s = WithPhase(r, "RolledBack")
  OBVIOUS
<1>6. "RolledBack" \in Phases \ {"Prepared"} /\ r.phase \in InFlightPhases
  BY <1>3 DEF Phases, InFlightPhases
<1>7. FollowsInGeneration(r, s)
  BY <1>5, <1>6, NextFollows
<1>8. s.phase = "RolledBack" /\ HoldsPrevious(s) /\ BackupIsValid(s)
  BY <1>3, <1>5, <1>6, NextEntry, NextConsistent
<1>9. FilesAgree(s) /\ BackedUp(s) /\ Ready("recovered", s)
  BY <1>8 DEF FilesAgree, BackedUp, Ready, AtRest, StagingLabels, BackupLabels
<1>10. QED
  BY <1>1, <1>2, <1>4, <1>5, <1>6, <1>7, <1>9, FollowUpKeeps
  DEF Stay, Labels, RecoveryLabels

-----------------------------------------------------------------------------
(* update_journal.                                                         *)

\* The next entry adds to the evidence a record of a number not seen yet.
LEMMA NextIsSound ==
  ASSUME GalleryInv, NEW s \in JournalRecord, Succeeds(Base, s),
         NEW a \in Evidence
  PROVE  /\ a.seq < s.seq
         /\ a.gen = s.gen => a.gallery = s.gallery /\ a.state = s.state
<1>1. /\ Base \in JournalRecord /\ Base # Absent /\ Base \in Evidence
      /\ a \in JournalRecord
      /\ a.seq <= Base.seq /\ a.gen <= Base.gen
      /\ a.gen = Base.gen => a.gallery = Base.gallery /\ a.state = Base.state
  BY LatestIsBase, EvidenceTypes
  DEF GalleryInv, DirectoryInv, EvidenceInv, EvidenceIsSound,
      GenerationNamesOnePair
<1>2. PICK b \in JournalRecord : b = Base
  BY <1>1
<1>3. CASE FollowsInGeneration(b, s)
  <2>1. s = [b EXCEPT !.seq = b.seq + 1, !.phase = s.phase]
    BY <1>3 DEF FollowsInGeneration
  <2>2. /\ s.seq = b.seq + 1 /\ s.gen = b.gen
        /\ s.gallery = b.gallery /\ s.state = b.state
    BY <2>1 DEF JournalRecord
  <2>3. QED
    BY <1>1, <1>2, <2>2 DEF JournalRecord
<1>4. CASE StartsGeneration(b, s)
  BY <1>1, <1>2, <1>4 DEF StartsGeneration, JournalRecord, Generations
<1>5. QED
  BY <1>1, <1>2, <1>3, <1>4 DEF Succeeds

LEMMA ArchiveKeeps ==
  ASSUME GalleryInv, IndInv', NEW p \in Proc, Archive(p)
  PROVE  GalleryInv'
<1> USE DEF Archive, directories, memory
<1>1. Evidence' = Evidence /\ Base' = Base
  BY DEF Evidence, MustArchive, Base, IsRecord
<1>2. EvidenceInv'
  <2>1. ASSUME NEW h \in history'
        PROVE  (HasJournal /\ h.seq <= journal.seq /\ h.gen <= journal.gen)'
    <3>1. CASE h \in history
      BY <3>1 DEF GalleryInv, DirectoryInv, EvidenceInv, HasJournal
    <3>2. CASE h = journal /\ MustArchive
      BY <3>2, EvidenceTypes
      DEF HasJournal, MustArchive, JournalRecord, Generations
    <3>3. QED
      BY <3>1, <3>2
  <2>2. (IsRecord(candidate) => Succeeds(journal, candidate))' /\ journal' # Torn
    BY DEF GalleryInv, DirectoryInv, EvidenceInv, IsRecord, Succeeds,
           StartsFirst, FollowsInGeneration, StartsGeneration
  <2>3. EvidenceIsSound'
    BY <1>1 DEF GalleryInv, DirectoryInv, EvidenceInv, EvidenceIsSound,
                EvidenceIsUnambiguous, GenerationNamesOnePair
  <2>4. QED
    BY <2>1, <2>2, <2>3 DEF EvidenceInv
<1>3. LeftPrepared' /\ Consistent(Base)'
  BY <1>1
  DEF GalleryInv, DirectoryInv, LeftPrepared, IsRecord, Consistent, WellFormed,
      FilesAgree, BackedUp, BackupsTrue, HoldsNew, HoldsPrevious,
      GalleryReplaced, ActiveIs, BackupIsValid
<1>4. /\ pc'[p] = "writeCandidate" /\ rec'[p] = rec[p] /\ after'[p] = after[p]
      /\ rec' = [rec EXCEPT ![p] = rec[p]]
  BY DEF Goto, GalleryInv, IndInv, TypeOK
<1>5. HeldOK(p)'
  <2>1. PICK s : s = rec[p]
    OBVIOUS
  <2>2. /\ Ready(after[p], s) /\ Succeeds(Base, s) /\ Consistent(s)
        /\ s.phase = "Prepared" => HoldsPrevious(s)
    BY <2>1 DEF GalleryInv, HeldInv, HeldOK, JournalLabels
  <2>3. (Ready(after[p], rec[p]) /\ Succeeds(Base, rec[p]))'
    BY <1>1, <1>4, <2>1, <2>2
    DEF Ready, AtRest, GalleryReplaced, StagingIsValid, BackupIsValid, HoldsNew,
        HoldsPrevious, ActiveIs, Succeeds, StartsFirst, FollowsInGeneration,
        StartsGeneration
  <2>4. (/\ Consistent(rec[p])
         /\ rec[p].phase = "Prepared" => HoldsPrevious(rec[p]))'
    BY <1>4, <2>1, <2>2
    DEF Consistent, WellFormed, FilesAgree, BackedUp, BackupsTrue, HoldsNew,
        HoldsPrevious, GalleryReplaced, ActiveIs, BackupIsValid
  <2>5. QED
    BY <1>4, <2>3, <2>4
    DEF HeldOK, JournalLabels, StagingLabels, BackupLabels, AfterPublish,
        BackupSoFar
<1>6. "writeCandidate" \in Labels \ {"idle"}
  BY DEF Labels, JournalLabels
<1>7. QED
  BY <1>2, <1>3, <1>4, <1>5, <1>6, RunningKeeps DEF DirectoryInv, Stay

\* A candidate that is in the way is never the record to be written.
LEMMA NoCandidateYet ==
  ASSUME GalleryInv, NEW p \in Proc, WriteCandidate(p)
  PROVE  candidate = Absent /\ Base = journal
<1>1. Succeeds(Base, rec[p]) /\ rec[p] \in JournalRecord
  BY RecordHeld
  DEF GalleryInv, HeldInv, HeldOK, WriteCandidate, WithRecord, JournalLabels
<1>2. ASSUME IsRecord(candidate) PROVE FALSE
  <2>1. PICK r \in JournalRecord : r = rec[p] /\ Base = r
    BY <1>1, <1>2 DEF WriteCandidate, Base, IsRecord
  <2>2. /\ r # Absent
        /\ \/ r = [r EXCEPT !.seq = r.seq + 1, !.phase = r.phase]
           \/ r.seq = r.seq + 1
    BY <1>1, <2>1, AbsentRecordAssumption
    DEF Succeeds, FollowsInGeneration, StartsGeneration
  <2>3. r.seq = r.seq + 1
    BY <2>2 DEF JournalRecord
  <2>4. QED
    BY <2>3 DEF JournalRecord
<1>3. candidate # Torn
  BY <1>1, TornAssumption DEF WriteCandidate
<1>4. QED
  BY <1>2, <1>3 DEF Base, IsRecord

LEMMA WriteCandidateKeeps ==
  ASSUME GalleryInv, IndInv', NEW p \in Proc, WriteCandidate(p)
  PROVE  GalleryInv'
<1> USE DEF WriteCandidate, directories, memory
<1>1. candidate = Absent /\ Base = journal
  BY NoCandidateYet
<1>2. PICK s \in JournalRecord : s = rec[p]
  BY RecordHeld DEF WithRecord, JournalLabels, GalleryInv
<1>3. /\ Succeeds(journal, s) /\ Consistent(s) /\ s # Absent
      /\ s.phase = "Prepared" => HoldsPrevious(s)
      /\ Ready(after[p], s)
  BY <1>1, <1>2, AbsentRecordAssumption
  DEF GalleryInv, HeldInv, HeldOK, JournalLabels
<1>4. /\ candidate' = s /\ IsRecord(candidate)' /\ Base' = s
      /\ Evidence' = Evidence \cup {s}
  BY <1>1, <1>2, <1>3, TornAssumption DEF IsRecord, Base, Evidence
<1>5. EvidenceInv'
  <2>1. /\ journal' # Torn
        /\ \A h \in history' :
              (HasJournal /\ h.seq <= journal.seq /\ h.gen <= journal.gen)'
    BY DEF GalleryInv, DirectoryInv, EvidenceInv, HasJournal
  <2>2. Succeeds(journal, candidate)'
    BY <1>3, <1>4
    DEF Succeeds, StartsFirst, FollowsInGeneration, StartsGeneration
  <2>3. EvidenceIsUnambiguous'
    <3>1. ASSUME NEW a \in Evidence' , NEW b \in Evidence', a.seq = b.seq
          PROVE  a = b
      <4>1. CASE a \in Evidence /\ b \in Evidence
        BY <3>1, <4>1 DEF GalleryInv, DirectoryInv, EvidenceInv, EvidenceIsSound,
                     EvidenceIsUnambiguous, Ambiguous
      <4>2. ASSUME NEW e \in Evidence PROVE e.seq # s.seq
        BY <1>1, <1>3, NextIsSound, EvidenceTypes DEF JournalRecord
      <4>3. QED
        BY <1>4, <3>1, <4>1, <4>2
    <3>2. QED
      BY <3>1 DEF EvidenceIsUnambiguous, Ambiguous
  <2>4. GenerationNamesOnePair'
    <3>1. ASSUME NEW a \in Evidence' , NEW b \in Evidence', a.gen = b.gen
          PROVE  a.gallery = b.gallery /\ a.state = b.state
      <4>1. CASE a \in Evidence /\ b \in Evidence
        BY <3>1, <4>1 DEF GalleryInv, DirectoryInv, EvidenceInv, EvidenceIsSound,
                     GenerationNamesOnePair
      <4>2. ASSUME NEW e \in Evidence, e.gen = s.gen
            PROVE e.gallery = s.gallery /\ e.state = s.state
        BY <1>1, <1>3, <4>2, NextIsSound
      <4>3. QED
        BY <1>4, <3>1, <4>1, <4>2
    <3>2. QED
      BY <3>1 DEF GenerationNamesOnePair
  <2>5. QED
    BY <2>1, <2>2, <2>3, <2>4 DEF EvidenceInv, EvidenceIsSound
<1>6. Consistent(s)' /\ (HoldsPrevious(s)' <=> HoldsPrevious(s))
      /\ Ready(after[p], s)'
  BY <1>3
  DEF Ready, AtRest, GalleryReplaced, StagingIsValid, BackupIsValid, HoldsNew,
      HoldsPrevious, ActiveIs, Consistent, WellFormed, FilesAgree, BackedUp,
      BackupsTrue
<1>7. DirectoryInv'
  BY <1>3, <1>4, <1>5, <1>6
  DEF DirectoryInv, LeftPrepared, HoldsPrevious, ActiveIs, Consistent,
      WellFormed, FilesAgree, BackedUp, BackupsTrue, HoldsNew, GalleryReplaced,
      BackupIsValid
<1>8. /\ pc'[p] = "replaceJournal" /\ rec'[p] = s /\ after'[p] = after[p]
      /\ rec' = [rec EXCEPT ![p] = s]
  BY <1>2 DEF Goto, GalleryInv, IndInv, TypeOK
<1>9. Ready(after[p], rec[p])'
  BY <1>6, <1>8
  DEF Ready, AtRest, GalleryReplaced, StagingIsValid, BackupIsValid, HoldsNew,
      HoldsPrevious, ActiveIs
<1>10. HeldOK(p)'
  BY <1>4, <1>8, <1>9
  DEF HeldOK, JournalLabels, StagingLabels, BackupLabels, AfterPublish,
      BackupSoFar
<1>11. "replaceJournal" \in Labels \ {"idle"}
  BY DEF Labels, JournalLabels
<1>12. QED
  BY <1>7, <1>8, <1>10, <1>11, RunningKeeps DEF Stay

\* The journal is replaced by the record the process holds.
LEMMA Replaced ==
  ASSUME GalleryInv, NEW p \in Proc, ReplaceJournal(p)
  PROVE  /\ candidate = rec[p] /\ Base = rec[p] /\ rec[p] \in JournalRecord
         /\ rec[p] \notin {Absent, Torn}
         /\ Succeeds(journal, rec[p]) /\ Consistent(rec[p])
         /\ Ready(after[p], rec[p])
         /\ after[p] \in AfterRecovery \cup AfterPublish
<1>1. candidate = rec[p] /\ rec[p] \in JournalRecord /\ Ready(after[p], rec[p])
  BY RecordHeld
  DEF GalleryInv, HeldInv, HeldOK, ReplaceJournal, WithRecord, JournalLabels
<1>2. rec[p] \notin {Absent, Torn}
  BY <1>1, AbsentRecordAssumption, TornAssumption
<1>3. after[p] \in AfterRecovery \cup AfterPublish
  BY DEF GalleryInv, IndInv, ControlOK, ControlOf, ReplaceJournal, JournalLabels
<1>4. QED
  BY <1>1, <1>2, <1>3
  DEF GalleryInv, DirectoryInv, EvidenceInv, Base, IsRecord

LEMMA ReplaceJournalKeeps ==
  ASSUME GalleryInv, IndInv', NEW p \in Proc, ReplaceJournal(p)
  PROVE  GalleryInv'
<1> USE DEF ReplaceJournal, directories, memory
<1>1. PICK s \in JournalRecord : s = rec[p]
  BY Replaced
<1>2. /\ candidate = s /\ Base = s /\ s \notin {Absent, Torn}
      /\ Succeeds(journal, s) /\ Consistent(s) /\ Ready(after[p], s)
      /\ after[p] \in AfterRecovery \cup AfterPublish
  BY <1>1, Replaced
<1>3. journal' = s /\ candidate' = Absent /\ Base' = s
  BY <1>2 DEF Base, IsRecord
<1>4. Evidence' \subseteq Evidence
  BY <1>2 DEF Evidence
<1>5. EvidenceInv'
  <2>1. ASSUME NEW h \in history
        PROVE  h.seq <= s.seq /\ h.gen <= s.gen
    <3>1. h \in Evidence
      BY DEF Evidence
    <3>2. QED
      BY <1>2, <3>1, LatestIsBase
  <2>2. EvidenceIsSound'
    BY <1>4 DEF GalleryInv, DirectoryInv, EvidenceInv, EvidenceIsSound,
                EvidenceIsUnambiguous, GenerationNamesOnePair, Ambiguous
  <2>3. QED
    BY <1>2, <1>3, <2>1, <2>2 DEF EvidenceInv, IsRecord, HasJournal
<1>6. Consistent(s)' /\ Ready(after[p], s)'
  BY <1>2
  DEF Ready, AtRest, GalleryReplaced, StagingIsValid, BackupIsValid, HoldsNew,
      HoldsPrevious, ActiveIs, Consistent, WellFormed, FilesAgree, BackedUp,
      BackupsTrue
<1>7. DirectoryInv'
  BY <1>3, <1>5, <1>6
  DEF DirectoryInv, LeftPrepared, IsRecord, HoldsPrevious, ActiveIs, Consistent,
      WellFormed, FilesAgree, BackedUp, BackupsTrue, HoldsNew, GalleryReplaced,
      BackupIsValid
<1>8. /\ pc'[p] = after[p] /\ rec'[p] = s /\ rec' = [rec EXCEPT ![p] = s]
  BY <1>1 DEF Goto, GalleryInv, IndInv, TypeOK
<1>9. Ready(pc[p], rec[p])'
  BY <1>6, <1>8
  DEF Ready, AtRest, GalleryReplaced, StagingIsValid, BackupIsValid, HoldsNew,
      HoldsPrevious, ActiveIs
<1>10. /\ after[p] \notin {"idle", "recover"} \cup JournalLabels \cup StagingLabels
       /\ after[p] \notin BackupLabels \ {"backup"}
       /\ after[p] \in Labels
  BY <1>2 DEF AfterRecovery, AfterPublish, JournalLabels, StagingLabels,
              BackupLabels, Labels, RecoveryLabels, PublishLabels
<1>11. HeldOK(p)'
  BY <1>3, <1>8, <1>9, <1>10
  DEF HeldOK, BackupSoFar, BackupLabels, JournalLabels, StagingLabels
<1>12. QED
  BY <1>7, <1>8, <1>10, <1>11, RunningKeeps DEF Stay

-----------------------------------------------------------------------------
(* build_local_gallery, after recovery.                                    *)

\* Between publications both active files are of one photo set.
LEMMA AtRestAgrees ==
  ASSUME GalleryInv, AtRest(Base) PROVE active.gallery = active.state
<1>1. CASE Base = Absent
  BY <1>1 DEF GalleryInv, DirectoryInv, Consistent, NoPair
<1>2. CASE Base # Absent
  BY <1>2, BaseConsistent
  DEF AtRest, FilesAgree, WellFormed, HoldsNew, HoldsPrevious, ActiveIs
<1>3. QED
  BY <1>1, <1>2

\* The steps that stage the new files, and the one before them.
LEMMA StagingKeeps ==
  ASSUME GalleryInv, IndInv', NEW p \in Proc,
         pc[p] \in {"scan"} \cup StagingLabels,
         NEW next \in StagingLabels, Goto(p, next),
         next = "prepare" => Verified(staging'[StagingOf(p)]),
         UNCHANGED <<journalFiles, active, backups, rec>>, Stay,
         target'[p] # active.gallery
  PROVE  GalleryInv'
<1>1. /\ rec[p] = Base /\ AtRest(Base) /\ pc[p] # "idle"
  BY Held DEF JournalLabels, StagingLabels, Ready
<1>2. DirectoryInv' /\ Base' = Base
  BY DirectoryKept DEF journalFiles
<1>3. /\ pc'[p] = next /\ rec'[p] = Base /\ rec' = [rec EXCEPT ![p] = Base]
  BY <1>1 DEF Goto, GalleryInv, IndInv, TypeOK
<1>4. Ready(pc[p], rec[p])'
  BY <1>1, <1>2, <1>3 DEF Ready, AtRest, StagingLabels, BackupLabels
<1>5. HeldOK(p)'
  <2>1. next = "prepare" => Verified(staging[StagingOf(p)])'
    BY DEF StagingOf
  <2>2. QED
    BY <1>2, <1>3, <1>4, <2>1
    DEF HeldOK, JournalLabels, StagingLabels, BackupLabels, AfterPublish,
        BackupSoFar
<1>6. next \in Labels \ {"idle"}
  BY DEF Labels, PublishLabels, StagingLabels
<1>7. QED
  BY <1>1, <1>2, <1>3, <1>5, <1>6, RunningKeeps DEF Stay

LEMMA ScanKeeps ==
  ASSUME GalleryInv, IndInv', NEW p \in Proc, Scan(p)
  PROVE  GalleryInv'
<1> USE DEF Scan, directories, journalFiles
<1>1. PICK found \in Content :
        \/ EndRun(p, "done")
        \/ /\ ~NothingToBuild(found)
           /\ target' = [target EXCEPT ![p] = found]
           /\ Goto(p, "stageGallery")
           /\ UNCHANGED <<after, rec>>
           /\ Stay
  OBVIOUS
<1>2. CASE EndRun(p, "done")
  BY <1>2, EndRunKeeps
<1>3. CASE /\ ~NothingToBuild(found)
           /\ target' = [target EXCEPT ![p] = found]
           /\ Goto(p, "stageGallery")
           /\ UNCHANGED <<after, rec>>
           /\ Stay
  <2>1. AtRest(Base)
    BY Held DEF JournalLabels, Ready
  <2>2. target'[p] = found /\ found # active.gallery
    BY <1>3, <2>1, AtRestAgrees, ContentAssumption
    DEF NothingToBuild, GalleryInv, IndInv, TypeOK
  <2>3. QED
    BY <1>3, <2>2, StagingKeeps DEF StagingLabels
<1>4. QED
  BY <1>1, <1>2, <1>3

LEMMA StageFilesKeeps ==
  ASSUME GalleryInv, IndInv', NEW p \in Proc,
         StageGallery(p) \/ StageState(p) \/ StageRecord(p)
  PROVE  GalleryInv'
<1>1. CASE StageGallery(p) \/ StageState(p)
  <2>1. /\ pc[p] \in StagingLabels
        /\ \E dir, next : /\ StageFile(p, dir, next)
                          /\ next \in StagingLabels \ {"prepare"}
    BY <1>1 DEF StageGallery, StageState, StagingLabels
  <2>2. target[p] # active.gallery
    BY <2>1 DEF GalleryInv, HeldInv, HeldOK
  <2>3. QED
    BY <2>1, <2>2, StagingKeeps DEF StageFile, memory, journalFiles
<1>2. CASE StageRecord(p)
  <2>1. PICK dir \in Directory :
           /\ dir = StagedFiles(p) /\ dir.gallery = target[p]
           /\ dir.state = target[p] /\ target[p] \in Content
    BY <1>2
    DEF StageRecord, StagedFiles, StagingLabels, StagingOf, GalleryInv, IndInv,
        ControlOK, ControlOf, TypeOK
  <2>2. PICK whole : /\ whole = [dir EXCEPT !.record = [gallery |-> dir.gallery,
                                                       state |-> dir.state]]
                     /\ StageFile(p, whole, "prepare")
    BY <1>2, <2>1 DEF StageRecord
  <2>3. whole # Absent /\ Verified(whole)
    BY <2>1, <2>2, AbsentDirectoryAssumption, ContentAssumption
    DEF Verified, Directory, Pair, File
  <2>4. StagingOf(p) \in StagingNames /\ target[p] # active.gallery
    BY <1>2
    DEF StageRecord, StagingLabels, GalleryInv, HeldInv, HeldOK, IndInv,
        ControlOK, ControlOf
  <2>5. Verified(staging'[StagingOf(p)])
    BY <2>2, <2>3, <2>4 DEF StageFile, GalleryInv, IndInv, TypeOK
  <2>6. QED
    BY <1>2, <2>2, <2>4, <2>5, StagingKeeps
    DEF StageRecord, StageFile, StagingLabels, memory, journalFiles
<1>3. QED
  BY <1>1, <1>2

\* What a publisher about to prepare holds: its next record is a legal one.
LEMMA PreparedIsNext ==
  ASSUME GalleryInv, NEW p \in Proc, pc[p] = "prepare",
         NEW r, r = PreparedRecord(p), Validates(r)
  PROVE  /\ r \in JournalRecord /\ r # Absent /\ r.phase = "Prepared"
         /\ Succeeds(Base, r) /\ Consistent(r)
         /\ HoldsPrevious(r) /\ StagingIsValid(r)
<1>1. PICK b \in JournalRecord \cup {Absent} : b = Base /\ b = rec[p]
  BY Held DEF JournalLabels
<1>2. r \in JournalRecord /\ r # Absent
  BY PreparedRecordType, AbsentRecordAssumption DEF GalleryInv
<1>3. /\ r.seq = NextSequence(b) /\ r.gen = NextGeneration(b)
      /\ r.prev = ValidGeneration(b) /\ r.phase = "Prepared"
      /\ r.gallery = StagedFiles(p).gallery /\ r.state = StagedFiles(p).state
      /\ r.prevGallery = active.gallery /\ r.prevState = active.state
  BY <1>1 DEF PreparedRecord
<1>4. r.gallery = target[p] /\ r.state = target[p]
  BY <1>3, StagedSoFar DEF GalleryInv
<1>5. target[p] # active.gallery /\ AtRest(b)
  BY <1>1, Held
  DEF JournalLabels, Ready, StagingLabels, GalleryInv, HeldInv, HeldOK
<1>6. HoldsPrevious(r) /\ active.gallery = active.state
  BY <1>1, <1>3, <1>5, ActiveExcept, AtRestAgrees DEF HoldsPrevious, ActiveIs
<1>7. StagingIsValid(r)
  <2>1. Verified(staging[StagingOf(p)])
    BY DEF GalleryInv, HeldInv, HeldOK
  <2>2. StagedFiles(p) = staging[StagingOf(p)] /\ r.gen = StagingOf(p)
    BY <1>1, <1>3, <2>1 DEF StagedFiles, StagingOf, Verified
  <2>3. QED
    BY <1>3, <2>1, <2>2 DEF StagingIsValid, Verified
<1>8. r.prev = NoGeneration <=> r.prevGallery = Absent
  BY DEF Validates
<1>9. CASE b = Absent
  <2>1. Succeeds(b, r)
    BY <1>3, <1>9
    DEF Succeeds, StartsFirst, NextSequence, NextGeneration, ValidGeneration
  <2>2. r.prev < r.gen /\ BackupsTrue(r)
    BY <1>1, <1>3, <1>9
    DEF NextGeneration, ValidGeneration, NoGeneration, BackupsTrue, GalleryInv,
        DirectoryInv, Consistent
  <2>3. QED
    BY <1>1, <1>2, <1>3, <1>4, <1>5, <1>6, <1>7, <1>8, <2>1, <2>2
    DEF Consistent, WellFormed, FilesAgree, BackedUp
<1>10. CASE b # Absent
  <2>1. /\ WellFormed(b) /\ FilesAgree(b) /\ BackupsTrue(b)
        /\ b \in JournalRecord /\ b.phase \in {"Committed", "RolledBack"}
    BY <1>1, <1>5, <1>10, BaseConsistent DEF AtRest
  <2>2. /\ r.seq = b.seq + 1 /\ r.gen = b.gen + 1
        /\ r.prev = IF b.phase = "RolledBack" THEN b.prev ELSE b.gen
    BY <1>3, <1>10 DEF NextSequence, NextGeneration, ValidGeneration
  <2>3. StartsGeneration(b, r)
    BY <1>3, <2>1, <2>2
    DEF StartsGeneration, FilesAgree, HoldsNew, HoldsPrevious, ActiveIs
  <2>4. r.prev < r.gen
    BY <2>1, <2>2 DEF WellFormed, JournalRecord, Generations, NoGeneration
  <2>5. BackupsTrue(r)
    <3>1. CASE b.phase = "RolledBack"
      BY <2>1, <2>2, <2>3, <3>1
      DEF BackupsTrue, BackupIsValid, StartsGeneration
    <3>2. CASE b.phase = "Committed"
      <4>1. /\ r.prev = b.gen /\ b.gen \in Generations
            /\ b.prev < b.gen /\ b.prev \in Nat
        BY <2>1, <2>2, <3>2
        DEF WellFormed, JournalRecord, Generations, NoGeneration
      <4>2. ASSUME NEW g \in Generations, backups[g] # Absent
            PROVE  g < b.gen
        BY <2>1, <4>1, <4>2 DEF BackupsTrue, Generations
      <4>3. backups[b.gen] = Absent
        BY <4>1, <4>2 DEF Generations
      <4>4. QED
        BY <4>1, <4>2, <4>3 DEF BackupsTrue, Verified, Generations
    <3>3. QED
      BY <2>1, <3>1, <3>2
  <2>6. QED
    BY <1>1, <1>2, <1>3, <1>4, <1>5, <1>6, <1>7, <1>8, <1>10, <2>3, <2>4, <2>5
    DEF Succeeds, Consistent, WellFormed, FilesAgree, BackedUp
<1>11. QED
  BY <1>9, <1>10

LEMMA PrepareKeeps ==
  ASSUME GalleryInv, IndInv', NEW p \in Proc, Prepare(p)
  PROVE  GalleryInv'
<1> USE DEF Prepare
<1>1. PICK r : r = PreparedRecord(p)
  OBVIOUS
<1>2. /\ r \in JournalRecord /\ r # Absent /\ r.phase = "Prepared"
      /\ Succeeds(Base, r) /\ Consistent(r)
      /\ HoldsPrevious(r) /\ StagingIsValid(r)
  BY <1>1, PreparedIsNext
<1>3. PICK next \in {"installGallery", "backup"} :
        next = IF r.prev = NoGeneration THEN "installGallery" ELSE "backup"
  OBVIOUS
<1>4. UpdateJournal(p, r, next)
  BY <1>1, <1>3
<1>5. Ready(next, r)
  BY <1>2, <1>3 DEF Ready, StagingLabels, BackupLabels
<1>6. Consistent(r)' /\ HoldsPrevious(r)' /\ Ready(next, r)'
  BY <1>2, <1>5, ReadyKept DEF directories
<1>7. Consistent(Base)' /\ LeftPrepared'
  BY DirectoryKept DEF DirectoryInv, directories, journalFiles
<1>8. QED
  BY <1>2, <1>4, <1>6, <1>7, UpdateJournalKeeps
  DEF Stay, Labels, PublishLabels

\* What a publisher past Prepared knows.
LEMMA PublisherHeld ==
  ASSUME GalleryInv, NEW p \in Proc,
         pc[p] \in BackupLabels \cup (AfterPublish \ {"cleanup"})
  PROVE  /\ rec[p] = Base /\ Base = journal /\ candidate = Absent
         /\ Base \in JournalRecord /\ Base # Absent
         /\ Ready(pc[p], Base) /\ WellFormed(Base) /\ FilesAgree(Base)
         /\ BackedUp(Base) /\ BackupsTrue(Base)
<1>1. rec[p] \in JournalRecord
  BY RecordHeld
  DEF WithRecord, AfterPublish, BackupLabels, WithBackupDirectory, GalleryInv
<1>2. rec[p] = Base /\ Ready(pc[p], Base) /\ candidate = Absent
  BY Held
  DEF GalleryInv, HeldInv, HeldOK, AfterPublish, BackupLabels, JournalLabels
<1>3. QED
  BY <1>1, <1>2, BaseConsistent, AbsentRecordAssumption DEF Base, IsRecord

LEMMA UseBackupKeeps ==
  ASSUME GalleryInv, IndInv', NEW p \in Proc, UseBackup(p)
  PROVE  GalleryInv'
<1> USE DEF UseBackup
<1>1. /\ rec[p] = Base /\ Base \in JournalRecord /\ Base # Absent
      /\ Base.phase = "Prepared" /\ HoldsPrevious(Base) /\ StagingIsValid(Base)
      /\ BackupsTrue(Base)
  BY PublisherHeld DEF BackupLabels, Ready
<1>2. Base.prev # NoGeneration
  BY <1>1 DEF GalleryInv, IndInv, ControlOK, ControlOf
<1>3. BackupIsValid(Base)
  BY <1>1, <1>2 DEF BackupsTrue
<1>4. PICK s : s = WithPhase(Base, "BackupCreated")
  OBVIOUS
<1>5. "BackupCreated" \in Phases \ {"Prepared"}
  BY DEF Phases, InFlightPhases
<1>6. FollowsInGeneration(Base, s)
  BY <1>1, <1>2, <1>4, <1>5, NextFollows
<1>7. /\ s.phase = "BackupCreated" /\ s.prev = Base.prev
      /\ HoldsPrevious(s) /\ StagingIsValid(s) /\ BackupIsValid(s)
  BY <1>1, <1>3, <1>4, <1>5, NextEntry, NextConsistent
<1>8. FilesAgree(s) /\ BackedUp(s) /\ Ready("installGallery", s)
  BY <1>2, <1>7 DEF FilesAgree, BackedUp, Ready, StagingLabels, BackupLabels
<1>9. QED
  BY <1>1, <1>4, <1>5, <1>6, <1>8, FollowUpKeeps
  DEF Stay, Labels, PublishLabels

\* A file of the backup is written; only the last of them makes it verified.
LEMMA BackupFileKeeps ==
  ASSUME GalleryInv, IndInv', NEW p \in Proc, pc[p] \in BackupLabels,
         NEW dir, NEW next \in BackupLabels, BackupFile(p, dir, next),
         Verified(dir) => dir.record = active,
         next # "backup" => dir.record = Absent,
         next \in {"backupState", "backupRecord"} =>
            dir.gallery = active.gallery,
         next = "backupRecord" => dir.state = active.state
  PROVE  GalleryInv'
<1> USE DEF BackupFile, memory
<1>1. PICK r \in JournalRecord : r = Base /\ r = rec[p]
  BY PublisherHeld
<1>2. /\ r # Absent /\ r.phase = "Prepared"
      /\ HoldsPrevious(r) /\ StagingIsValid(r)
      /\ WellFormed(r) /\ FilesAgree(r) /\ BackupsTrue(r)
      /\ candidate = Absent /\ pc[p] # "idle"
  BY <1>1, PublisherHeld DEF BackupLabels, Ready
<1>3. r.prev \in Generations
  <2>1. r.prev # NoGeneration
    BY <1>1 DEF GalleryInv, IndInv, ControlOK, ControlOf, BackupLabels,
                WithBackupDirectory
  <2>2. QED
    BY <2>1 DEF JournalRecord
<1>4. /\ backups'[r.prev] = dir
      /\ \A g \in Generations : g # r.prev => backups'[g] = backups[g]
  BY <1>1, <1>3 DEF GalleryInv, IndInv, TypeOK
<1>5. BackupsTrue(r)'
  <2>1. \A g \in Generations : backups'[g] # Absent => g <= r.prev
    BY <1>2, <1>3, <1>4 DEF BackupsTrue, Generations
  <2>2. Verified(dir) => dir.record = [gallery |-> r.prevGallery,
                                       state |-> r.prevState]
    BY <1>2 DEF HoldsPrevious, ActiveIs
  <2>3. QED
    BY <1>4, <2>1, <2>2 DEF BackupsTrue, BackupIsValid
<1>6. EvidenceInv' /\ Base' = Base
  BY EvidenceKept DEF journalFiles
<1>7. (HoldsPrevious(r) /\ StagingIsValid(r))'
  BY <1>2 DEF HoldsPrevious, ActiveIs, StagingIsValid
<1>8. DirectoryInv'
  <2>1. Consistent(r)'
    BY <1>2, <1>5, <1>7 DEF Consistent, FilesAgree, BackedUp, WellFormed
  <2>2. Consistent(Base)'
    BY <1>1, <1>6, <2>1
    DEF Consistent, WellFormed, FilesAgree, BackedUp, BackupsTrue, HoldsNew,
        HoldsPrevious, GalleryReplaced, ActiveIs, BackupIsValid
  <2>3. QED
    BY <1>2, <1>6, <2>2 DEF DirectoryInv, LeftPrepared, IsRecord, journalFiles
<1>9. /\ pc'[p] = next /\ rec'[p] = r /\ rec' = [rec EXCEPT ![p] = r]
  BY <1>1 DEF Goto, GalleryInv, IndInv, TypeOK
<1>10. Ready(pc[p], rec[p])'
  BY <1>2, <1>7, <1>9 DEF Ready, BackupLabels, StagingLabels, HoldsPrevious,
                          ActiveIs, StagingIsValid
<1>11. BackupSoFar(pc[p], rec[p])'
  BY <1>4, <1>9 DEF BackupSoFar, BackupLabels
<1>12. HeldOK(p)'
  BY <1>1, <1>2, <1>6, <1>9, <1>10, <1>11
  DEF HeldOK, JournalLabels, StagingLabels, BackupLabels, AfterPublish,
      journalFiles
<1>13. next \in Labels \ {"idle"}
  BY DEF Labels, PublishLabels, BackupLabels
<1>14. QED
  BY <1>2, <1>8, <1>9, <1>12, <1>13, RunningKeeps DEF Stay

LEMMA CreateBackupKeeps ==
  ASSUME GalleryInv, IndInv', NEW p \in Proc, CreateBackup(p)
  PROVE  GalleryInv'
<1>1. ~Verified(EmptyDirectory) /\ EmptyDirectory.record = Absent
  BY AbsentDirectoryAssumption DEF Verified, EmptyDirectory, Pair, File
<1>2. QED
  BY <1>1, BackupFileKeeps DEF CreateBackup, BackupLabels

LEMMA BackupFilesKeeps ==
  ASSUME GalleryInv, IndInv', NEW p \in Proc,
         BackupGallery(p) \/ BackupState(p) \/ BackupRecord(p)
  PROVE  GalleryInv'
<1> USE DEF BackupGallery, BackupState, BackupRecord
<1>1. PICK dir \in Directory : dir = backups[rec[p].prev]
  BY BackupDirectoryHeld, BackedUpFilesType
  DEF WithBackupDirectory, GalleryInv
<1>2. /\ dir.record = Absent
      /\ pc[p] \in {"backupState", "backupRecord"} =>
            dir.gallery = active.gallery
      /\ pc[p] = "backupRecord" => dir.state = active.state
  BY <1>1 DEF GalleryInv, HeldInv, HeldOK, BackupSoFar, BackupLabels
<1>3. ASSUME NEW d \in Directory, d.record = Absent PROVE ~Verified(d)
  BY <1>3, AbsentDirectoryAssumption DEF Verified, Directory, Pair
<1>4. active \in Pair /\ active.gallery \in File /\ active.state \in File
  BY DEF GalleryInv, IndInv, TypeOK, Pair
<1>5. CASE BackupGallery(p)
  <2>1. PICK d : d = [dir EXCEPT !.gallery = active.gallery]
    OBVIOUS
  <2>2. /\ d \in Directory /\ d.gallery = active.gallery
        /\ d.record = dir.record
    BY <1>4, <2>1 DEF Directory
  <2>3. QED
    BY <1>1, <1>2, <1>3, <1>5, <2>1, <2>2, BackupFileKeeps DEF BackupLabels
<1>6. CASE BackupState(p)
  <2>1. PICK d : d = [dir EXCEPT !.state = active.state]
    OBVIOUS
  <2>2. /\ d \in Directory /\ d.gallery = dir.gallery
        /\ d.state = active.state /\ d.record = dir.record
    BY <1>4, <2>1 DEF Directory
  <2>3. QED
    BY <1>1, <1>2, <1>3, <1>6, <2>1, <2>2, BackupFileKeeps DEF BackupLabels
<1>7. CASE BackupRecord(p)
  <2>1. PICK d : d = [dir EXCEPT !.record = active]
    OBVIOUS
  <2>2. d.record = active
    BY <2>1 DEF Directory
  <2>3. QED
    BY <1>1, <1>7, <2>1, <2>2, BackupFileKeeps DEF BackupLabels
<1>8. QED
  BY <1>5, <1>6, <1>7

\* An installation: one active file becomes the new one, and the entry that
\* says so is the next to be written.
LEMMA InstallKeeps ==
  ASSUME GalleryInv, IndInv', NEW p \in Proc,
         pc[p] \in {"installGallery", "installState"},
         NEW phase \in Phases \ {"Prepared"}, NEW next \in Labels,
         UpdateJournal(p, WithPhase(Base, phase), next),
         UNCHANGED <<journalFiles, directories>>, Stay,
         NEW s, s = WithPhase(Base, phase), FollowsInGeneration(Base, s),
         FilesAgree(s)', FilesAgree(Base)', BackedUp(s), Ready(next, s)'
  PROVE  GalleryInv'
<1>1. PICK b \in JournalRecord : b = Base
  BY PublisherHeld DEF AfterPublish
<1>2. /\ b # Absent /\ WellFormed(b) /\ BackupsTrue(b) /\ BackedUp(b)
      /\ candidate = Absent /\ pc[p] # "idle"
  BY <1>1, PublisherHeld DEF AfterPublish
<1>3. /\ s \in JournalRecord /\ s # Absent /\ s.phase = phase
      /\ WellFormed(s) /\ BackupsTrue(s)
  BY <1>1, <1>2, NextEntry, NextConsistent
<1>4. Base' = Base /\ LeftPrepared'
  BY <1>2, EvidenceKept DEF LeftPrepared, IsRecord, journalFiles
<1>5. Consistent(s)'
  BY <1>3
  DEF Consistent, WellFormed, BackedUp, BackupsTrue, BackupIsValid, directories
<1>6. Consistent(Base)'
  BY <1>1, <1>2, <1>4
  DEF Consistent, WellFormed, BackedUp, BackupsTrue, BackupIsValid, directories
<1>7. Succeeds(Base, s)
  BY <1>1, <1>2 DEF Succeeds
<1>8. QED
  BY <1>2, <1>3, <1>4, <1>5, <1>6, <1>7, UpdateJournalKeeps DEF Stay

LEMMA InstallGalleryKeeps ==
  ASSUME GalleryInv, IndInv', NEW p \in Proc, InstallGallery(p)
  PROVE  GalleryInv'
<1> USE DEF InstallGallery
<1>1. PICK r \in JournalRecord : r = Base /\ r = rec[p]
  BY PublisherHeld DEF AfterPublish
<1>2. /\ r.phase = IF r.prev = NoGeneration THEN "Prepared" ELSE "BackupCreated"
      /\ HoldsPrevious(r) /\ StagingIsValid(r) /\ BackedUp(r)
  BY <1>1, PublisherHeld DEF AfterPublish, Ready
<1>3. PICK s : s = WithPhase(r, "GalleryInstalled")
  OBVIOUS
<1>4. "GalleryInstalled" \in Phases \ {"Prepared"}
  BY DEF Phases, InFlightPhases
<1>5. FollowsInGeneration(r, s)
  BY <1>2, <1>3, <1>4, NextFollows
<1>6. /\ s.phase = "GalleryInstalled" /\ s.prev = r.prev /\ s.gen = r.gen
      /\ s.gallery = r.gallery /\ s.state = r.state
      /\ s.prevState = r.prevState
      /\ BackupIsValid(s) <=> BackupIsValid(r)
  BY <1>3, <1>4, NextEntry, NextConsistent
<1>7. active' = [gallery |-> r.gallery, state |-> r.prevState]
  BY <1>1, <1>2, StagedPair, ActiveExcept DEF HoldsPrevious, ActiveIs
<1>8. GalleryReplaced(r)' /\ GalleryReplaced(s)'
  BY <1>6, <1>7 DEF GalleryReplaced, ActiveIs
<1>9. StagingIsValid(s)'
  BY <1>2, <1>6 DEF StagingIsValid, directories
<1>10. FilesAgree(s)' /\ FilesAgree(r)' /\ BackedUp(s)
  BY <1>2, <1>6, <1>8 DEF FilesAgree, BackedUp
<1>11. FilesAgree(Base)'
  BY <1>1, <1>10, EvidenceKept
  DEF FilesAgree, HoldsNew, HoldsPrevious, GalleryReplaced, ActiveIs, journalFiles
<1>12. Ready("installState", s)'
  BY <1>6, <1>8, <1>9 DEF Ready, StagingLabels, BackupLabels
<1>13. "installState" \in Labels
  BY DEF Labels, PublishLabels
<1>14. QED
  BY <1>1, <1>3, <1>4, <1>5, <1>10, <1>11, <1>12, <1>13, InstallKeeps

LEMMA InstallStateKeeps ==
  ASSUME GalleryInv, IndInv', NEW p \in Proc, InstallState(p)
  PROVE  GalleryInv'
<1> USE DEF InstallState
<1>1. PICK r \in JournalRecord : r = Base /\ r = rec[p]
  BY PublisherHeld DEF AfterPublish
<1>2. /\ r.phase = "GalleryInstalled"
      /\ GalleryReplaced(r) /\ StagingIsValid(r) /\ BackedUp(r)
  BY <1>1, PublisherHeld DEF AfterPublish, Ready
<1>3. PICK s : s = WithPhase(r, "StateInstalled")
  OBVIOUS
<1>4. "StateInstalled" \in Phases \ {"Prepared"}
  BY DEF Phases, InFlightPhases
<1>5. FollowsInGeneration(r, s)
  BY <1>2, <1>3, <1>4, NextFollows
<1>6. /\ s.phase = "StateInstalled" /\ s.prev = r.prev
      /\ s.gallery = r.gallery /\ s.state = r.state
      /\ BackupIsValid(s) <=> BackupIsValid(r)
  BY <1>3, <1>4, NextEntry, NextConsistent
<1>7. active' = [gallery |-> r.gallery, state |-> r.state]
  BY <1>1, <1>2, StagedPair, ActiveExcept DEF GalleryReplaced, ActiveIs
<1>8. HoldsNew(r)' /\ HoldsNew(s)'
  BY <1>6, <1>7 DEF HoldsNew, ActiveIs
<1>9. FilesAgree(s)' /\ FilesAgree(r)' /\ BackedUp(s)
  BY <1>2, <1>6, <1>8 DEF FilesAgree, BackedUp
<1>10. FilesAgree(Base)'
  BY <1>1, <1>9, EvidenceKept
  DEF FilesAgree, HoldsNew, HoldsPrevious, GalleryReplaced, ActiveIs, journalFiles
<1>11. Ready("commit", s)'
  BY <1>6, <1>8 DEF Ready, StagingLabels, BackupLabels
<1>12. "commit" \in Labels
  BY DEF Labels, PublishLabels
<1>13. QED
  BY <1>1, <1>3, <1>4, <1>5, <1>9, <1>10, <1>11, <1>12, InstallKeeps

LEMMA CommitKeeps ==
  ASSUME GalleryInv, IndInv', NEW p \in Proc, Commit(p)
  PROVE  GalleryInv'
<1> USE DEF Commit
<1>1. /\ rec[p] = Base /\ Base \in JournalRecord /\ Base # Absent
      /\ Base.phase = "StateInstalled" /\ HoldsNew(Base) /\ BackedUp(Base)
  BY PublisherHeld DEF AfterPublish, Ready
<1>2. PICK s : s = WithPhase(Base, "Committed")
  OBVIOUS
<1>3. "Committed" \in Phases \ {"Prepared"}
  BY DEF Phases
<1>4. FollowsInGeneration(Base, s)
  BY <1>1, <1>2, <1>3, NextFollows
<1>5. /\ s.phase = "Committed" /\ s.prev = Base.prev /\ HoldsNew(s)
      /\ BackupIsValid(s) <=> BackupIsValid(Base)
  BY <1>1, <1>2, <1>3, NextEntry, NextConsistent
<1>6. FilesAgree(s) /\ BackedUp(s) /\ Ready("cleanup", s)
  BY <1>1, <1>5 DEF FilesAgree, BackedUp, Ready, StagingLabels, BackupLabels
<1>7. QED
  BY <1>1, <1>2, <1>3, <1>4, <1>6, FollowUpKeeps
  DEF Stay, Labels, PublishLabels

LEMMA CleanupKeeps ==
  ASSUME GalleryInv, IndInv', NEW p \in Proc, Cleanup(p)
  PROVE  GalleryInv'
BY EndRunKeeps DEF Cleanup, journalFiles

-----------------------------------------------------------------------------
(* Errors, interruptions, and every step.                                  *)

LEMMA RefuseKeeps ==
  ASSUME GalleryInv, IndInv', NEW p \in Proc, Refuse(p)
  PROVE  GalleryInv'
<1>1. pc[p] # "idle"
  BY DEF Refuse, Blocked
<1>2. QED
  BY <1>1, EndRunKeeps DEF Refuse, journalFiles, directories

LEMMA FaultKeeps ==
  ASSUME GalleryInv, IndInv', NEW p \in Proc, Fault(p)
  PROVE  GalleryInv'
<1>1. /\ history' = history
      /\ \/ candidate' = candidate
         \/ candidate = Absent /\ candidate' = Torn
      /\ \E point : FaultAt(p, point)
  BY DEF Fault, Interrupt, TearArchive, TearCandidate
<1>2. /\ pc[p] # "idle" /\ UNCHANGED <<journal, active, backups>>
      /\ \E result : EndRun(p, result)
  BY <1>1 DEF FaultAt, directories
<1>3. QED
  BY <1>1, <1>2, EndRunKeeps

LEMMA StepKeeps ==
  ASSUME GalleryInv, IndInv', NEW p \in Proc, Step(p)
  PROVE  GalleryInv'
<1>1. CASE Recovering(p)
  BY <1>1, RecoverFreshKeeps, RecoverRecordKeeps, CompleteStateKeeps,
     RestoreGalleryKeeps, RestoreStateKeeps, CommitRecoveredKeeps,
     EndRecoveryKeeps
  DEF Recovering
<1>2. CASE UpdatingJournal(p)
  BY <1>2, ArchiveKeeps, WriteCandidateKeeps, ReplaceJournalKeeps
  DEF UpdatingJournal
<1>3. CASE Publishing(p)
  BY <1>3, ScanKeeps, StageFilesKeeps, PrepareKeeps, UseBackupKeeps,
     CreateBackupKeeps, BackupFilesKeeps, InstallGalleryKeeps,
     InstallStateKeeps, CommitKeeps, CleanupKeeps
  DEF Publishing
<1>4. QED
  BY <1>1, <1>2, <1>3, RefuseKeeps DEF Step

LEMMA GalleryInit == Init => GalleryInv
<1> SUFFICES ASSUME Init PROVE GalleryInv
  OBVIOUS
<1> USE DEF Init
<1>1. IndInv
  BY InitInv
<1>2. Base = Absent /\ Evidence = {} /\ ~IsRecord(candidate)
  BY DEF Base, Evidence, IsRecord
<1>3. DirectoryInv
  BY <1>2, TornAssumption
  DEF DirectoryInv, EvidenceInv, LeftPrepared, Consistent, EvidenceIsSound,
      EvidenceIsUnambiguous, GenerationNamesOnePair, Ambiguous
<1>4. HeldInv
  BY DEF HeldInv, HeldOK, JournalLabels, StagingLabels, BackupLabels,
         AfterPublish, BackupSoFar
<1>5. OneAtATime
  BY DEF OneAtATime
<1>6. QED
  BY <1>1, <1>3, <1>4, <1>5 DEF GalleryInv

LEMMA GalleryNext ==
  ASSUME RecoverAlone
  PROVE  GalleryInv /\ [Next]_vars => GalleryInv'
<1> SUFFICES ASSUME GalleryInv, [Next]_vars PROVE GalleryInv'
  OBVIOUS
<1>1. IndInv'
  BY NextInv DEF GalleryInv
<1>2. ASSUME NEW p \in Proc, RefuseBusy(p) PROVE GalleryInv'
  BY <1>1, <1>2, UnchangedKeeps DEF RefuseBusy
<1>3. CASE UNCHANGED vars
  BY <1>1, <1>3, UnchangedKeeps DEF vars, journalFiles, directories, memory
<1>4. ASSUME NEW p \in Proc,
             \/ AcquireLock(p) \/ RefuseBusy(p) \/ StartRecover(p)
             \/ Step(p) \/ Fault(p)
      PROVE  GalleryInv'
  BY <1>1, <1>2, <1>4, AcquireLockKeeps, StartRecoverKeeps, StepKeeps, FaultKeeps
<1>5. QED
  BY <1>3, <1>4 DEF Next

LEMMA GalleryInvariance ==
  ASSUME RecoverAlone
  PROVE  Spec => []GalleryInv
BY GalleryInit, GalleryNext, PTL DEF Spec

LEMMA GalleryMatches ==
  ASSUME GalleryInv PROVE SettledJournalMatchesActive
<1> SUFFICES ASSUME HasJournal
             PROVE  /\ journal.phase = "Committed" => HoldsNew(journal)
                    /\ journal.phase = "RolledBack" => HoldsPrevious(journal)
  BY DEF SettledJournalMatchesActive
<1>1. CASE ~IsRecord(candidate)
  <2>1. Base = journal /\ Base # Absent
    BY <1>1 DEF Base, HasJournal
  <2>2. QED
    BY <2>1, BaseConsistent DEF FilesAgree
<1>2. CASE IsRecord(candidate)
  <2>1. /\ Base = candidate /\ Base # Absent
        /\ candidate.phase = "Prepared" => HoldsPrevious(candidate)
    BY <1>2
    DEF Base, GalleryInv, DirectoryInv, LeftPrepared, IsRecord
  <2>2. \/ FollowsInGeneration(journal, candidate)
        \/ StartsGeneration(journal, candidate)
    BY <1>2 DEF GalleryInv, DirectoryInv, EvidenceInv, Succeeds, HasJournal
  <2>3. QED
    BY <2>1, <2>2
    DEF FollowsInGeneration, StartsGeneration, InFlightPhases, HoldsNew,
        HoldsPrevious, ActiveIs
<1>3. QED
  BY <1>1, <1>2

\* Every reader that goes by the journal (LocalPublication::from_output, the
\* `inspect` command) finds the pair it names: no interleaving of a build, an
\* interruption and a recovery leaves a settled journal beside other files.
THEOREM JournalNamesActivePair ==
  ASSUME RecoverAlone
  PROVE  Spec => []SettledJournalMatchesActive
<1>1. GalleryInv => SettledJournalMatchesActive
  BY GalleryMatches
<1>2. QED
  BY <1>1, GalleryInvariance, PTL

\* create_and_verify_backup comes before publish_staged, and nothing between
\* them and the commit loses the pair it copied: a rollback has what it needs.
THEOREM PreviousPairKept ==
  ASSUME RecoverAlone
  PROVE  Spec => []PreviousPairSurvives
<1>1. GalleryInv => PreviousPairSurvives
  <2> SUFFICES ASSUME GalleryInv, InFlight, journal.prev # NoGeneration
               PROVE  HoldsPrevious(journal) \/ BackupIsValid(journal)
    BY DEF PreviousPairSurvives
  <2>1. /\ Base # Absent /\ FilesAgree(Base) /\ BackedUp(Base)
        /\ journal \in JournalRecord /\ Base \in JournalRecord
        /\ IsRecord(candidate) => Base = candidate
        /\ ~IsRecord(candidate) => Base = journal
    BY BaseConsistent, EvidenceTypes DEF InFlight, HasJournal, Base, IsRecord
  <2>2. /\ Base.prev = journal.prev
        /\ Base.prevGallery = journal.prevGallery
        /\ Base.prevState = journal.prevState
    <3>1. CASE IsRecord(candidate)
      <4>1. FollowsInGeneration(journal, candidate)
        BY <3>1
        DEF GalleryInv, DirectoryInv, EvidenceInv, Succeeds, InFlight,
            HasJournal, StartsGeneration, InFlightPhases
      <4>2. candidate = [journal EXCEPT !.seq = journal.seq + 1,
                                        !.phase = candidate.phase]
        BY <4>1 DEF FollowsInGeneration
      <4>3. QED
        BY <2>1, <3>1, <4>2 DEF JournalRecord
    <3>2. QED
      BY <2>1, <3>1
  <2>3. Base.phase \in {"Prepared", "RolledBack"} => HoldsPrevious(Base)
    BY <2>1, <2>2 DEF FilesAgree
  <2>4. Base.phase \notin {"Prepared", "RolledBack"} => BackupIsValid(Base)
    BY <2>1, <2>2 DEF BackedUp
  <2>5. QED
    BY <2>2, <2>3, <2>4 DEF HoldsPrevious, ActiveIs, BackupIsValid
<1>2. QED
  BY <1>1, GalleryInvariance, PTL

\* recover_publication never meets two records of one sequence that differ,
\* nor one generation number with two pairs of files.
THEOREM EvidenceSound ==
  ASSUME RecoverAlone
  PROVE  Spec => []EvidenceIsSound
<1>1. GalleryInv => EvidenceIsSound
  BY DEF GalleryInv, DirectoryInv, EvidenceInv
<1>2. QED
  BY <1>1, GalleryInvariance, PTL

-----------------------------------------------------------------------------
(* The journal's history, and the refinement of AtomicGallery.             *)

LEMMA OnlyReplaceJournal ==
  ASSUME [Next]_vars, journal' # journal
  PROVE  \E p \in Proc : ReplaceJournal(p) /\ active' = active
<1>1. PICK p \in Proc :
             \/ AcquireLock(p) \/ RefuseBusy(p) \/ StartRecover(p)
             \/ Step(p) \/ Fault(p)
  BY DEF Next, vars
<1>2. \/ Recovering(p) \/ UpdatingJournal(p) \/ Publishing(p)
  BY <1>1
  DEF Step, Refuse, Fault, Interrupt, TearArchive, TearCandidate, FaultAt,
      AcquireLock, RefuseBusy, StartRecover, journalFiles
<1>3. ~Recovering(p)
  BY DEF Recovering, RecoverFresh, RecoverRecord, CompleteState, RestoreGallery,
         RestoreState, CommitRecovered, EndRecovery, journalFiles
<1>4. ~Publishing(p)
  BY DEF Publishing, Scan, StageGallery, StageState, StageRecord, StageFile,
         Prepare, UseBackup, CreateBackup, BackupGallery, BackupState,
         BackupRecord, BackupFile, InstallGallery, InstallState, Commit, Cleanup,
         journalFiles
<1>5. QED
  BY <1>2, <1>3, <1>4
  DEF UpdatingJournal, Archive, WriteCandidate, ReplaceJournal

\* The sequence of entries is gapless and legal across every interleaving
\* and interruption the discipline allows.
THEOREM JournalAdvances ==
  ASSUME RecoverAlone
  PROVE  Spec => JournalSucceeds
<1>1. ASSUME GalleryInv, [Next]_vars, journal' # journal
      PROVE  IF journal = Absent
             THEN journal'.seq = 1 /\ journal'.prev = NoGeneration
             ELSE \/ FollowsInGeneration(journal, journal')
                  \/ StartsGeneration(journal, journal')
  <2>1. PICK p \in Proc : ReplaceJournal(p)
    BY <1>1, OnlyReplaceJournal
  <2>2. PICK s : s = journal' /\ Succeeds(journal, s)
    BY <1>1, <2>1, Replaced DEF ReplaceJournal
  <2>3. QED
    BY <2>2 DEF Succeeds, StartsFirst
<1>2. GalleryInv /\ [Next]_vars =>
        [IF journal = Absent
         THEN journal'.seq = 1 /\ journal'.prev = NoGeneration
         ELSE \/ FollowsInGeneration(journal, journal')
              \/ StartsGeneration(journal, journal')]_journal
  BY <1>1
<1>3. QED
  BY <1>1, GalleryInvariance, PTL DEF Spec, JournalSucceeds

\* What is active beside each journal.
ActiveOfJournal ==
    /\ ~HasJournal => active = NoPair
    /\ SettledJournalMatchesActive
    /\ InFlight =>
          /\ active \in [gallery : {journal.prevGallery, journal.gallery},
                         state : {journal.prevGallery, journal.gallery}]
          /\ journal.gallery \in Content

LEMMA ActiveMatches == GalleryInv => ActiveOfJournal
<1> SUFFICES ASSUME GalleryInv PROVE ActiveOfJournal
  OBVIOUS
<1>1. HasJournal => journal \in JournalRecord /\ journal # Absent
  BY EvidenceTypes DEF HasJournal
<1>2. SettledJournalMatchesActive
  BY GalleryMatches
<1>3. ASSUME ~HasJournal PROVE active = NoPair
  <2>1. journal = Absent
    BY <1>3 DEF HasJournal, GalleryInv, DirectoryInv, EvidenceInv
  <2>2. CASE IsRecord(candidate)
    <3>1. /\ Base = candidate /\ Base # Absent /\ StartsFirst(candidate)
          /\ HoldsPrevious(candidate)
      BY <2>1, <2>2
      DEF Base, IsRecord, GalleryInv, DirectoryInv, EvidenceInv, Succeeds,
          StartsFirst, LeftPrepared
    <3>2. QED
      BY <3>1, BaseConsistent
      DEF WellFormed, StartsFirst, HoldsPrevious, ActiveIs, NoPair
  <2>3. CASE ~IsRecord(candidate)
    BY <2>1, <2>3 DEF Base, GalleryInv, DirectoryInv, Consistent
  <2>4. QED
    BY <2>2, <2>3
<1>4. ASSUME InFlight
      PROVE  /\ active \in [gallery : {journal.prevGallery, journal.gallery},
                            state : {journal.prevGallery, journal.gallery}]
             /\ journal.gallery \in Content
  <2>1. HasJournal /\ journal.phase \in InFlightPhases
    BY <1>4 DEF InFlight
  <2>2. PICK b \in JournalRecord : b = Base
    BY <1>1, <2>1, EvidenceTypes DEF Base, IsRecord
  <2>3. WellFormed(b) /\ FilesAgree(b)
    BY <2>2, BaseConsistent, AbsentRecordAssumption
  <2>4. /\ b.gallery = journal.gallery /\ b.prevGallery = journal.prevGallery
        /\ b.phase \in Phases
    <3>1. CASE IsRecord(candidate)
      <4>1. FollowsInGeneration(journal, candidate)
        BY <1>1, <2>1, <3>1
        DEF GalleryInv, DirectoryInv, EvidenceInv, Succeeds, StartsGeneration,
            InFlightPhases
      <4>2. candidate = [journal EXCEPT !.seq = journal.seq + 1,
                                        !.phase = candidate.phase]
        BY <4>1 DEF FollowsInGeneration
      <4>3. b = candidate
        BY <2>2, <3>1 DEF Base
      <4>4. QED
        BY <1>1, <2>1, <4>2, <4>3 DEF JournalRecord
    <3>2. QED
      BY <2>2, <3>1 DEF Base, JournalRecord
  <2>5. HoldsPrevious(b) \/ GalleryReplaced(b) \/ HoldsNew(b)
    BY <2>3, <2>4 DEF FilesAgree, Phases, InFlightPhases
  <2>6. QED
    BY <1>1, <2>1, <2>3, <2>4, <2>5
    DEF WellFormed, HoldsPrevious, GalleryReplaced, HoldsNew, ActiveIs,
        JournalRecord
<1>5. QED
  BY <1>2, <1>3, <1>4 DEF ActiveOfJournal

\* While the journal stands still, so does what is shown, and an active file
\* only ever changes to the old or the new one of a publication in flight.
LEMMA FilesRefine ==
  ASSUME GalleryInv, ActiveOfJournal, ActiveOfJournal', journal' = journal
  PROVE  [Gallery!ANext]_(Gallery!avars)
<1> USE DEF ActiveOfJournal
<1>1. HasJournal' = HasJournal /\ InFlight' = InFlight
  BY DEF HasJournal, InFlight
<1>2. CASE InFlight
  <2>1. journal.gallery \in Content /\ journal.gallery # Absent
    BY <1>2, ContentAssumption
  <2>2. active' \in [gallery : {journal.prevGallery, journal.gallery},
                     state : {journal.prevGallery, journal.gallery}]
    BY <1>1, <1>2
  <2>3. Gallery!Install
    BY <1>1, <1>2, <2>1, <2>2
    DEF Gallery!Install, InFlight, InFlightPhases
  <2>4. QED
    BY <2>3 DEF Gallery!ANext
<1>3. CASE ~InFlight
  <2>1. HasJournal => journal.phase \in {"Committed", "RolledBack"}
    BY <1>3, EvidenceTypes DEF InFlight, HasJournal, JournalRecord, Phases
  <2>2. active' = active
    BY <1>1, <2>1
    DEF SettledJournalMatchesActive, HoldsNew, HoldsPrevious, ActiveIs
  <2>3. UNCHANGED Gallery!avars
    BY <1>1, <2>2 DEF Gallery!avars
  <2>4. QED
    BY <2>3
<1>4. QED
  BY <1>2, <1>3

\* Each entry that is written begins, continues or settles one replacement.
LEMMA EntryRefines ==
  ASSUME GalleryInv, NEW p \in Proc, ReplaceJournal(p)
  PROVE  [Gallery!ANext]_(Gallery!avars)
<1>1. PICK s \in JournalRecord : s = rec[p]
  BY Replaced
<1>2. /\ journal' = s /\ active' = active /\ s \notin {Absent, Torn}
      /\ Succeeds(journal, s) /\ WellFormed(s) /\ FilesAgree(s)
  BY <1>1, Replaced DEF ReplaceJournal, Consistent
<1>3. /\ HasJournal' /\ s.gallery \in Content /\ s.gallery # Absent
      /\ InFlight' <=> s.phase \in InFlightPhases
  BY <1>2, ContentAssumption DEF HasJournal, InFlight, JournalRecord
<1>4. HasJournal <=> journal # Absent
  BY DEF HasJournal, GalleryInv, DirectoryInv, EvidenceInv
<1>5. CASE StartsFirst(s) /\ journal = Absent
  <2>1. s.phase = "Prepared" /\ s.prevGallery = Absent
    BY <1>2, <1>5 DEF StartsFirst, WellFormed
  <2>2. Gallery!Begin
    BY <1>2, <1>3, <1>4, <1>5, <2>1
    DEF Gallery!Begin, InFlight, InFlightPhases
  <2>3. QED
    BY <2>2 DEF Gallery!ANext
<1>6. CASE StartsGeneration(journal, s) /\ journal # Absent
  <2>1. s.phase = "Prepared" /\ journal.phase \in {"Committed", "RolledBack"}
    BY <1>6 DEF StartsGeneration
  <2>2. s.prevGallery = IF journal.phase = "Committed" THEN journal.gallery
                        ELSE journal.prevGallery
    BY <1>6, <2>1 DEF StartsGeneration
  <2>3. Gallery!Begin
    BY <1>2, <1>3, <1>4, <1>6, <2>1, <2>2
    DEF Gallery!Begin, InFlight, InFlightPhases, WellFormed
  <2>4. QED
    BY <2>3 DEF Gallery!ANext
<1>7. CASE FollowsInGeneration(journal, s) /\ journal # Absent
  <2>1. journal \in JournalRecord
    BY <1>7, EvidenceTypes
  <2>2. s = [journal EXCEPT !.seq = journal.seq + 1, !.phase = s.phase]
    BY <1>7 DEF FollowsInGeneration
  <2>3. s.gallery = journal.gallery /\ s.prevGallery = journal.prevGallery
    BY <2>1, <2>2 DEF JournalRecord
  <2>4. /\ journal.phase \in InFlightPhases
        /\ s.phase \in Phases \ {"Prepared"}
    BY <1>7 DEF FollowsInGeneration, InFlightPhases, Phases
  <2>5. InFlight /\ journal.phase # "Committed"
    BY <1>4, <1>7, <2>4 DEF InFlight, InFlightPhases
  <2>6. CASE s.phase \in InFlightPhases
    <3>1. UNCHANGED Gallery!avars
      BY <1>2, <1>3, <1>4, <1>7, <2>3, <2>5, <2>6
      DEF Gallery!avars, InFlightPhases
    <3>2. QED
      BY <3>1
  <2>7. CASE s.phase = "Committed"
    <3>1. active = [gallery |-> s.gallery, state |-> s.gallery]
      BY <1>2, <2>7 DEF FilesAgree, HoldsNew, ActiveIs, WellFormed
    <3>2. Gallery!CommitNew
      BY <1>2, <1>3, <1>4, <1>7, <2>3, <2>5, <2>7, <3>1
      DEF Gallery!CommitNew, Gallery!Settle, Gallery!Both, InFlightPhases
    <3>3. QED
      BY <3>2 DEF Gallery!ANext
  <2>8. CASE s.phase = "RolledBack"
    <3>1. active = [gallery |-> s.prevGallery, state |-> s.prevGallery]
      BY <1>2, <2>8 DEF FilesAgree, HoldsPrevious, ActiveIs, WellFormed
    <3>2. Gallery!RollBack
      BY <1>2, <1>3, <1>4, <1>7, <2>3, <2>5, <2>8, <3>1
      DEF Gallery!RollBack, Gallery!Settle, Gallery!Both, InFlightPhases
    <3>3. QED
      BY <3>2 DEF Gallery!ANext
  <2>9. QED
    BY <2>4, <2>6, <2>7, <2>8 DEF Phases
<1>8. QED
  BY <1>2, <1>5, <1>6, <1>7 DEF Succeeds

\* The output directory implements AtomicGallery.
THEOREM ImplementsAtomicGallery ==
  ASSUME RecoverAlone
  PROVE  Spec => ReplacedAsAWhole
<1>1. Init => Gallery!AInit
  BY DEF Init, Gallery!AInit, Gallery!Both, HasJournal, InFlight, NoPair
<1>2. /\ GalleryInv /\ ActiveOfJournal /\ ActiveOfJournal' /\ [Next]_vars
        => [Gallery!ANext]_(Gallery!avars)
  BY FilesRefine, EntryRefines, OnlyReplaceJournal
<1>3. QED
  BY <1>1, <1>2, ActiveMatches, GalleryInvariance, PTL
  DEF Spec, ReplacedAsAWhole, Gallery!ASpec

-----------------------------------------------------------------------------
(* What an interruption leaves behind, when it may only come at the        *)
(* RecoverablePoints: a second invariant on top of GalleryInv.             *)

\* What recovery could not take up: a replacement whose backup is missing, or
\* a first publication whose journal does not say what is active.
Unfinished(r) ==
    \/ r.phase = "Prepared" /\ r.prev # NoGeneration /\ ~BackupIsValid(r)
    \/ r.phase = "Prepared" /\ r.prev = NoGeneration /\ HoldsNew(r)
    \/ r.phase = "GalleryInstalled" /\ r.prev = NoGeneration /\ ~HoldsNew(r)

Quiet == \A p \in Proc : pc[p] \in {"idle", "recover"}

\* A candidate journal is on disk only while a process is about to rename it,
\* and by then the entry it replaces is in the history.
CandidateInUse ==
    candidate # Absent => \E p \in Proc : pc[p] = "replaceJournal"
Archived ==
    /\ torn = {}
    /\ \A p \in Proc :
          pc[p] \in {"writeCandidate", "replaceJournal"} =>
              journal \in history \cup {Absent}

ChainUnbroken == Base # Absent => ChainHolds(Base, Evidence)
StagingKept ==
    Base # Absent /\ Base.phase \in InFlightPhases => StagingIsValid(Base)

\* Half a backup is one that is being made.
BackupsWhole ==
    \A g \in Generations :
        backups[g] # Absent /\ ~Verified(backups[g]) =>
            \E p \in Proc :
                pc[p] \in BackupLabels \ {"backup"} /\ rec[p].prev = g

NothingUnfinished == Quiet /\ Base # Absent => ~Unfinished(Base)

RefusedAtLimit ==
    outcome = "refused" =>
        AllIdle /\ HasJournal /\ journal.gen = MaxGeneration

RestInv ==
    /\ CandidateInUse /\ Archived /\ ChainUnbroken /\ StagingKept
    /\ BackupsWhole /\ NothingUnfinished /\ RefusedAtLimit

-----------------------------------------------------------------------------

\* What no step but those of update_journal does to the journal's files.
LEMMA OnlyUpdatingJournal ==
  ASSUME FaultPoints \subseteq RecoverablePoints, [Next]_vars,
         ~UNCHANGED journalFiles
  PROVE  \E p \in Proc : Archive(p) \/ WriteCandidate(p) \/ ReplaceJournal(p)
<1>1. PICK p \in Proc :
             \/ AcquireLock(p) \/ RefuseBusy(p) \/ StartRecover(p)
             \/ Step(p) \/ Fault(p)
  BY DEF Next, vars, journalFiles
<1>2. "tearArchive" \notin FaultPoints /\ "tearCandidate" \notin FaultPoints
  BY DEF RecoverablePoints
<1>3. \/ Recovering(p) \/ UpdatingJournal(p) \/ Publishing(p)
  BY <1>1, <1>2
  DEF Step, Refuse, Fault, Interrupt, TearArchive, TearCandidate, FaultAt,
      AcquireLock, RefuseBusy, StartRecover, journalFiles
<1>4. ~Recovering(p)
  BY DEF Recovering, RecoverFresh, RecoverRecord, CompleteState, RestoreGallery,
         RestoreState, CommitRecovered, EndRecovery, journalFiles
<1>5. ~Publishing(p)
  BY DEF Publishing, Scan, StageGallery, StageState, StageRecord, StageFile,
         Prepare, UseBackup, CreateBackup, BackupGallery, BackupState,
         BackupRecord, BackupFile, InstallGallery, InstallState, Commit, Cleanup,
         journalFiles
<1>6. QED
  BY <1>3, <1>4, <1>5 DEF UpdatingJournal

LEMMA OnlyStaging ==
  ASSUME [Next]_vars, staging' # staging
  PROVE  \E p \in Proc : 
           StageGallery(p) \/ StageState(p) \/ StageRecord(p) \/ Cleanup(p)
<1>1. PICK p \in Proc :
             \/ AcquireLock(p) \/ RefuseBusy(p) \/ StartRecover(p)
             \/ Step(p) \/ Fault(p)
  BY DEF Next, vars, directories
<1>2. ~Fault(p) /\ ~UpdatingJournal(p) /\ ~Refuse(p) /\ Step(p)
  BY <1>1
  DEF Refuse, Fault, Interrupt, TearArchive, TearCandidate, FaultAt,
      AcquireLock, RefuseBusy, StartRecover, directories, UpdatingJournal,
      Archive, WriteCandidate, ReplaceJournal
<1>3. ~Recovering(p)
  BY DEF Recovering, RecoverFresh, RecoverRecord, CompleteState, RestoreGallery,
         RestoreState, CommitRecovered, EndRecovery, directories
<1>4. Publishing(p)
  BY <1>2, <1>3 DEF Step
<1>5. QED
  BY <1>4
  DEF Publishing, Scan, Prepare, UseBackup, CreateBackup, BackupGallery,
      BackupState, BackupRecord, BackupFile, InstallGallery, InstallState,
      Commit, directories

LEMMA OnlyBackups ==
  ASSUME [Next]_vars, backups' # backups
  PROVE  \E p \in Proc : 
           \/ CreateBackup(p) \/ BackupGallery(p) \/ BackupState(p)
           \/ BackupRecord(p)
<1>1. PICK p \in Proc :
             \/ AcquireLock(p) \/ RefuseBusy(p) \/ StartRecover(p)
             \/ Step(p) \/ Fault(p)
  BY DEF Next, vars, directories
<1>2. ~Fault(p) /\ ~UpdatingJournal(p) /\ ~Refuse(p) /\ Step(p)
  BY <1>1
  DEF Refuse, Fault, Interrupt, TearArchive, TearCandidate, FaultAt,
      AcquireLock, RefuseBusy, StartRecover, directories, UpdatingJournal,
      Archive, WriteCandidate, ReplaceJournal
<1>3. ~Recovering(p)
  BY DEF Recovering, RecoverFresh, RecoverRecord, CompleteState, RestoreGallery,
         RestoreState, CommitRecovered, EndRecovery, directories
<1>4. Publishing(p)
  BY <1>2, <1>3 DEF Step
<1>5. QED
  BY <1>4
  DEF Publishing, Scan, Prepare, UseBackup, StageGallery, StageState,
      StageRecord, StageFile, InstallGallery, InstallState,
      Commit, Cleanup, directories

-----------------------------------------------------------------------------
(* What a recovery finds at rest.                                          *)

LEMMA QuietRecovers ==
  ASSUME GalleryInv, RestInv, Quiet
  PROVE  CanRecover /\ candidate = Absent
<1>1. candidate = Absent
  BY DEF RestInv, CandidateInUse, Quiet
<1>2. CASE Base = Absent
  <2>1. Evidence = {} /\ active = NoPair
    BY <1>2, LatestIsBase DEF GalleryInv, DirectoryInv, Consistent
  <2>2. QED
    BY <1>1, <2>1 DEF CanRecover, NothingToRecover
<1>3. CASE Base # Absent
  <2>1. PICK r \in JournalRecord : r = Base
    BY <1>3, EvidenceTypes
  <2>2. r \in Latest(Evidence)
    BY <1>3, <2>1, LatestIsBase DEF Latest
  <2>3. Trusted(r)
    BY <1>3, <2>1, <2>2
    DEF Trusted, RestInv, ChainUnbroken, GalleryInv, DirectoryInv, EvidenceInv,
        EvidenceIsSound, EvidenceIsUnambiguous
  <2>4. /\ WellFormed(r) /\ FilesAgree(r) /\ BackedUp(r)
        /\ r.phase \in InFlightPhases => StagingIsValid(r)
        /\ ~Unfinished(r)
    BY <1>3, <2>1, BaseConsistent
    DEF RestInv, StagingKept, NothingUnfinished, GalleryInv, DirectoryInv,
        Consistent
  <2>5. CASE r.phase \in {"Committed", "RolledBack"}
    <3>1. Settled(r)
      BY <2>4, <2>5 DEF Settled, FilesAgree, BackedUp
    <3>2. QED
      BY <1>1, <2>2, <2>3, <3>1 DEF CanRecover
  <2>6. CASE r.phase = "Prepared" /\ r.prev # NoGeneration
    <3>1. CanRestore(r)
      BY <2>4, <2>6
      DEF Unfinished, CanRestore, RollsBack, BothInstalled, InFlightPhases
    <3>2. QED
      BY <1>1, <2>2, <2>3, <3>1 DEF CanRecover
  <2>7. CASE r.phase = "Prepared" /\ r.prev = NoGeneration
    <3>1. r.prevGallery = Absent /\ r.prevState = Absent
      BY <2>4, <2>7 DEF WellFormed
    <3>2. CanAbandon(r) \/ CanComplete(r)
      BY <2>4, <2>7, <3>1
      DEF Unfinished, CanAbandon, CanComplete, RollsBack, BothInstalled,
          InFlightPhases, FilesAgree, HoldsPrevious, GalleryReplaced, ActiveIs,
          NoPair
    <3>3. QED
      BY <1>1, <2>2, <2>3, <3>2 DEF CanRecover
  <2>8. CASE r.phase \in InFlightPhases \ {"Prepared"}
    <3>1. r.prev # NoGeneration => BackupIsValid(r)
      BY <2>4, <2>8 DEF BackedUp
    <3>2. r.prev = NoGeneration => HoldsNew(r)
      BY <2>4, <2>8 DEF Unfinished, FilesAgree, InFlightPhases
    <3>3. CanPromote(r) \/ CanRestore(r)
      BY <2>4, <2>8, <3>1, <3>2
      DEF CanPromote, CanRestore, RollsBack, BothInstalled
    <3>4. QED
      BY <1>1, <2>2, <2>3, <3>3 DEF CanRecover
  <2>9. QED
    BY <2>5, <2>6, <2>7, <2>8 DEF JournalRecord, Phases
<1>4. QED
  BY <1>2, <1>3

\* A process past recovery that may be interrupted leaves nothing unfinished.
Uninterrupted(p) ==
    \/ pc[p] \in BackupLabels \cup {"replaceJournal"}
    \/ pc[p] = "installState" /\ rec[p].prev = NoGeneration
    \/ /\ pc[p] \in {"archive", "writeCandidate"}
       /\ rec[p].phase = "StateInstalled" /\ journal.phase = "Prepared"

\* With no entry on its way, the record of the directory is the journal.
LEMMA JournalIsBase ==
  ASSUME GalleryInv, RestInv, \A p \in Proc : pc[p] # "replaceJournal"
  PROVE  candidate = Absent /\ Base = journal
BY DEF RestInv, CandidateInUse, Base, IsRecord

LEMMA HoldingLeavesFinished ==
  ASSUME GalleryInv, NEW p \in Proc, Base # Absent,
         pc[p] \notin {"idle", "recover"} \cup JournalLabels,
         ~Uninterrupted(p)
  PROVE  ~Unfinished(Base)
<1>1. PICK r \in JournalRecord : r = Base /\ r = rec[p]
  BY Held, EvidenceTypes
<1>2. Ready(pc[p], r) /\ WellFormed(r) /\ FilesAgree(r)
  BY <1>1, Held, BaseConsistent
<1>3. /\ r.gallery # Absent /\ r.state # Absent
      /\ r.prev = NoGeneration => r.prevState = Absent
  BY <1>1, <1>2, ContentAssumption DEF WellFormed, JournalRecord
<1>4. CASE pc[p] \in {"recovered", "scan"} \cup StagingLabels
  BY <1>1, <1>2, <1>4 DEF Ready, AtRest, Unfinished
<1>5. CASE pc[p] = "completeState"
  BY <1>1, <1>2, <1>3, <1>5
  DEF Ready, Unfinished, GalleryReplaced, HoldsNew, ActiveIs
<1>6. CASE pc[p] \in {"restoreGallery", "restoreState"}
  BY <1>1, <1>2, <1>6 DEF Ready, Unfinished, BackupIsValid
<1>7. CASE pc[p] \in {"commitRecovered", "commit", "cleanup"}
  BY <1>1, <1>2, <1>7 DEF Ready, Unfinished
<1>8. CASE pc[p] = "installGallery"
  BY <1>1, <1>2, <1>3, <1>8
  DEF Ready, Unfinished, HoldsPrevious, HoldsNew, ActiveIs, WellFormed
<1>9. CASE pc[p] = "installState"
  BY <1>1, <1>2, <1>9 DEF Ready, Unfinished, Uninterrupted
<1>10. QED
  BY <1>4, <1>5, <1>6, <1>7, <1>8, <1>9
  DEF GalleryInv, IndInv, TypeOK, Labels, RecoveryLabels, JournalLabels,
      PublishLabels, StagingLabels, BackupLabels, Uninterrupted

LEMMA JournalingLeavesFinished ==
  ASSUME GalleryInv, RestInv, NEW p \in Proc, Base # Absent,
         pc[p] \in {"archive", "writeCandidate"}, ~Uninterrupted(p)
  PROVE  ~Unfinished(Base)
<1>1. \A q \in Proc : pc[q] # "replaceJournal"
  BY Alone
<1>2. PICK r \in JournalRecord : r = Base /\ r = journal
  BY <1>1, JournalIsBase, EvidenceTypes
<1>3. PICK s \in JournalRecord : s = rec[p]
  BY RecordHeld DEF GalleryInv, WithRecord, JournalLabels
<1>4. /\ Succeeds(r, s) /\ Ready(after[p], s) /\ Consistent(s)
      /\ after[p] \in AfterRecovery \cup AfterPublish
  BY <1>2, <1>3
  DEF GalleryInv, HeldInv, HeldOK, JournalLabels, IndInv, ControlOK, ControlOf
<1>5. WellFormed(r) /\ FilesAgree(r)
  BY <1>2, BaseConsistent
<1>6. s # Absent /\ r # Absent
  BY AbsentRecordAssumption
<1>7. WellFormed(s) /\ FilesAgree(s) /\ BackedUp(s)
  BY <1>4, <1>6 DEF Consistent
<1>8. SUFFICES ASSUME Unfinished(r) PROVE FALSE
  BY <1>2
<1>9. r.phase \in InFlightPhases /\ FollowsInGeneration(r, s)
  BY <1>4, <1>6, <1>8
  DEF Unfinished, InFlightPhases, Succeeds, StartsGeneration
<1>10. /\ s.prev = r.prev /\ s.gallery = r.gallery /\ s.state = r.state
       /\ s.prevGallery = r.prevGallery /\ s.prevState = r.prevState
       /\ s.phase \in Phases \ {"Prepared"}
  <2>1. s = [r EXCEPT !.seq = r.seq + 1, !.phase = s.phase]
    BY <1>9 DEF FollowsInGeneration
  <2>2. s.phase # "Prepared"
    BY <1>9 DEF FollowsInGeneration
  <2>3. QED
    BY <2>1, <2>2 DEF JournalRecord
<1>11. r.prev = NoGeneration
  BY <1>7, <1>8, <1>10 DEF Unfinished, BackedUp, BackupIsValid
<1>12. s.phase # "StateInstalled" \/ r.phase # "Prepared"
  BY <1>2, <1>3 DEF Uninterrupted
<1>13. s.phase # "RolledBack"
  BY <1>5, <1>7, <1>8, <1>10, <1>11
  DEF Unfinished, FilesAgree, HoldsPrevious, HoldsNew, GalleryReplaced,
      ActiveIs, WellFormed
<1>14. s.phase # "GalleryInstalled"
  <2>1. s.phase = "GalleryInstalled" => GalleryReplaced(s)
    BY <1>4, <1>6
    DEF Ready, AtRest, AfterRecovery, AfterPublish, BackupLabels
  <2>2. r.prevState = Absent /\ r.state # Absent
    BY <1>5, <1>11, ContentAssumption DEF WellFormed, JournalRecord
  <2>3. s.phase = "GalleryInstalled" => r.phase = "Prepared"
    BY <1>9, <1>11 DEF FollowsInGeneration
  <2>4. QED
    BY <1>8, <1>10, <1>11, <2>1, <2>2, <2>3
    DEF Unfinished, GalleryReplaced, HoldsNew, ActiveIs
<1>15. CASE r.phase = "Prepared"
  BY <1>9, <1>10, <1>11, <1>12, <1>13, <1>14, <1>15
  DEF FollowsInGeneration, Phases, InFlightPhases
<1>16. CASE r.phase = "GalleryInstalled"
  <2>1. s.phase = "StateInstalled"
    BY <1>9, <1>10, <1>11, <1>13, <1>16
    DEF FollowsInGeneration, Phases, InFlightPhases
  <2>2. HoldsNew(r)
    BY <1>7, <1>10, <2>1 DEF FilesAgree, HoldsNew
  <2>3. QED
    BY <1>8, <1>16, <2>2 DEF Unfinished
<1>17. QED
  BY <1>8, <1>15, <1>16 DEF Unfinished

LEMMA LeavesFinished ==
  ASSUME GalleryInv, RestInv, NEW p \in Proc, pc[p] # "idle",
         ~Uninterrupted(p), Base # Absent
  PROVE  ~Unfinished(Base)
<1>1. CASE pc[p] = "recover"
  <2>1. Quiet
    BY <1>1, Alone DEF Quiet
  <2>2. QED
    BY <2>1 DEF RestInv, NothingUnfinished
<1>2. CASE pc[p] \in JournalLabels
  BY <1>2, JournalingLeavesFinished DEF JournalLabels, Uninterrupted
<1>3. CASE pc[p] \notin {"idle", "recover"} \cup JournalLabels
  BY <1>3, HoldingLeavesFinished
<1>4. QED
  BY <1>1, <1>2, <1>3

-----------------------------------------------------------------------------
(* The errors the code raises itself.                                      *)

\* The next generation can be prepared unless its number has seven digits.
LEMMA OnlyNumbersRunOut ==
  ASSUME GalleryInv, NEW p \in Proc, pc[p] = "prepare",
         ~Validates(PreparedRecord(p))
  PROVE  Base # Absent /\ Base.gen = MaxGeneration
<1>1. PICK b \in JournalRecord \cup {Absent} : b = Base /\ b = rec[p]
  BY Held, EvidenceTypes DEF JournalLabels
<1>2. PICK r : r = PreparedRecord(p)
  OBVIOUS
<1>3. /\ r.gen = NextGeneration(b) /\ r.prev = ValidGeneration(b)
      /\ r.prevGallery = active.gallery /\ r.prevState = active.state
  BY <1>1, <1>2 DEF PreparedRecord
<1>4. AtRest(b)
  BY <1>1, Held DEF JournalLabels, Ready, StagingLabels
<1>5. CASE b = Absent
  <2>1. active = NoPair
    BY <1>1, <1>5 DEF GalleryInv, DirectoryInv, Consistent
  <2>2. r.gen = 1 /\ r.prev = NoGeneration
    BY <1>3, <1>5 DEF NextGeneration, ValidGeneration
  <2>3. Validates(r)
    BY <1>3, <2>1, <2>2, GenerationAssumption
    DEF Validates, NoPair, Generations, NoGeneration
  <2>4. QED
    BY <1>2, <2>3
<1>6. CASE b # Absent
  <2>1. /\ WellFormed(b) /\ FilesAgree(b) /\ b \in JournalRecord
        /\ b.phase \in {"Committed", "RolledBack"}
    BY <1>1, <1>4, <1>6, BaseConsistent DEF AtRest
  <2>2. /\ b.gen \in 1 .. MaxGeneration /\ b.prev \in 0 .. MaxGeneration
        /\ b.prev < b.gen /\ b.gallery # Absent /\ b.state # Absent
        /\ MaxGeneration \in Nat
    BY <2>1, ContentAssumption, GenerationAssumption
    DEF WellFormed, JournalRecord, Generations, NoGeneration
  <2>3. /\ r.gen = b.gen + 1
        /\ r.prev = IF b.phase = "RolledBack" THEN b.prev ELSE b.gen
    BY <1>3, <1>6 DEF NextGeneration, ValidGeneration
  <2>4. r.prev # r.gen
    BY <2>2, <2>3
  <2>5. \/ /\ r.prev = NoGeneration
           /\ r.prevGallery = Absent /\ r.prevState = Absent
        \/ /\ r.prev # NoGeneration
           /\ r.prevGallery # Absent /\ r.prevState # Absent
    <3>1. CASE b.phase = "Committed"
      BY <1>3, <2>1, <2>2, <2>3, <3>1
      DEF FilesAgree, HoldsNew, ActiveIs, NoGeneration
    <3>2. CASE b.phase = "RolledBack"
      BY <1>3, <2>1, <2>2, <2>3, <3>2
      DEF FilesAgree, HoldsPrevious, ActiveIs, WellFormed
    <3>3. QED
      BY <2>1, <3>1, <3>2
  <2>6. r.gen \notin Generations
    BY <1>2, <2>4, <2>5 DEF Validates
  <2>7. QED
    BY <1>1, <1>6, <2>2, <2>3, <2>6 DEF Generations
<1>7. QED
  BY <1>5, <1>6

LEMMA OnlyPrepareBlocks ==
  ASSUME GalleryInv, RestInv, NEW p \in Proc, Blocked(p)
  PROVE  /\ pc[p] = "prepare" /\ HasJournal /\ journal.gen = MaxGeneration
<1>1. pc[p] # "idle"
  BY DEF Blocked
<1>2. pc[p] # "recover"
  <2>1. pc[p] = "recover" => Quiet
    BY Alone DEF Quiet
  <2>2. QED
    BY <2>1, QuietRecovers DEF Blocked
<1>3. pc[p] # "writeCandidate"
  <2>1. pc[p] = "writeCandidate" => \A q \in Proc : pc[q] # "replaceJournal"
    BY Alone
  <2>2. QED
    BY <2>1, JournalIsBase DEF Blocked
<1>4. pc[p] # "replaceJournal"
  <2>1. pc[p] = "replaceJournal" => candidate = rec[p] /\ rec[p] # Absent
    BY RecordHeld, AbsentRecordAssumption
    DEF GalleryInv, HeldInv, HeldOK, JournalLabels, WithRecord
  <2>2. QED
    BY <2>1 DEF Blocked
<1>5. pc[p] # "backup"
  <2>1. SUFFICES ASSUME pc[p] = "backup" PROVE FALSE
    OBVIOUS
  <2>2. rec[p].prev \in Generations
    BY <2>1, RecordHeld
    DEF WithRecord, AfterPublish, GalleryInv, IndInv, ControlOK, ControlOf,
        JournalRecord
  <2>3. PICK q \in Proc : pc[q] \in BackupLabels \ {"backup"}
    BY <2>1, <2>2 DEF Blocked, RestInv, BackupsWhole
  <2>4. QED
    BY <2>1, <2>3, Alone DEF BackupLabels
<1>6. pc[p] # "backupGallery"
  <2>1. SUFFICES ASSUME pc[p] = "backupGallery" PROVE FALSE
    OBVIOUS
  <2>2. PICK r \in JournalRecord : r = Base /\ r = rec[p]
    BY <2>1, Held, RecordHeld
    DEF WithRecord, WithBackupDirectory, GalleryInv, JournalLabels
  <2>3. HoldsPrevious(r) /\ r.prev # NoGeneration /\ WellFormed(r)
    BY <2>1, <2>2, Held, BaseConsistent, AbsentRecordAssumption
    DEF Ready, BackupLabels, JournalLabels, GalleryInv, IndInv, ControlOK,
        ControlOf, WithBackupDirectory
  <2>4. QED
    BY <2>1, <2>3 DEF Blocked, HoldsPrevious, ActiveIs, WellFormed
<1>7. pc[p] \notin {"completeState", "installGallery", "installState"}
  <2>1. SUFFICES ASSUME pc[p] \in {"completeState", "installGallery",
                                   "installState"}
                 PROVE  FALSE
    OBVIOUS
  <2>2. rec[p] = Base /\ StagingIsValid(Base)
    BY <2>1, Held DEF Ready, JournalLabels
  <2>3. QED
    BY <2>1, <2>2, StagedPair DEF Blocked
<1>8. pc[p] # "commit"
  <2>1. pc[p] = "commit" => rec[p] = Base /\ HoldsNew(Base)
    BY Held DEF Ready, JournalLabels
  <2>2. QED
    BY <2>1 DEF Blocked
<1>9. pc[p] = "prepare" /\ ~Validates(PreparedRecord(p))
  BY <1>1, <1>2, <1>3, <1>4, <1>5, <1>6, <1>7, <1>8 DEF Blocked
<1>10. Base = journal /\ journal # Absent /\ journal.gen = MaxGeneration
  <2>1. \A q \in Proc : pc[q] # "replaceJournal"
    BY <1>9, Alone
  <2>2. QED
    BY <1>9, <2>1, JournalIsBase, OnlyNumbersRunOut
<1>11. QED
  BY <1>9, <1>10 DEF HasJournal, GalleryInv, DirectoryInv, EvidenceInv

-----------------------------------------------------------------------------
(* The steps after which nothing runs any more.                            *)

LEMMA FaultIsRecoverable ==
  ASSUME FaultPoints \subseteq RecoverablePoints, NEW p \in Proc, Fault(p)
  PROVE  /\ pc[p] # "idle" /\ ~Uninterrupted(p)
         /\ UNCHANGED <<journalFiles, active, directories>>
<1>1. Interrupt(p)
  BY DEF Fault, TearArchive, TearCandidate, FaultAt, RecoverablePoints
<1>2. FaultPointOf(p) \in RecoverablePoints
  BY <1>1 DEF Interrupt, FaultAt
<1>3. /\ FaultPointOf(p) \notin BackupLabels \cup {"replaceJournal"}
      /\ FaultPointOf(p) \notin {"installFirstState", "journalFirstState"}
  BY <1>2 DEF RecoverablePoints, BackupLabels
<1>4. ~Uninterrupted(p)
  BY <1>3 DEF FaultPointOf, Uninterrupted, BackupLabels
<1>5. QED
  BY <1>1, <1>4 DEF Interrupt, FaultAt, journalFiles

LEMMA QuietAfter ==
  ASSUME FaultPoints \subseteq RecoverablePoints, GalleryInv, RestInv,
         [Next]_vars, Quiet'
  PROVE  /\ UNCHANGED <<journalFiles, active, backups>>
         /\ Quiet \/ \E p \in Proc : pc[p] # "idle" /\ ~Uninterrupted(p)
<1>1. CASE UNCHANGED vars
  BY <1>1 DEF vars, journalFiles, directories, Quiet
<1>2. ASSUME NEW p \in Proc, NEW label, Goto(p, label)
      PROVE  label \in {"idle", "recover"}
  BY <1>2 DEF Goto, Quiet, GalleryInv, IndInv, TypeOK
<1>3. ASSUME NEW p \in Proc, AcquireLock(p) \/ RefuseBusy(p) \/ StartRecover(p)
      PROVE  Quiet /\ UNCHANGED <<journalFiles, active, backups>>
  <2>1. pc[p] = "idle" /\ \A q \in Proc \ {p} : pc'[q] = pc[q]
    BY <1>3
    DEF AcquireLock, RefuseBusy, StartRecover, Goto, GalleryInv, IndInv, TypeOK
  <2>2. QED
    BY <1>3, <2>1
    DEF Quiet, AcquireLock, RefuseBusy, StartRecover, directories
<1>4. ASSUME NEW p \in Proc, Recovering(p)
      PROVE  /\ UNCHANGED <<journalFiles, active, backups>>
             /\ pc[p] = "recovered"
  <2>1. EndRecovery(p)
    BY <1>2, <1>4
    DEF Recovering, RecoverFresh, RecoverRecord, RecoverSettled, RecoverInitial,
        RecoverPromote, RecoverRestore, RecoverAbandon, CompleteState,
        RestoreGallery, RestoreState, CommitRecovered, UpdateJournal
  <2>2. QED
    BY <2>1 DEF EndRecovery, directories
<1>5. ASSUME NEW p \in Proc, UpdatingJournal(p)
      PROVE  FALSE
  <2>1. ReplaceJournal(p)
    BY <1>2, <1>5 DEF UpdatingJournal, Archive, WriteCandidate
  <2>2. after[p] \in AfterRecovery \cup AfterPublish
    BY <2>1
    DEF ReplaceJournal, JournalLabels, GalleryInv, IndInv, ControlOK, ControlOf
  <2>3. QED
    BY <1>2, <2>1, <2>2 DEF ReplaceJournal, AfterRecovery, AfterPublish
<1>6. ASSUME NEW p \in Proc, Publishing(p)
      PROVE  /\ UNCHANGED <<journalFiles, active, backups>>
             /\ pc[p] \in {"scan", "cleanup"}
  <2>1. Scan(p) \/ Cleanup(p)
    BY <1>2, <1>6
    DEF Publishing, StageGallery, StageState, StageRecord, StageFile, Prepare,
        UseBackup, CreateBackup, BackupGallery, BackupState, BackupRecord,
        BackupFile, InstallGallery, InstallState, Commit, UpdateJournal
  <2>2. QED
    BY <2>1 DEF Scan, Cleanup, directories
<1>7. ASSUME NEW p \in Proc, Refuse(p)
      PROVE  /\ UNCHANGED <<journalFiles, active, backups>>
             /\ pc[p] = "prepare"
  BY <1>7, OnlyPrepareBlocks DEF Refuse, directories
<1>8. ASSUME NEW p \in Proc,
             pc[p] \in {"recovered", "scan", "cleanup", "prepare"}
      PROVE  pc[p] # "idle" /\ ~Uninterrupted(p)
  BY <1>8 DEF Uninterrupted, BackupLabels
<1>9. ASSUME NEW p \in Proc, Step(p)
      PROVE  /\ UNCHANGED <<journalFiles, active, backups>>
             /\ pc[p] # "idle" /\ ~Uninterrupted(p)
  BY <1>4, <1>5, <1>6, <1>7, <1>8, <1>9 DEF Step
<1>10. ASSUME NEW p \in Proc, Fault(p)
       PROVE  /\ UNCHANGED <<journalFiles, active, backups>>
              /\ pc[p] # "idle" /\ ~Uninterrupted(p)
  BY <1>10, FaultIsRecoverable DEF directories
<1>11. QED
  BY <1>1, <1>3, <1>9, <1>10 DEF Next

LEMMA FinishedKept ==
  ASSUME FaultPoints \subseteq RecoverablePoints, GalleryInv, RestInv,
         [Next]_vars
  PROVE  NothingUnfinished'
<1> SUFFICES ASSUME Quiet', Base' # Absent PROVE ~Unfinished(Base)'
  BY DEF NothingUnfinished
<1>1. /\ UNCHANGED <<journalFiles, active, backups>>
      /\ Quiet \/ \E p \in Proc : pc[p] # "idle" /\ ~Uninterrupted(p)
  BY QuietAfter
<1>2. PICK r : r = Base /\ r = Base'
  BY <1>1 DEF Base, IsRecord, journalFiles
<1>3. ~Unfinished(r)
  BY <1>1, <1>2, LeavesFinished DEF RestInv, NothingUnfinished
<1>4. Unfinished(r)' = Unfinished(r)
  BY <1>1 DEF Unfinished, BackupIsValid, HoldsNew, ActiveIs
<1>5. QED
  BY <1>2, <1>3, <1>4 DEF Unfinished, BackupIsValid, HoldsNew, ActiveIs

\* A refused run is the last thing that happened.
LEMMA RefusedKept ==
  ASSUME FaultPoints \subseteq RecoverablePoints, GalleryInv, RestInv,
         [Next]_vars
  PROVE  RefusedAtLimit'
<1> SUFFICES ASSUME outcome' = "refused"
             PROVE  (AllIdle /\ HasJournal /\ journal.gen = MaxGeneration)'
  BY DEF RefusedAtLimit
<1>1. CASE UNCHANGED vars
  BY <1>1
  DEF vars, journalFiles, AllIdle, HasJournal, RestInv, RefusedAtLimit
<1>2. ASSUME NEW p \in Proc, Refuse(p)
      PROVE  (AllIdle /\ HasJournal /\ journal.gen = MaxGeneration)'
  <2>1. pc[p] # "idle" /\ HasJournal /\ journal.gen = MaxGeneration
    BY <1>2, OnlyPrepareBlocks DEF Refuse
  <2>2. pc' = [pc EXCEPT ![p] = "idle"]
    BY <1>2 DEF Refuse, EndRun, Goto
  <2>3. AllIdle'
    BY <2>1, <2>2, Alone DEF AllIdle, GalleryInv, IndInv, TypeOK
  <2>4. QED
    BY <1>2, <2>1, <2>3 DEF Refuse, HasJournal, journalFiles
<1>3. ASSUME NEW p \in Proc,
             Recovering(p) \/ UpdatingJournal(p) \/ Publishing(p)
      PROVE  outcome = "refused" /\ pc[p] # "idle"
  <2>1. CASE Recovering(p)
    BY <2>1
    DEF Recovering, RecoverFresh, RecoverRecord, CompleteState, RestoreGallery,
        RestoreState, CommitRecovered, EndRecovery, Stay, EndRun
  <2>2. CASE UpdatingJournal(p)
    BY <2>2 DEF UpdatingJournal, Archive, WriteCandidate, ReplaceJournal, Stay
  <2>3. CASE Publishing(p)
    BY <2>3
    DEF Publishing, Scan, StageGallery, StageState, StageRecord, StageFile,
        Prepare, UseBackup, CreateBackup, BackupGallery, BackupState,
        BackupRecord, BackupFile, InstallGallery, InstallState, Commit, Cleanup,
        Stay, EndRun
  <2>4. QED
    BY <1>3, <2>1, <2>2, <2>3
<1>4. ASSUME NEW p \in Proc,
             \/ AcquireLock(p) \/ RefuseBusy(p) \/ StartRecover(p)
             \/ Step(p) \/ Fault(p)
      PROVE  (AllIdle /\ HasJournal /\ journal.gen = MaxGeneration)'
  <2>1. ~(AcquireLock(p) \/ RefuseBusy(p) \/ StartRecover(p) \/ Fault(p))
    BY DEF AcquireLock, RefuseBusy, StartRecover, Fault, Interrupt, TearArchive,
           TearCandidate, FaultAt, EndRun
  <2>2. CASE Refuse(p)
    BY <1>2, <2>2
  <2>3. CASE Recovering(p) \/ UpdatingJournal(p) \/ Publishing(p)
    BY <1>3, <2>3 DEF RestInv, RefusedAtLimit, AllIdle
  <2>4. QED
    BY <1>4, <2>1, <2>2, <2>3 DEF Step
<1>5. QED
  BY <1>1, <1>4 DEF Next

-----------------------------------------------------------------------------
(* The journal's files.                                                    *)

\* A process only leaves "replaceJournal" by renaming the candidate.
LEMMA CandidateKept ==
  ASSUME FaultPoints \subseteq RecoverablePoints, GalleryInv, RestInv,
         [Next]_vars
  PROVE  CandidateInUse'
<1> SUFFICES ASSUME candidate' # Absent
             PROVE  \E q \in Proc : pc'[q] = "replaceJournal"
  BY DEF CandidateInUse
<1>1. CASE \E p \in Proc : WriteCandidate(p)
  BY <1>1 DEF WriteCandidate, Goto, GalleryInv, IndInv, TypeOK
<1>2. CASE ~\E p \in Proc : WriteCandidate(p)
  <2>1. ~\E p \in Proc : ReplaceJournal(p)
    BY DEF ReplaceJournal
  <2>2. candidate' = candidate
    BY <1>2, <2>1, OnlyUpdatingJournal DEF Archive, journalFiles
  <2>3. PICK q \in Proc : pc[q] = "replaceJournal"
    BY <2>2 DEF RestInv, CandidateInUse
  <2>4. ASSUME NEW p \in Proc,
               \/ AcquireLock(p) \/ RefuseBusy(p) \/ StartRecover(p)
               \/ Step(p) \/ Fault(p)
        PROVE  pc'[q] = "replaceJournal"
    <3>1. CASE AcquireLock(p) \/ RefuseBusy(p) \/ StartRecover(p)
      BY <2>3, <3>1
      DEF AcquireLock, RefuseBusy, StartRecover, Goto, GalleryInv, IndInv,
          TypeOK
    <3>2. pc[p] # "idle" => p = q
      BY <2>3 DEF GalleryInv, OneAtATime
    <3>3. ~Fault(p)
      BY <2>3, <3>2, FaultIsRecoverable DEF Uninterrupted
    <3>4. ~Refuse(p)
      BY <2>3, <3>2, OnlyPrepareBlocks DEF Refuse, Blocked
    <3>5. ~Recovering(p)
      BY <2>3, <3>2
      DEF Recovering, RecoverFresh, RecoverRecord, CompleteState,
          RestoreGallery, RestoreState, CommitRecovered, EndRecovery
    <3>6. ~UpdatingJournal(p)
      BY <1>2, <2>1, <2>3, <3>2 DEF UpdatingJournal, Archive
    <3>7. ~Publishing(p)
      BY <2>3, <3>2
      DEF Publishing, Scan, StageGallery, StageState, StageRecord, Prepare,
          UseBackup, CreateBackup, BackupGallery, BackupState, BackupRecord,
          InstallGallery, InstallState, Commit, Cleanup
    <3>8. QED
      BY <2>4, <3>1, <3>3, <3>4, <3>5, <3>6, <3>7 DEF Step
  <2>5. QED
    BY <2>3, <2>4 DEF Next, vars
<1>3. QED
  BY <1>1, <1>2

\* A process that updates the journal began with "archive".
LEMMA EntersUpdate ==
  ASSUME GalleryInv, [Next]_vars, NEW q \in Proc,
         pc'[q] \in {"writeCandidate", "replaceJournal"}
  PROVE  pc'[q] = pc[q] \/ Archive(q) \/ WriteCandidate(q)
<1> SUFFICES ASSUME pc'[q] # pc[q], ~Archive(q), ~WriteCandidate(q)
             PROVE  FALSE
  OBVIOUS
<1>1. PICK p \in Proc :
             \/ AcquireLock(p) \/ RefuseBusy(p) \/ StartRecover(p)
             \/ Step(p) \/ Fault(p)
  BY DEF Next, vars
<1>2. ASSUME NEW label, Goto(p, label)
      PROVE  p = q /\ label \in {"writeCandidate", "replaceJournal"}
  BY <1>2 DEF Goto, GalleryInv, IndInv, TypeOK
<1>3. ~(AcquireLock(p) \/ RefuseBusy(p) \/ StartRecover(p))
  BY <1>2 DEF AcquireLock, RefuseBusy, StartRecover
<1>4. ASSUME NEW result, EndRun(p, result) PROVE FALSE
  <2>1. Goto(p, "idle")
    BY <1>4 DEF EndRun
  <2>2. QED
    BY <1>2, <2>1
<1>5. ASSUME NEW r, NEW next PROVE ~UpdateJournal(p, r, next)
  BY <1>2 DEF UpdateJournal
<1>6. ~Step(p) \/ UpdatingJournal(p)
  <2>1. ~Refuse(p)
    BY <1>4 DEF Refuse
  <2>2. ~Recovering(p)
    BY <1>2, <1>4, <1>5
    DEF Recovering, RecoverFresh, RecoverRecord, RecoverSettled,
        RecoverInitial, RecoverPromote, RecoverRestore, RecoverAbandon,
        CompleteState, RestoreGallery, RestoreState, CommitRecovered,
        EndRecovery
  <2>3. ~Publishing(p)
    BY <1>2, <1>4, <1>5
    DEF Publishing, StageGallery, StageState, StageRecord, StageFile, Prepare,
        UseBackup, CreateBackup, BackupGallery, BackupState, BackupRecord,
        BackupFile, InstallGallery, InstallState, Commit, Scan, Cleanup
  <2>4. QED
    BY <2>1, <2>2, <2>3 DEF Step
<1>7. ~Fault(p) /\ ~ReplaceJournal(p)
  <2>1. ~Fault(p)
    BY <1>4 DEF Fault, Interrupt, TearArchive, TearCandidate, FaultAt
  <2>2. ~ReplaceJournal(p)
    BY <1>2
    DEF ReplaceJournal, JournalLabels, GalleryInv, IndInv, ControlOK, ControlOf,
        AfterRecovery, AfterPublish
  <2>3. QED
    BY <2>1, <2>2
<1>8. Archive(p) \/ WriteCandidate(p)
  BY <1>1, <1>3, <1>6, <1>7 DEF UpdatingJournal
<1>9. p = q
  BY <1>2, <1>8 DEF Archive, WriteCandidate
<1>10. QED
  BY <1>8, <1>9

LEMMA ArchivesJournal ==
  ASSUME GalleryInv, RestInv, NEW p \in Proc, Archive(p)
  PROVE  journal \in history' \cup {Absent}
<1>1. CASE MustArchive
  BY <1>1 DEF Archive
<1>2. CASE ~MustArchive /\ journal # Absent
  <2>1. journal # Torn /\ journal.seq \notin torn
    BY DEF GalleryInv, DirectoryInv, EvidenceInv, RestInv, Archived
  <2>2. PICK h \in history : h.seq = journal.seq
    BY <1>2, <2>1 DEF MustArchive
  <2>3. h \in Evidence /\ journal \in Evidence
    BY <1>2, <2>1 DEF Evidence
  <2>4. h = journal
    BY <2>2, <2>3
    DEF GalleryInv, DirectoryInv, EvidenceInv, EvidenceIsSound,
        EvidenceIsUnambiguous, Ambiguous
  <2>5. QED
    BY <1>2, <2>2, <2>4 DEF Archive
<1>3. QED
  BY <1>1, <1>2

LEMMA ArchivedKept ==
  ASSUME FaultPoints \subseteq RecoverablePoints, GalleryInv, RestInv,
         [Next]_vars
  PROVE  Archived'
<1>1. torn' = {}
  BY OnlyUpdatingJournal
  DEF RestInv, Archived, Archive, WriteCandidate, ReplaceJournal, journalFiles
<1>2. ASSUME NEW q \in Proc, pc'[q] \in {"writeCandidate", "replaceJournal"}
      PROVE  journal' \in history' \cup {Absent}
  <2>1. pc[q] # "idle"
    BY <1>2, EntersUpdate DEF Archive, WriteCandidate
  <2>2. CASE \E p \in Proc : Archive(p)
    <3>1. PICK p \in Proc : Archive(p)
      BY <2>2
    <3>2. QED
      BY <3>1, ArchivesJournal DEF Archive
  <2>3. CASE \E p \in Proc : ReplaceJournal(p)
    <3>1. PICK p \in Proc : ReplaceJournal(p)
      BY <2>3
    <3>2. p = q /\ pc'[p] = after[p]
      BY <2>1, <3>1
      DEF ReplaceJournal, GalleryInv, OneAtATime, Goto, IndInv, TypeOK
    <3>3. QED
      BY <1>2, <3>1, <3>2
      DEF ReplaceJournal, JournalLabels, GalleryInv, IndInv, ControlOK,
          ControlOf, AfterRecovery, AfterPublish
  <2>4. CASE ~\E p \in Proc : Archive(p) \/ ReplaceJournal(p)
    <3>1. journal' = journal /\ history' = history
      BY <2>4, OnlyUpdatingJournal DEF WriteCandidate, journalFiles
    <3>2. pc[q] \in {"writeCandidate", "replaceJournal"}
      BY <1>2, <2>4, EntersUpdate DEF WriteCandidate
    <3>3. QED
      BY <3>1, <3>2 DEF RestInv, Archived
  <2>5. QED
    BY <2>2, <2>3, <2>4
<1>3. QED
  BY <1>1, <1>2 DEF Archived

-----------------------------------------------------------------------------
(* The chain of generations.                                               *)

\* The evidence only changes when a candidate is written.
LEMMA EvidenceSame ==
  ASSUME FaultPoints \subseteq RecoverablePoints, GalleryInv, RestInv,
         [Next]_vars, ~\E p \in Proc : WriteCandidate(p)
  PROVE  Evidence' = Evidence /\ Base' = Base
<1>1. CASE UNCHANGED journalFiles
  BY <1>1 DEF Evidence, Base, IsRecord, journalFiles
<1>2. ASSUME NEW p \in Proc, Archive(p)
      PROVE  Evidence' = Evidence /\ Base' = Base
  <2>1. history' \in {history, history \cup {journal}}
    BY <1>2 DEF Archive
  <2>2. MustArchive => journal \in Evidence
    BY DEF MustArchive, Evidence
  <2>3. QED
    BY <1>2, <2>1, <2>2 DEF Archive, Evidence, Base, IsRecord
<1>3. ASSUME NEW p \in Proc, ReplaceJournal(p)
      PROVE  Evidence' = Evidence /\ Base' = Base
  <2>1. /\ candidate = rec[p] /\ Base = rec[p] /\ IsRecord(candidate)
    BY <1>3, Replaced DEF IsRecord
  <2>2. journal \in history \cup {Absent}
    BY <1>3 DEF ReplaceJournal, RestInv, Archived
  <2>3. journal' = candidate /\ candidate' = Absent /\ history' = history
    BY <1>3 DEF ReplaceJournal
  <2>4. QED
    BY <2>1, <2>2, <2>3 DEF Evidence, Base, IsRecord
<1>4. QED
  BY <1>1, <1>2, <1>3, OnlyUpdatingJournal

\* An entry that succeeds b follows the committed generation b follows, or b
\* itself once that is committed.
LEMMA ChainGrows ==
  ASSUME GalleryInv, ChainUnbroken, NEW s \in JournalRecord, Succeeds(Base, s),
         WellFormed(s)
  PROVE  ChainHolds(s, Evidence \cup {s})
<1>1. PICK b \in JournalRecord \cup {Absent} : b = Base
  BY EvidenceTypes
<1>2. PICK e : e = Evidence
  OBVIOUS
<1>3. /\ e \subseteq JournalRecord
      /\ \A c \in e : b # Absent /\ c.seq <= b.seq
      /\ b # Absent => b \in e
      /\ \A c \in e : c.seq = b.seq => c = b
  <2>1. /\ e \subseteq JournalRecord
        /\ \A c \in e : b # Absent /\ c.seq <= b.seq
        /\ b # Absent => b \in e
    BY <1>1, <1>2, EvidenceTypes, LatestIsBase
  <2>2. ASSUME NEW c \in e, c.seq = b.seq PROVE c = b
    BY <1>1, <1>2, <2>1, <2>2
    DEF GalleryInv, DirectoryInv, EvidenceInv, EvidenceIsSound,
        EvidenceIsUnambiguous, Ambiguous
  <2>3. QED
    BY <2>1, <2>2
<1>4. CASE b = Absent
  <2>1. e = {} /\ s.prev = NoGeneration
    BY <1>1, <1>3, <1>4 DEF Succeeds, StartsFirst
  <2>2. CommittedBefore(s, {s}) = {}
    BY DEF CommittedBefore, JournalRecord
  <2>3. QED
    BY <1>2, <2>1, <2>2 DEF ChainHolds
<1>5. CASE b # Absent
  <2>1. /\ b \in JournalRecord /\ s.seq \in Nat /\ b.seq \in Nat
        /\ s.seq = b.seq + 1
        /\ FollowsInGeneration(b, s) \/ StartsGeneration(b, s)
    <3>1. FollowsInGeneration(b, s) \/ StartsGeneration(b, s)
      BY <1>1, <1>5 DEF Succeeds
    <3>2. s.seq = b.seq + 1
      BY <1>1, <1>5, <3>1
      DEF FollowsInGeneration, StartsGeneration, JournalRecord
    <3>3. QED
      BY <1>1, <1>5, <3>1, <3>2 DEF JournalRecord
  <2>2. CommittedBefore(s, e \cup {s}) = {c \in e : c.phase = "Committed"}
    <3>1. \A c \in e : c.seq < s.seq
      BY <1>3, <2>1 DEF JournalRecord
    <3>2. ~(s.seq < s.seq)
      BY <2>1
    <3>3. QED
      BY <3>1, <3>2 DEF CommittedBefore
  <2>3. CASE b.phase # "Committed"
    <3>1. CommittedBefore(s, e \cup {s}) = CommittedBefore(b, e)
      <4>1. ASSUME NEW c \in e, c.phase = "Committed" PROVE c.seq < b.seq
        <5>1. c.seq # b.seq
          BY <1>3, <2>3, <4>1
        <5>2. QED
          BY <1>3, <2>1, <5>1 DEF JournalRecord
      <4>2. QED
        BY <2>2, <4>1 DEF CommittedBefore
    <3>2. /\ s.prev = b.prev /\ s.prevGallery = b.prevGallery
          /\ s.prevState = b.prevState
      <4>1. CASE FollowsInGeneration(b, s)
        <5>1. s = [b EXCEPT !.seq = b.seq + 1, !.phase = s.phase]
          BY <4>1 DEF FollowsInGeneration
        <5>2. QED
          BY <2>1, <5>1 DEF JournalRecord
      <4>2. CASE StartsGeneration(b, s)
        BY <2>3, <4>2 DEF StartsGeneration
      <4>3. QED
        BY <2>1, <4>1, <4>2
    <3>3. ChainHolds(b, e)
      BY <1>1, <1>2, <1>5 DEF ChainUnbroken
    <3>4. QED
      BY <1>2, <3>1, <3>2, <3>3 DEF ChainHolds
  <2>4. CASE b.phase = "Committed"
    <3>1. StartsGeneration(b, s)
      BY <2>1, <2>4 DEF FollowsInGeneration, InFlightPhases
    <3>2. /\ s.prev = b.gen /\ s.prevGallery = b.gallery
          /\ s.prevState = b.state /\ b.gen # NoGeneration
      BY <2>1, <2>4, <3>1
      DEF StartsGeneration, JournalRecord, Generations, NoGeneration
    <3>3. b \in Latest(CommittedBefore(s, e \cup {s}))
      BY <1>3, <1>5, <2>2, <2>4 DEF Latest
    <3>4. QED
      BY <1>2, <3>2, <3>3 DEF ChainHolds
  <2>5. QED
    BY <2>3, <2>4
<1>6. QED
  BY <1>4, <1>5

LEMMA ChainKept ==
  ASSUME FaultPoints \subseteq RecoverablePoints, GalleryInv, RestInv,
         [Next]_vars
  PROVE  ChainUnbroken'
<1>1. CASE ~\E p \in Proc : WriteCandidate(p)
  BY <1>1, EvidenceSame DEF RestInv, ChainUnbroken
<1>2. ASSUME NEW p \in Proc, WriteCandidate(p) PROVE ChainUnbroken'
  <2>1. PICK s \in JournalRecord : s = rec[p]
    BY <1>2, RecordHeld DEF WriteCandidate, WithRecord, JournalLabels, GalleryInv
  <2>2. Succeeds(Base, s) /\ WellFormed(s) /\ s # Absent
    BY <1>2, <2>1, AbsentRecordAssumption
    DEF WriteCandidate, GalleryInv, HeldInv, HeldOK, Consistent
  <2>3. Base' = s /\ Evidence' = Evidence \cup {s}
    BY <1>2, <2>1, <2>2, NoCandidateYet, TornAssumption
    DEF WriteCandidate, Base, Evidence, IsRecord
  <2>4. PICK e : e = Evidence \cup {s}
    OBVIOUS
  <2>5. ChainHolds(s, e)
    BY <2>2, <2>4, ChainGrows DEF RestInv
  <2>6. QED
    BY <2>3, <2>4, <2>5 DEF ChainUnbroken
<1>3. QED
  BY <1>1, <1>2

-----------------------------------------------------------------------------
(* Staging and backup directories.                                         *)

\* A staging directory is written before its generation is journaled, and
\* removed when that is committed.
LEMMA StagedKept ==
  ASSUME FaultPoints \subseteq RecoverablePoints, GalleryInv, RestInv,
         [Next]_vars
  PROVE  StagingKept'
<1>1. ASSUME NEW p \in Proc, WriteCandidate(p) PROVE StagingKept'
  <2>1. PICK s \in JournalRecord : s = rec[p]
    BY <1>1, RecordHeld DEF WriteCandidate, WithRecord, JournalLabels, GalleryInv
  <2>2. /\ Succeeds(Base, s) /\ Ready(after[p], s) /\ s # Absent
        /\ after[p] \in AfterRecovery \cup AfterPublish
    BY <1>1, <2>1, AbsentRecordAssumption
    DEF WriteCandidate, GalleryInv, HeldInv, HeldOK, JournalLabels, IndInv,
        ControlOK, ControlOf
  <2>3. Base' = s /\ staging' = staging
    BY <1>1, <2>1, <2>2, NoCandidateYet, TornAssumption
    DEF WriteCandidate, Base, IsRecord, directories
  <2>4. s.phase \in InFlightPhases => StagingIsValid(s)
    <3>1. CASE s.phase = "Prepared"
      BY <2>2, <3>1
      DEF Ready, AtRest, AfterRecovery, AfterPublish, BackupLabels
    <3>2. CASE s.phase \in InFlightPhases \ {"Prepared"}
      <4>1. PICK b \in JournalRecord : b = Base /\ FollowsInGeneration(b, s)
        BY <2>2, <3>2, EvidenceTypes DEF Succeeds, StartsFirst, StartsGeneration
      <4>2. b.phase \in InFlightPhases /\ b # Absent
        BY <3>2, <4>1, AbsentRecordAssumption
        DEF FollowsInGeneration, InFlightPhases
      <4>3. StagingIsValid(b)
        BY <4>1, <4>2 DEF RestInv, StagingKept
      <4>4. s = [b EXCEPT !.seq = b.seq + 1, !.phase = s.phase]
        BY <4>1 DEF FollowsInGeneration
      <4>5. s.gen = b.gen /\ s.gallery = b.gallery /\ s.state = b.state
        BY <4>4 DEF JournalRecord
      <4>6. QED
        BY <4>3, <4>5 DEF StagingIsValid
    <3>3. QED
      BY <3>1, <3>2
  <2>5. StagingIsValid(s)' <=> StagingIsValid(s)
    BY <2>3 DEF StagingIsValid
  <2>6. QED
    BY <2>3, <2>4, <2>5 DEF StagingKept, StagingIsValid
<1>2. CASE (~\E p \in Proc : WriteCandidate(p)) /\ staging' = staging
  <2>1. Base' = Base
    BY <1>2, EvidenceSame
  <2>2. QED
    BY <1>2, <2>1 DEF RestInv, StagingKept, StagingIsValid
<1>3. CASE (~\E p \in Proc : WriteCandidate(p)) /\ staging' # staging
  <2>1. PICK p \in Proc :
               StageGallery(p) \/ StageState(p) \/ StageRecord(p) \/ Cleanup(p)
    BY <1>3, OnlyStaging
  <2>2. rec[p] = Base /\ Ready(pc[p], Base)
    BY <2>1, Held
    DEF StageGallery, StageState, StageRecord, Cleanup, JournalLabels
  <2>3. Base # Absent => Base.phase \in {"Committed", "RolledBack"}
    BY <2>1, <2>2
    DEF Ready, AtRest, StageGallery, StageState, StageRecord, Cleanup,
        StagingLabels
  <2>4. Base' = Base
    BY <1>3, EvidenceSame
  <2>5. QED
    BY <2>3, <2>4 DEF StagingKept, InFlightPhases
<1>4. QED
  BY <1>1, <1>2, <1>3

\* A process that copies the previous pair only stops when it is copied.
LEMMA CopyingGoesOn ==
  ASSUME FaultPoints \subseteq RecoverablePoints, GalleryInv, RestInv,
         [Next]_vars, NEW q \in Proc, pc[q] \in BackupLabels \ {"backup"},
         ~(BackupGallery(q) \/ BackupState(q) \/ BackupRecord(q))
  PROVE  pc'[q] = pc[q] /\ rec'[q] = rec[q]
<1>1. ASSUME NEW p \in Proc,
             \/ AcquireLock(p) \/ RefuseBusy(p) \/ StartRecover(p)
             \/ Step(p) \/ Fault(p)
      PROVE  pc'[q] = pc[q] /\ rec'[q] = rec[q]
  <2>1. CASE AcquireLock(p) \/ RefuseBusy(p) \/ StartRecover(p)
    BY <2>1
    DEF AcquireLock, RefuseBusy, StartRecover, Goto, GalleryInv, IndInv, TypeOK,
        memory, BackupLabels
  <2>2. pc[q] # "idle"
    BY DEF BackupLabels
  <2>3. pc[p] # "idle" => p = q
    BY <2>2 DEF GalleryInv, OneAtATime
  <2>4. ~Fault(p)
    BY <2>3, FaultIsRecoverable DEF Uninterrupted
  <2>5. ~Refuse(p)
    BY <2>3, OnlyPrepareBlocks DEF Refuse, Blocked, BackupLabels
  <2>6. ~Recovering(p)
    BY <2>3
    DEF Recovering, RecoverFresh, RecoverRecord, CompleteState, RestoreGallery,
        RestoreState, CommitRecovered, EndRecovery, BackupLabels
  <2>7. ~UpdatingJournal(p)
    BY <2>3
    DEF UpdatingJournal, Archive, WriteCandidate, ReplaceJournal, BackupLabels
  <2>8. ~Publishing(p)
    BY <2>3
    DEF Publishing, Scan, StageGallery, StageState, StageRecord, Prepare,
        UseBackup, CreateBackup, BackupGallery, BackupState, BackupRecord,
        InstallGallery, InstallState, Commit, Cleanup, BackupLabels
  <2>9. QED
    BY <1>1, <2>1, <2>4, <2>5, <2>6, <2>7, <2>8 DEF Step
<1>2. QED
  BY <1>1 DEF Next, vars, memory

\* record.json, the last file of a backup, describes the two before it.
LEMMA BackupComplete ==
  ASSUME GalleryInv, IndInv', NEW q \in Proc, BackupRecord(q)
  PROVE  Verified(backups'[rec[q].prev])
<1>1. rec[q].prev \in Generations /\ backups[rec[q].prev] # Absent
  BY BackupDirectoryHeld
  DEF BackupRecord, WithBackupDirectory, GalleryInv, IndInv, ControlOK,
      ControlOf, JournalRecord
<1>2. PICK dir \in Directory : dir = backups[rec[q].prev]
  BY <1>1 DEF GalleryInv, IndInv, TypeOK
<1>3. dir.gallery = active.gallery /\ dir.state = active.state
  BY <1>2
  DEF BackupRecord, GalleryInv, HeldInv, HeldOK, BackupSoFar, BackupLabels
<1>4. PICK whole : whole = [dir EXCEPT !.record = active]
  OBVIOUS
<1>5. /\ whole.record = active /\ whole.gallery = active.gallery
      /\ whole.state = active.state
  BY <1>2, <1>3, <1>4 DEF Directory
<1>6. backups'[rec[q].prev] = whole
  BY <1>1, <1>2, <1>4 DEF BackupRecord, BackupFile, GalleryInv, IndInv, TypeOK
<1>7. whole # Absent
  <2>1. active \in Pair
    BY DEF GalleryInv, IndInv, TypeOK
  <2>2. whole \in Directory
    BY <1>2, <1>4, <2>1 DEF Directory
  <2>3. QED
    BY <2>2, AbsentDirectoryAssumption
<1>8. QED
  BY <1>5, <1>6, <1>7, ActiveExcept DEF Verified

LEMMA BackupsKept ==
  ASSUME FaultPoints \subseteq RecoverablePoints, GalleryInv, RestInv, IndInv',
         [Next]_vars
  PROVE  BackupsWhole'
<1> SUFFICES ASSUME NEW g \in Generations,
                    backups'[g] # Absent, ~Verified(backups'[g])
             PROVE  \E p \in Proc : /\ pc'[p] \in BackupLabels \ {"backup"}
                                    /\ rec'[p].prev = g
  BY DEF BackupsWhole
<1>1. CASE \E q \in Proc : \/ CreateBackup(q) \/ BackupGallery(q)
                           \/ BackupState(q) \/ BackupRecord(q)
  <2>1. PICK q \in Proc : \/ CreateBackup(q) \/ BackupGallery(q)
                          \/ BackupState(q) \/ BackupRecord(q)
    BY <1>1
  <2>2. PICK dir, next : BackupFile(q, dir, next)
    BY <2>1 DEF CreateBackup, BackupGallery, BackupState, BackupRecord
  <2>3. pc[q] \in BackupLabels /\ rec' = rec
    BY <2>1, <2>2
    DEF CreateBackup, BackupGallery, BackupState, BackupRecord, BackupLabels,
        BackupFile, memory
  <2>4. CASE g # rec[q].prev
    <3>1. backups'[g] = backups[g]
      BY <2>2, <2>4 DEF BackupFile, GalleryInv, IndInv, TypeOK
    <3>2. PICK p \in Proc : pc[p] \in BackupLabels \ {"backup"}
                            /\ rec[p].prev = g
      BY <3>1 DEF RestInv, BackupsWhole
    <3>3. p = q
      BY <2>3, <3>2 DEF GalleryInv, OneAtATime, BackupLabels
    <3>4. QED
      BY <2>4, <3>2, <3>3
  <2>5. CASE g = rec[q].prev
    <3>1. ~BackupRecord(q)
      BY <2>5, BackupComplete
    <3>2. pc'[q] \in BackupLabels \ {"backup"}
      BY <2>1, <3>1
      DEF CreateBackup, BackupGallery, BackupState, BackupFile, Goto,
          BackupLabels, GalleryInv, IndInv, TypeOK
    <3>3. QED
      BY <2>3, <2>5, <3>2
  <2>6. QED
    BY <2>4, <2>5
<1>2. CASE ~\E q \in Proc : \/ CreateBackup(q) \/ BackupGallery(q)
                            \/ BackupState(q) \/ BackupRecord(q)
  <2>1. backups' = backups
    BY <1>2, OnlyBackups
  <2>2. PICK q \in Proc :
               pc[q] \in BackupLabels \ {"backup"} /\ rec[q].prev = g
    BY <2>1 DEF RestInv, BackupsWhole
  <2>3. pc'[q] = pc[q] /\ rec'[q] = rec[q]
    BY <1>2, <2>2, CopyingGoesOn
  <2>4. QED
    BY <2>2, <2>3
<1>3. QED
  BY <1>1, <1>2

-----------------------------------------------------------------------------
(* The invariant, and the two promises to whoever runs `recover`.          *)

LEMMA RestInit == Init => RestInv
<1> SUFFICES ASSUME Init PROVE RestInv
  OBVIOUS
<1>1. Base = Absent
  BY DEF Init, Base, IsRecord
<1>2. QED
  BY <1>1
  DEF Init, RestInv, CandidateInUse, Archived, ChainUnbroken, StagingKept,
      BackupsWhole, NothingUnfinished, RefusedAtLimit

LEMMA RestInvariance ==
  ASSUME RecoverAlone, FaultPoints \subseteq RecoverablePoints
  PROVE  Spec => [](GalleryInv /\ RestInv)
<1>1. Init => GalleryInv /\ RestInv
  BY GalleryInit, RestInit
<1>2. GalleryInv /\ RestInv /\ [Next]_vars => (GalleryInv /\ RestInv)'
  <2> SUFFICES ASSUME GalleryInv, RestInv, [Next]_vars
               PROVE  GalleryInv' /\ RestInv'
    OBVIOUS
  <2>1. GalleryInv'
    BY GalleryNext
  <2>2. IndInv'
    BY <2>1 DEF GalleryInv
  <2>3. /\ CandidateInUse' /\ Archived' /\ ChainUnbroken' /\ StagingKept'
        /\ BackupsWhole' /\ NothingUnfinished' /\ RefusedAtLimit'
    BY <2>2, CandidateKept, ArchivedKept, ChainKept, StagedKept, BackupsKept,
       FinishedKept, RefusedKept
  <2>4. QED
    BY <2>1, <2>3 DEF RestInv
<1>3. QED
  BY <1>1, <1>2, PTL DEF Spec

\* Interrupted as often as one likes at the points the code names, the first
\* publication's excepted, the directory is one the next recover_publication
\* decides on: its record can be settled and no candidate is in its way.
THEOREM AlwaysRecoverable ==
  ASSUME RecoverAlone, FaultPoints \subseteq RecoverablePoints
  PROVE  Spec => []StoppedIsRecoverable
<1>1. GalleryInv /\ RestInv => StoppedIsRecoverable
  <2> SUFFICES ASSUME GalleryInv, RestInv, AllIdle
               PROVE  CanRecover /\ candidate = Absent
    BY DEF StoppedIsRecoverable
  <2>1. Quiet
    BY DEF Quiet, AllIdle
  <2>2. QED
    BY <2>1, QuietRecovers
<1>2. QED
  BY <1>1, RestInvariance, PTL

\* After such interruptions no command gives up because of what it finds: of
\* all the errors the code raises itself only the seventh digit is reached.
THEOREM RefusesOnlyAtTheLimit ==
  ASSUME RecoverAlone, FaultPoints \subseteq RecoverablePoints
  PROVE  Spec => []OnlyTheLimitRefuses
<1>1. RestInv => OnlyTheLimitRefuses
  BY DEF RestInv, RefusedAtLimit, OnlyTheLimitRefuses
<1>2. QED
  BY <1>1, RestInvariance, PTL

-----------------------------------------------------------------------------
(* The builds whose outcome is published: GalleryBuild, for any photos,    *)
(* images and numbers of saves and stops.                                  *)

\* What a build works on while no photo is saved: the folder as it is.
Undisturbed ==
    /\ at = "scan" => \A x \in Photo \ unseen : scanned[x] = source[x]
    /\ at \in {"process", "copy", "preview"} => scanned = source
    /\ at \in {"copy", "preview"} => decoded.image = source[decoded.photo]

\* What the names of the files promise.
NamesHold ==
    \A c \in FileContent : /\ previews[c] \in {c, Missing}
                           /\ downloads[c] \in {c, Missing}

\* A plan is only there while it is worked off.
BuildTypes ==
    /\ BuildTypeOK
    /\ at \notin {"process", "copy", "preview"} => todo = {}

\* While no photo has been saved beside a build: so it is with the next.
BuildInv ==
    /\ BuildTypes
    /\ races = 0 => /\ Undisturbed
                    /\ NamesHold
                    /\ Verifies(published)
                    /\ at # "refused"

LEMMA ContentFacts ==
  /\ Missing \notin FileContent /\ Image \subseteq FileContent
  /\ Nothing \in Found
  /\ Named(NoGallery) = {}
  /\ \A g \in Found : \A x \in Photo :
        g[x] # Missing => g[x] \in FileContent
  /\ \A g \in Found \cup {NoGallery} : Named(g) \subseteq FileContent
BY BuildAssumption DEF FileContent, Nothing, Found, NoGallery, Named

LEMMA FirstBuild == BuildInit => BuildInv
BY ContentFacts, BuildAssumption
DEF BuildInit, BuildInv, BuildTypes, BuildTypeOK, Undisturbed,
    NamesHold, Verifies, Ended, Nothing

LEMMA BuildKeepsTypes ==
  ASSUME BuildTypes, [BuildNext]_buildVars
  PROVE  BuildTypes'
<1> USE DEF BuildTypes, BuildTypeOK
<1>1. CASE UNCHANGED buildVars
  BY <1>1 DEF buildVars, assets, build
<1>2. ASSUME NEW x \in Photo, Save(x)
      PROVE  BuildTypes'
  <2>1. source' \in Found
    BY <1>2 DEF Save, Found
  <2>2. races' \in 0 .. MaxRaces
    BY <1>2, BuildAssumption DEF Save
  <2>3. QED
    BY <1>2, <2>1, <2>2 DEF Save, assets, build
<1>3. CASE Start
  <2>1. CASE Verifies(published)
    BY <1>3, <2>1 DEF Start, Running, Ended, assets
  <2>2. CASE ~Verifies(published)
    BY <1>3, <2>2, ContentFacts
    DEF Start, EndBuild, assets, Ended, Nothing
  <2>3. QED BY <2>1, <2>2
<1>4. ASSUME NEW x \in Photo, ScanFile(x)
      PROVE  BuildTypes'
  <2>1. /\ scanned' = [scanned EXCEPT ![x] = source[x]]
        /\ at' = at /\ at = "scan" /\ unseen' \subseteq Photo
        /\ UNCHANGED <<source, previews, downloads, published, todo, decoded,
                       measured, stops, races>>
    BY <1>4 DEF ScanFile, assets
  <2>2. scanned' \in Found
    BY <2>1 DEF Found
  <2>3. QED
    BY <2>1, <2>2
<1>5. CASE MakePlan
  BY <1>5, ContentFacts
  DEF MakePlan, EndBuild, Changed, assets, Ended, Nothing
<1>6. ASSUME NEW x \in Photo, Decode(x)
      PROVE  BuildTypes'
  BY <1>6, ContentFacts DEF Decode, EndBuild, assets, Ended, Nothing
<1>7. CASE Copy
  BY <1>7, ContentFacts
  DEF Copy, EndBuild, FileName, assets, build, Ended, Nothing,
      Found
<1>8. CASE MakePreview
  <2>1. /\ UNCHANGED <<source, downloads, published, scanned, unseen, stops,
                       races>>
        /\ at = "preview" /\ at' = "process"
        /\ todo' \subseteq todo
        /\ decoded' = [photo |-> Missing, image |-> Missing]
    BY <1>8 DEF MakePreview
  <2>2. previews' \in [FileContent -> Image \cup {Missing}]
    BY <1>8 DEF MakePreview, FileName
  <2>3. measured' \in [Photo -> Sizes \cup {Missing}]
    <3>1. decoded.image \in Image
      BY <2>1
    <3>2. Upright[decoded.image] \in Sizes
      BY <3>1 DEF Sizes
    <3>3. QED
      BY <1>8, <3>2 DEF MakePreview
  <2>4. QED
    BY <2>1, <2>2, <2>3
<1>9. CASE Stage
  BY <1>9, ContentFacts DEF Stage, EndBuild, assets, Ended, Nothing
<1>10. CASE Stop
  BY <1>10, ContentFacts, BuildAssumption
  DEF Stop, EndBuild, assets, Ended, Nothing
<1>11. QED
  BY <1>1, <1>2, <1>3, <1>4, <1>5, <1>6, <1>7, <1>8, <1>9, <1>10
  DEF BuildNext, BuildStep

\* Of the files that a gallery names, only a copy takes one away.
LEMMA Breaks ==
  ASSUME BuildTypeOK, [BuildNext]_buildVars,
         Verifies(published), ~Verifies(published)'
  PROVE  /\ at = "copy"
         /\ source[decoded.photo] # scanned[decoded.photo]
         /\ scanned[decoded.photo] \in Named(published)
<1>1. published' = published
  <2>1. CASE Stage
    <3>1. CASE Verifies(scanned) /\ SizesAgree
      <4>1. published' = scanned /\ UNCHANGED assets
        BY <2>1, <3>1 DEF Stage
      <4>2. QED
        BY <3>1, <4>1 DEF Verifies, assets
    <3>2. QED
      BY <2>1, <3>1 DEF Stage
  <2>2. QED
    BY <2>1
    DEF BuildNext, BuildStep, buildVars, Save, Stop, Start, ScanFile,
        MakePlan, Decode, Copy, MakePreview
<1>2. PICK c \in Named(published) : previews'[c] = Missing \/ downloads'[c] # c
  BY <1>1 DEF Verifies
<1>3. c \in FileContent /\ previews[c] # Missing /\ downloads[c] = c
  BY <1>2, ContentFacts DEF Verifies, BuildTypeOK
<1>4. CASE MakePreview
  <2>1. UNCHANGED downloads /\ previews'[c] = previews[c]
    BY <1>3, <1>4 DEF MakePreview, BuildTypeOK
  <2>2. QED
    BY <1>2, <1>3, <2>1
<1>5. CASE Copy
  <2>1. /\ at = "copy" /\ UNCHANGED previews
        /\ decoded.photo \in todo /\ scanned[decoded.photo] \in FileContent
    BY <1>5, ContentFacts DEF Copy, BuildTypeOK
  <2>2. downloads'[c] # downloads[c]
    BY <1>2, <1>3, <2>1
  <2>3. downloads' = [downloads EXCEPT ![scanned[decoded.photo]] =
                                          source[decoded.photo]]
    BY <1>5, <2>2 DEF Copy, FileName
  <2>4. c = scanned[decoded.photo] /\ downloads'[c] = source[decoded.photo]
    BY <1>3, <2>2, <2>3 DEF BuildTypeOK
  <2>5. QED
    BY <1>2, <1>3, <2>1, <2>2, <2>4
<1>6. CASE ~MakePreview /\ ~Copy
  <2>1. UNCHANGED assets
    BY <1>6
    DEF BuildNext, BuildStep, buildVars, Save, Stop, Start, ScanFile,
        MakePlan, Decode, Stage
  <2>2. QED
    BY <1>2, <1>3, <2>1 DEF assets
<1>7. QED
  BY <1>4, <1>5, <1>6

LEMMA BuildKeeps ==
  ASSUME BuildInv, [BuildNext]_buildVars
  PROVE  BuildInv'
<1> SUFFICES ASSUME races' = 0
             PROVE  /\ Undisturbed' /\ NamesHold'
                    /\ Verifies(published)' /\ (at # "refused")'
  BY BuildKeepsTypes DEF BuildInv
<1>1. BuildTypeOK /\ BuildTypeOK'
  BY BuildKeepsTypes DEF BuildInv, BuildTypes
<1>2. races = 0
  BY <1>1
  DEF BuildTypeOK, BuildNext, BuildStep, buildVars, Save, Start, ScanFile,
      MakePlan, Decode, Copy, MakePreview, Stage, Stop
<1>3. /\ Undisturbed /\ NamesHold /\ Verifies(published) /\ at # "refused"
  BY <1>2 DEF BuildInv
<1>4. Verifies(published)'
  <2> SUFFICES ASSUME ~Verifies(published)'
               PROVE  FALSE
    OBVIOUS
  <2>1. at = "copy" /\ source[decoded.photo] # scanned[decoded.photo]
    BY <1>1, <1>3, Breaks
  <2>2. QED
    BY <1>3, <2>1 DEF Undisturbed
<1>5. NamesHold'
  <2>1. CASE Copy
    <3>1. /\ at = "copy" /\ UNCHANGED previews /\ scanned = source
          /\ decoded.photo \in todo
          /\ downloads' = downloads
             \/ downloads' = [downloads EXCEPT ![scanned[decoded.photo]] =
                                                   source[decoded.photo]]
      BY <1>1, <1>3, <2>1 DEF Copy, FileName, BuildTypeOK, Undisturbed
    <3>2. QED
      BY <1>1, <1>3, <3>1 DEF NamesHold, BuildTypeOK
  <2>2. CASE MakePreview
    <3>1. /\ at = "preview" /\ UNCHANGED downloads
          /\ decoded.image = scanned[decoded.photo]
          /\ previews' = previews
             \/ previews' = [previews EXCEPT ![scanned[decoded.photo]] =
                                                 decoded.image]
      BY <1>3, <2>2 DEF MakePreview, FileName, Undisturbed
    <3>2. QED
      BY <1>1, <1>3, <3>1 DEF NamesHold, BuildTypeOK
  <2>3. CASE ~Copy /\ ~MakePreview
    <3>1. UNCHANGED assets
      BY <2>3
      DEF BuildNext, BuildStep, buildVars, Save, Stop, Start, ScanFile,
          MakePlan, Decode, Stage
    <3>2. QED
      BY <1>3, <3>1 DEF NamesHold, assets
  <2>4. QED
    BY <2>1, <2>2, <2>3
<1>6. (at # "refused")'
  BY <1>3
  DEF BuildNext, BuildStep, buildVars, Save, Start, ScanFile, MakePlan,
      Decode, Copy, MakePreview, Stage, Stop, EndBuild, build
<1>7. Undisturbed'
  <2>1. CASE UNCHANGED buildVars
    BY <1>3, <2>1 DEF buildVars, build, Undisturbed
  <2>2. ASSUME NEW x \in Photo, Save(x)
        PROVE  Undisturbed'
    <3>1. ~Running /\ UNCHANGED at
      BY <1>1, <1>2, <2>2 DEF Save, BuildTypeOK
    <3>2. QED
      BY <1>1, <3>1 DEF Running, Ended, Undisturbed
  <2>3. CASE Start
    BY <1>3, <2>3 DEF Start, Undisturbed
  <2>4. ASSUME NEW x \in Photo, ScanFile(x)
        PROVE  Undisturbed'
    BY <1>1, <1>3, <2>4 DEF ScanFile, Undisturbed, BuildTypeOK, Found
  <2>5. CASE MakePlan
    <3>1. at = "scan" /\ unseen = {} /\ UNCHANGED source
      BY <2>5 DEF MakePlan
    <3>2. scanned = source
      BY <1>1, <1>3, <3>1 DEF Undisturbed, BuildTypeOK, Found
    <3>3. QED
      BY <2>5, <3>1, <3>2 DEF MakePlan, EndBuild, Undisturbed
  <2>6. ASSUME NEW x \in Photo, Decode(x)
        PROVE  Undisturbed'
    BY <1>1, <1>3, <2>6 DEF Decode, EndBuild, Undisturbed
  <2>7. CASE Copy
    BY <1>1, <1>3, <2>7 DEF Copy, EndBuild, build, Undisturbed
  <2>8. CASE MakePreview
    BY <1>3, <2>8 DEF MakePreview, Undisturbed
  <2>9. CASE Stage \/ Stop
    BY <2>9 DEF Stage, Stop, EndBuild, Undisturbed
  <2>10. QED
    BY <2>1, <2>2, <2>3, <2>4, <2>5, <2>6, <2>7, <2>8, <2>9 DEF BuildNext, BuildStep
<1>8. QED
  BY <1>4, <1>5, <1>6, <1>7

-----------------------------------------------------------------------------

\* Every state of a build has the declared shape, for any photos and images.
THEOREM BuildTypeCorrect == BuildSpec => []BuildTypeOK
<1>1. BuildInit => BuildTypes
  BY FirstBuild DEF BuildInv
<1>2. BuildTypes /\ [BuildNext]_buildVars => BuildTypes'
  BY BuildKeepsTypes
<1>3. BuildTypes => BuildTypeOK
  BY DEF BuildTypes
<1>4. QED
  BY <1>1, <1>2, <1>3, PTL DEF BuildSpec

\* As long as no photo is saved while a build runs, every preview and download
\* shows what the digest in its name stands for, and no build is turned away
\* for the gallery that is active: however many builds were cut off, and
\* whatever they had left in the directory that nothing cleans up.
THEOREM AssetsTrue == BuildSpec => []AssetsAreTheirContent
<1>1. BuildInv /\ [BuildNext]_buildVars => BuildInv'
  BY BuildKeeps
<1>2. BuildInv => AssetsAreTheirContent
  BY DEF BuildInv, NamesHold, AssetsAreTheirContent
<1>3. QED
  BY <1>1, <1>2, FirstBuild, PTL DEF BuildSpec

\* With the photographer saving at any moment, the only step that can take a
\* file from an active gallery is the copy of a photo saved since the scan,
\* under a digest that the gallery names already.
THEOREM OnlyARaceBreaks == BuildSpec => BrokenOnlyByARace
<1>1. BuildTypeOK /\ [BuildNext]_buildVars =>
        [(Verifies(published) /\ ~Verifies(published)') =>
          /\ at = "copy"
          /\ source[decoded.photo] # scanned[decoded.photo]
          /\ scanned[decoded.photo] \in Named(published)]_buildVars
  BY Breaks
<1>2. QED
  BY <1>1, BuildTypeCorrect, PTL DEF BuildSpec, BrokenOnlyByARace

=============================================================================
