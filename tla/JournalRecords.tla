--------------------------- MODULE JournalRecords ---------------------------
(***************************************************************************)
(* The records the local pipeline keeps on disk and the questions it asks  *)
(* of them: crates/publisher-pipeline/src/journal.rs and the pure helpers  *)
(* of crates/publisher-pipeline/src/lib.rs.                                *)
(*                                                                         *)
(* A build of one photo set yields one gallery.json and one state.json.    *)
(* Both are functions of the photo set, and SHA-256 is taken to be free of *)
(* collisions, so a member of Content stands for the photo set, for the    *)
(* bytes of either file and for the digest of either file.                 *)
(***************************************************************************)
EXTENDS Naturals

CONSTANTS
    Content,       \* the photo sets the source directory may hold
    Absent,        \* the value of a file, or an Option, that is not there
    MaxGeneration  \* largest number six digits can write (999999 in the code)

ASSUME ContentAssumption == Content # {} /\ Absent \notin Content
ASSUME GenerationAssumption == MaxGeneration \in Nat \ {0}

-----------------------------------------------------------------------------

Generations == 1 .. MaxGeneration
NoGeneration == 0
File == Content \cup {Absent}

\* The active pair: gallery.json and .publisher/state.json.
Pair == [gallery : File, state : File]
NoPair == [gallery |-> Absent, state |-> Absent]

InFlightPhases ==
    {"Prepared", "BackupCreated", "GalleryInstalled", "StateInstalled"}
Phases == InFlightPhases \cup {"Committed", "RolledBack"}

JournalRecord ==
    [seq : Nat, gen : Generations, prev : Generations \cup {NoGeneration},
     phase : Phases, gallery : Content, state : Content,
     prevGallery : File, prevState : File]

ASSUME AbsentRecordAssumption == Absent \notin JournalRecord

\* A staging or backup directory: the two files and the record.json that
\* binds their digests, which is always the last of the three to be written.
Directory == [gallery : File, state : File, record : Pair \cup {Absent}]
EmptyDirectory == [gallery |-> Absent, state |-> Absent, record |-> Absent]

ASSUME AbsentDirectoryAssumption == Absent \notin Directory \cup Pair

-----------------------------------------------------------------------------

\* Mutant of Validates: a number of seven digits is let through.
ValidatesAnyNumber(r) ==
    /\ r.prev # r.gen
    /\ (r.prev = NoGeneration) <=> (r.prevGallery = Absent)
    /\ (r.prev = NoGeneration) <=> (r.prevState = Absent)

\* JournalRecord::validate: the Options of a record are all Some or all None.
Validates(r) ==
    /\ r.gen \in Generations
    /\ r.prev # r.gen
    /\ \/ /\ r.prev = NoGeneration
          /\ r.prevGallery = Absent
          /\ r.prevState = Absent
       \/ /\ r.prev # NoGeneration
          /\ r.prevGallery # Absent
          /\ r.prevState # Absent

WithPhase(r, phase) == [r EXCEPT !.seq = r.seq + 1, !.phase = phase]

\* Mutant of NextGeneration: the number of a rolled back generation is reused.
ReusedGeneration(recovered) ==
    IF recovered = Absent THEN 1
    ELSE IF recovered.phase = "RolledBack" THEN recovered.gen
    ELSE recovered.gen + 1

NextGeneration(recovered) ==
    IF recovered = Absent THEN 1 ELSE recovered.gen + 1

\* Mutant of ValidGeneration: a rolled back generation counts as published.
LastGeneration(recovered) ==
    IF recovered = Absent THEN NoGeneration
    ELSE IF recovered.phase = "RolledBack" /\ recovered.prev = NoGeneration
    THEN NoGeneration
    ELSE recovered.gen

\* valid_generation: the generation whose files are the active ones.
ValidGeneration(recovered) ==
    IF recovered = Absent THEN NoGeneration
    ELSE IF recovered.phase = "RolledBack" THEN recovered.prev
    ELSE recovered.gen

\* Mutant of NextSequence: the new record repeats the last number.
SameSequence(recovered) == IF recovered = Absent THEN 1 ELSE recovered.seq

NextSequence(recovered) ==
    IF recovered = Absent THEN 1 ELSE recovered.seq + 1

\* verify_backup_directory, and the same test of a staging directory.
Verified(dir) ==
    /\ dir # Absent
    /\ dir.record = [gallery |-> dir.gallery, state |-> dir.state]

-----------------------------------------------------------------------------

\* Two records share a journalSequence and differ: recovery trusts neither.
Ambiguous(evidence) ==
    \E a, b \in evidence : a.seq = b.seq /\ a # b

Latest(evidence) ==
    {r \in evidence : \A e \in evidence : e.seq <= r.seq}

CommittedBefore(r, evidence) ==
    {c \in evidence : c.phase = "Committed" /\ c.seq < r.seq}

\* validate_generation_chain: a first publication follows no committed one,
\* any other follows exactly the last committed one.
ChainHolds(r, evidence) ==
    IF r.prev = NoGeneration THEN CommittedBefore(r, evidence) = {}
    ELSE \E c \in Latest(CommittedBefore(r, evidence)) :
            /\ c.gen = r.prev
            /\ c.gallery = r.prevGallery
            /\ c.state = r.prevState

=============================================================================
