------------------------- MODULE SharedBranch_proofs -------------------------
(***************************************************************************)
(* The exchange with the repository, for any paths and contents, any       *)
(* number of commits of this project and of others.                        *)
(***************************************************************************)
EXTENDS SharedBranch, TLAPS

\* What the last of the commits `b` holds of a path.
HeldIn(b, x) == IF b = <<>> THEN Absent ELSE b[Len(b)][x]

\* What the entry `e` of the path `x` says of the commits `b` is so.
Holds(b, e, x) ==
    /\ e # Absent => /\ e.revision \in 1 .. Len(b)
                     /\ b[e.revision][x] = e.content
    /\ ContentOf(e) = HeldIn(b, x)

FileOK ==
    \A x \in Mine : Certain(ledgerFile[x]) => Holds(branch, ledgerFile[x], x)

Before == {"ensure", "probe", "announce"}
Underway == {"stage", "commit", "patch", "settle"}

\* A run began where everything was certain, and all of its batch is a change.
BatchOK ==
    pc # "idle" =>
        /\ \A x \in Mine : Certain(previous[x])
        /\ \A x \in DOMAIN batch : batch[x] # ContentOf(previous[x])

BeforeOK == pc \in Before => ledger = ledgerFile /\ previous = ledgerFile

\* While it works, the file says which files are in doubt, and no others.
UnderwayOK ==
    pc \in Underway =>
        /\ ledger = ledgerFile
        /\ \A x \in Mine :
              IF x \in DOMAIN batch
              THEN ledgerFile[x] # Absent /\ ledgerFile[x].status = "Pending"
              ELSE ledgerFile[x] = previous[x]

\* Until the branch is moved, what was so when the run began is so.
PreviousOK ==
    (pc # "idle" /\ (pc = "settle" => answer = "refused")) =>
        \A x \in Mine : Holds(branch, previous[x], x)

StagedOK ==
    /\ pc = "stage" =>
          /\ DOMAIN staged \subseteq DOMAIN batch
          /\ \A x \in DOMAIN staged : staged[x] = batch[x]
    /\ pc \in Before \cup {"idle"} => staged = Nothing
    /\ pc = "commit" => staged = batch /\ base \in 1 .. Tip

MadeOK ==
    /\ pc = "patch" =>
          /\ made \in Made /\ made.parent \in 1 .. Tip
          /\ made.tree = Overlay(branch[made.parent], batch)
    /\ pc = "settle" /\ answer = "ok" =>
          /\ made \in Made /\ made.parent + 1 \in 1 .. Tip
          /\ \A x \in DOMAIN batch :
                /\ branch[made.parent + 1][x] = batch[x]
                /\ HeldIn(branch, x) = batch[x]

RunOK == BatchOK /\ BeforeOK /\ UnderwayOK /\ PreviousOK /\ StagedOK /\ MadeOK

BranchInv == TypeOK /\ FileOK /\ RunOK

-----------------------------------------------------------------------------
(* Commits, batches and entries.                                           *)

LEMMA Grown ==
  ASSUME NEW b \in Seq(Tree), NEW t \in Tree
  PROVE  /\ Append(b, t) \in Seq(Tree)
         /\ Append(b, t) # <<>>
         /\ Len(Append(b, t)) = Len(b) + 1
         /\ Append(b, t)[Len(b) + 1] = t
         /\ \A i \in 1 .. Len(b) : Append(b, t)[i] = b[i]
OBVIOUS

LEMMA Prefix ==
  ASSUME NEW b \in Seq(Tree), NEW t \in Tree
  PROVE  SubSeq(Append(b, t), 1, Len(b)) = b
OBVIOUS

LEMMA EmptyBranch ==
  ASSUME NEW b \in Seq(Tree)
  PROVE  /\ Len(b) \in Nat
         /\ (b = <<>>) <=> (Len(b) = 0)
         /\ \A i \in 1 .. Len(b) : b[i] \in Tree
OBVIOUS

\* Another commit that leaves a file as it was leaves its entry true.
LEMMA EntryKept ==
  ASSUME NEW b \in Seq(Tree), NEW t \in Tree, NEW x, NEW e,
         Holds(b, e, x), t[x] = HeldIn(b, x)
  PROVE  Holds(Append(b, t), e, x)
<1>1. HeldIn(Append(b, t), x) = HeldIn(b, x)
  BY Grown DEF HeldIn
<1>2. ASSUME e # Absent
      PROVE  /\ e.revision \in 1 .. Len(Append(b, t))
             /\ Append(b, t)[e.revision][x] = e.content
  BY <1>2, Grown, EmptyBranch DEF Holds
<1>3. QED BY <1>1, <1>2 DEF Holds

LEMMA BatchFacts ==
  ASSUME NEW f \in Batch
  PROVE  /\ DOMAIN f \subseteq Mine
         /\ f \in [DOMAIN f -> Content \cup {Absent}]
BY DEF Batch

LEMMA IsBatch ==
  ASSUME NEW S \in SUBSET Mine, NEW f \in [S -> Content \cup {Absent}]
  PROVE  f \in Batch
BY DEF Batch

LEMMA EmptyBatch == Nothing \in Batch /\ DOMAIN Nothing = {}
<1>1. Nothing = [x \in {} |-> Absent] /\ DOMAIN Nothing = {}
  BY DEF Nothing
<1>2. QED BY <1>1, IsBatch

LEMMA OverlayTree ==
  ASSUME NEW t \in Tree, NEW f \in Batch
  PROVE  Overlay(t, f) \in Tree
BY BatchFacts DEF Overlay, Tree, Path

LEMMA EntryFacts ==
  ASSUME NEW e \in Entry \cup {Absent}
  PROVE  ContentOf(e) \in Content \cup {Absent}
BY DEF ContentOf, Entry

LEMMA NoEntriesType == NoEntries \in Inventory
BY DEF NoEntries, Inventory

-----------------------------------------------------------------------------
(* The beginning and the end of a run, and what others do.                 *)

LEMMA InitBranch == Init => BranchInv
<1> SUFFICES ASSUME Init PROVE BranchInv
  OBVIOUS
<1>1. [x \in Path |-> Absent] \in Tree
  BY DEF Tree
<1>2. /\ branch \in Seq(Tree) /\ Len(branch) <= MaxCommits
      /\ \A x \in Path : HeldIn(branch, x) = Absent
  <2>1. CASE branch = <<>>
    BY <2>1, CommitsAssumption DEF HeldIn
  <2>2. CASE branch = << [x \in Path |-> Absent] >>
    <3>1. Len(branch) = 1 /\ branch[1] = [x \in Path |-> Absent]
      BY <2>2
    <3>2. branch \in Seq(Tree)
      BY <1>1, <2>2
    <3>3. \A x \in Path : HeldIn(branch, x) = Absent
      BY <3>1 DEF HeldIn
    <3>4. QED BY <3>1, <3>2, <3>3, CommitsAssumption
  <2>3. QED BY <2>1, <2>2 DEF Init
<1>3. TypeOK
  <2>1. /\ branch \in Seq(Tree) /\ Len(branch) <= MaxCommits
    BY <1>2
  <2>2. ledgerFile \in Inventory /\ ledger \in Inventory /\ previous \in Inventory
    BY NoEntriesType DEF Init
  <2>3. batch \in Batch /\ staged \in Batch
    BY EmptyBatch DEF Init
  <2>4. /\ pc \in Labels /\ base \in Revision /\ made \in Made \cup {Absent}
        /\ answer \in Answers
    BY CommitsAssumption DEF Init, Labels, Answers, Revision
  <2>5. QED BY <2>1, <2>2, <2>3, <2>4 DEF TypeOK
<1>4. FileOK
  BY <1>2 DEF Init, FileOK, Holds, NoEntries, ContentOf, Path
<1>5. RunOK
  BY DEF Init, RunOK, BatchOK, BeforeOK, UnderwayOK, PreviousOK, StagedOK,
         MadeOK, Before, Underway
<1>6. QED BY <1>3, <1>4, <1>5 DEF BranchInv

\* A run that is over has left the file true.
LEMMA Ended ==
  ASSUME TypeOK, EndRun, UNCHANGED branch, ledgerFile' \in Inventory, FileOK'
  PROVE  BranchInv'
<1>1. TypeOK'
  BY EmptyBatch, NoEntriesType, CommitsAssumption
  DEF TypeOK, EndRun, Labels, Answers, Revision
<1>2. RunOK'
  BY DEF EndRun, RunOK, BatchOK, BeforeOK, UnderwayOK, PreviousOK, StagedOK,
         MadeOK, Before, Underway
<1>3. QED BY <1>1, <1>2 DEF BranchInv

LEMMA Abandoned ==
  ASSUME BranchInv, EndRun, UNCHANGED <<branch, ledgerFile>>
  PROVE  BranchInv'
<1>1. ledgerFile' \in Inventory /\ FileOK'
  BY DEF BranchInv, TypeOK, FileOK
<1>2. QED BY <1>1, Ended DEF BranchInv

\* A commit that leaves the files of this project as they were.
LEMMA CommitBesides ==
  ASSUME BranchInv, NEW t \in Tree,
         branch' = Append(branch, t), Tip < MaxCommits,
         \A x \in Mine : t[x] = HeldIn(branch, x),
         UNCHANGED <<ledgerFile, pc, memory, provider, answer>>
  PROVE  BranchInv'
<1> USE DEF BranchInv, memory, provider
<1>1. /\ branch \in Seq(Tree) /\ branch' \in Seq(Tree)
      /\ Len(branch') = Len(branch) + 1
      /\ \A i \in 1 .. Len(branch) : branch'[i] = branch[i]
      /\ Len(branch) \in Nat
  BY Grown, EmptyBranch DEF TypeOK
<1>2. \A x \in Mine : HeldIn(branch', x) = HeldIn(branch, x)
  BY <1>1, Grown DEF HeldIn
<1>3. \A x \in Mine : \A e : Holds(branch, e, x) => Holds(branch', e, x)
  BY <1>1, EntryKept
<1>4. TypeOK'
  BY <1>1, CommitsAssumption DEF TypeOK, Tip
<1>5. FileOK'
  BY <1>3 DEF FileOK
<1>6. PreviousOK'
  BY <1>3 DEF RunOK, PreviousOK
<1>7. StagedOK' /\ MadeOK'
  <2>1. DOMAIN batch \subseteq Mine
    BY BatchFacts DEF TypeOK
  <2>2. StagedOK'
    BY <1>1 DEF RunOK, StagedOK, Tip
  <2>3. MadeOK'
    BY <1>1, <1>2, <2>1 DEF RunOK, MadeOK, Tip
  <2>4. QED BY <2>2, <2>3
<1>8. BatchOK' /\ BeforeOK' /\ UnderwayOK'
  BY DEF RunOK, BatchOK, BeforeOK, UnderwayOK
<1>9. QED BY <1>4, <1>5, <1>6, <1>7, <1>8 DEF RunOK

\* What others commit leaves the files of this project as they were.
LEMMA OthersFacts ==
  ASSUME TypeOK, OthersCommit \/ OthersBootstrap
  PROVE  \E t \in Tree : /\ branch' = Append(branch, t)
                         /\ \A x \in Mine : t[x] = HeldIn(branch, x)
                         /\ Tip < MaxCommits
<1>1. CASE OthersCommit
  <2>1. PICK y \in Foreign, c \in Content \cup {Absent} :
           branch' = Append(branch, [branch[Tip] EXCEPT ![y] = c])
    BY <1>1 DEF OthersCommit
  <2>2. branch[Tip] \in Tree /\ branch # <<>> /\ Tip < MaxCommits
    BY <1>1, EmptyBranch, CommitsAssumption DEF OthersCommit, TypeOK, Tip
  <2>3. [branch[Tip] EXCEPT ![y] = c] \in Tree
    BY <2>2 DEF Tree, Path
  <2>4. \A x \in Mine :
           [branch[Tip] EXCEPT ![y] = c][x] = HeldIn(branch, x)
    BY <2>2, PathAssumption DEF HeldIn, Tip, Tree, Path
  <2>5. QED BY <2>1, <2>2, <2>3, <2>4
<1>2. CASE OthersBootstrap
  <2>1. PICK t \in Tree : t = [x \in Path |-> Absent]
    BY DEF Tree
  <2>2. branch' = Append(branch, t)
    BY <1>2, <2>1 DEF OthersBootstrap
  <2>3. \A x \in Mine : t[x] = HeldIn(branch, x)
    BY <1>2, <2>1 DEF OthersBootstrap, HeldIn, Path
  <2>4. Tip < MaxCommits
    BY <1>2, CommitsAssumption DEF OthersBootstrap, Tip
  <2>5. QED BY <2>2, <2>3, <2>4
<1>3. QED BY <1>1, <1>2

LEMMA OthersStep ==
  ASSUME BranchInv, OthersCommit \/ OthersBootstrap
  PROVE  BranchInv'
<1>1. PICK t \in Tree : /\ branch' = Append(branch, t)
                        /\ \A x \in Mine : t[x] = HeldIn(branch, x)
                        /\ Tip < MaxCommits
  BY OthersFacts DEF BranchInv
<1>2. UNCHANGED <<ledgerFile, pc, memory, provider, answer>>
  BY DEF OthersCommit, OthersBootstrap
<1>3. QED BY <1>1, <1>2, CommitBesides

-----------------------------------------------------------------------------
(* The steps of a run.                                                     *)

LEMMA StartStep ==
  ASSUME BranchInv, StartBatch
  PROVE  BranchInv'
<1> USE DEF BranchInv
<1>1. /\ pc = "idle" /\ pc' = "ensure"
      /\ ledger' = ledgerFile /\ previous' = ledgerFile
      /\ branch' = branch /\ ledgerFile' = ledgerFile
      /\ staged' = staged /\ base' = base /\ made' = made /\ answer' = answer
      /\ \A x \in Mine : Certain(ledgerFile[x])
  BY DEF StartBatch, provider
<1>2. /\ batch' \in Batch
      /\ \A x \in DOMAIN batch' : batch'[x] # ContentOf(ledgerFile[x])
  <2>1. PICK want \in [Mine -> Content \cup {Absent}] : batch' = Changes(want)
    BY DEF StartBatch
  <2>2. PICK S \in SUBSET Mine :
           S = {y \in Mine : want[y] # ContentOf(ledgerFile[y])}
    OBVIOUS
  <2>3. /\ batch' = [x \in S |-> want[x]]
        /\ \A x \in S : want[x] # ContentOf(ledgerFile[x])
    BY <1>1, <2>1, <2>2 DEF Changes
  <2>4. batch' \in [S -> Content \cup {Absent}]
    BY <2>3
  <2>5. batch' \in Batch
    BY <2>4 DEF Batch
  <2>6. QED BY <2>3, <2>5
<1>3. TypeOK'
  BY <1>1, <1>2 DEF TypeOK, Labels, Tip
<1>4. FileOK'
  BY <1>1 DEF FileOK
<1>5. RunOK'
  <2>1. BatchOK'
    BY <1>1, <1>2 DEF BatchOK
  <2>2. PreviousOK'
    BY <1>1 DEF PreviousOK, FileOK
  <2>3. StagedOK'
    BY <1>1 DEF RunOK, StagedOK, Before
  <2>4. BeforeOK' /\ UnderwayOK' /\ MadeOK'
    BY <1>1 DEF BeforeOK, UnderwayOK, MadeOK, Underway, Before
  <2>5. QED BY <2>1, <2>2, <2>3, <2>4 DEF RunOK
<1>6. QED BY <1>3, <1>4, <1>5

LEMMA EnsureStep ==
  ASSUME BranchInv, EnsureRepository \/ ProbeBase
  PROVE  BranchInv'
<1>1. CASE EndRun
  BY <1>1, Abandoned DEF EnsureRepository, ProbeBase
<1>2. CASE ~EndRun
  <2> USE DEF BranchInv
  <2>1. /\ branch' = branch /\ ledgerFile' = ledgerFile /\ branch # <<>>
        /\ ledger' = ledger /\ previous' = previous /\ batch' = batch
        /\ staged' = staged /\ made' = made /\ answer' = answer
        /\ base' \in {base, Tip}
        /\ pc \in Before /\ pc' \in Before
    BY <1>2 DEF EnsureRepository, ProbeBase, memory, provider, Before
  <2>2. TypeOK'
    <3>1. base' \in Revision
      BY <2>1, EmptyBranch, CommitsAssumption DEF TypeOK, Revision, Tip
    <3>2. QED BY <2>1, <3>1 DEF TypeOK, Labels, Before, Tip
  <2>3. FileOK'
    BY <2>1 DEF FileOK
  <2>4. RunOK'
    BY <2>1 DEF RunOK, BatchOK, BeforeOK, UnderwayOK, PreviousOK, StagedOK,
                MadeOK, Before, Underway
  <2>5. QED BY <2>2, <2>3, <2>4
<1>3. QED BY <1>1, <1>2

LEMMA DoubtfulType ==
  ASSUME TypeOK, BatchOK, pc # "idle", NEW revision \in Revision,
         NEW status \in {"Pending", "Unknown"}
  PROVE  Doubtful(status, revision) \in Inventory
<1>1. DOMAIN batch \subseteq Mine /\ batch \in [DOMAIN batch -> Content \cup {Absent}]
  BY BatchFacts DEF TypeOK
<1>2. ASSUME NEW x \in DOMAIN batch
      PROVE  (IF batch[x] = Absent THEN previous[x].content ELSE batch[x])
                \in Content
  <2>1. CASE batch[x] # Absent
    BY <1>1, <2>1
  <2>2. CASE batch[x] = Absent
    <3>1. previous[x] # Absent
      BY <2>2 DEF BatchOK, ContentOf
    <3>2. previous[x] \in Entry
      BY <1>1, <3>1 DEF TypeOK, Inventory
    <3>3. QED BY <2>2, <3>2 DEF Entry
  <2>3. QED BY <2>1, <2>2
<1>3. \A x \in Mine \ DOMAIN batch : ledger[x] \in Entry \cup {Absent}
  BY DEF TypeOK, Inventory
<1>4. QED BY <1>1, <1>2, <1>3 DEF Doubtful, Inventory, Entry

\* What the file says once the batch is announced.
LEMMA AnnounceFacts ==
  ASSUME BranchInv, Announce
  PROVE  /\ ledger' \in Inventory
         /\ \A x \in Mine :
               IF x \in DOMAIN batch
               THEN /\ ledgerFile'[x] # Absent
                    /\ ledgerFile'[x].status = "Pending"
               ELSE /\ ledgerFile'[x] = previous[x]
                    /\ ledgerFile'[x] = ledgerFile[x]
<1> USE DEF BranchInv
<1>1. /\ pc = "announce" /\ ledger' = Doubtful("Pending", base)
      /\ ledgerFile' = ledger'
  BY DEF Announce
<1>2. ledger' \in Inventory
  BY <1>1, DoubtfulType DEF TypeOK, RunOK
<1>3. ledger = ledgerFile /\ previous = ledgerFile
  BY <1>1 DEF RunOK, BeforeOK, Before
<1>4. ASSUME NEW x \in DOMAIN batch, x \in Mine
      PROVE  ledgerFile'[x] # Absent /\ ledgerFile'[x].status = "Pending"
  <2>1. /\ ledgerFile'[x] \in Entry \cup {Absent}
        /\ ledgerFile'[x] =
             [content |-> IF batch[x] = Absent
                          THEN previous[x].content ELSE batch[x],
              revision |-> base, status |-> "Pending"]
    BY <1>1, <1>2, <1>4 DEF Inventory, Doubtful
  <2>2. previous[x].content \in Content \/ batch[x] # Absent
    <3>1. CASE batch[x] = Absent
      <4>1. previous[x] # Absent
        BY <1>1, <3>1 DEF RunOK, BatchOK, ContentOf
      <4>2. previous[x] \in Entry
        BY <1>4, <4>1 DEF TypeOK, Inventory
      <4>3. QED BY <4>2 DEF Entry
    <3>2. QED BY <3>1
  <2>3. batch[x] \in Content \cup {Absent}
    BY BatchFacts, <1>4 DEF TypeOK
  <2>4. ledgerFile'[x] \in Entry
    BY <1>1, <2>1, <2>2, <2>3 DEF Entry, TypeOK
  <2>5. QED BY <2>1, <2>4, AbsentEntryAssumption
<1>5. ASSUME NEW x \in Mine, x \notin DOMAIN batch
      PROVE  ledgerFile'[x] = previous[x] /\ ledgerFile'[x] = ledgerFile[x]
  BY <1>1, <1>3, <1>5 DEF Doubtful
<1>6. QED BY <1>2, <1>4, <1>5

LEMMA AnnounceStep ==
  ASSUME BranchInv, Announce
  PROVE  BranchInv'
<1> USE DEF BranchInv
<1>1. /\ pc = "announce" /\ pc' = "stage" /\ ledgerFile' = ledger'
      /\ branch' = branch /\ previous' = previous /\ batch' = batch
      /\ staged' = staged /\ base' = base /\ made' = made /\ answer' = answer
  BY DEF Announce, provider
<1>2. /\ ledger' \in Inventory
      /\ \A x \in Mine :
            IF x \in DOMAIN batch
            THEN ledgerFile'[x] # Absent /\ ledgerFile'[x].status = "Pending"
            ELSE ledgerFile'[x] = previous[x] /\ ledgerFile'[x] = ledgerFile[x]
  BY AnnounceFacts
<1>3. TypeOK'
  BY <1>1, <1>2 DEF TypeOK, Labels, Tip
<1>4. FileOK'
  BY <1>1, <1>2 DEF FileOK, Certain
<1>5. RunOK'
  <2>1. UnderwayOK'
    BY <1>1, <1>2 DEF UnderwayOK
  <2>2. PreviousOK' /\ BatchOK'
    BY <1>1 DEF RunOK, PreviousOK, BatchOK
  <2>3. StagedOK'
    BY <1>1, EmptyBatch DEF RunOK, StagedOK, Before
  <2>4. BeforeOK' /\ MadeOK'
    BY <1>1 DEF BeforeOK, MadeOK, Before
  <2>5. QED BY <2>1, <2>2, <2>3, <2>4 DEF RunOK
<1>6. QED BY <1>3, <1>4, <1>5

LEMMA AnsweredStep ==
  ASSUME BranchInv, pc \in {"stage", "commit", "patch"},
         NEW kind \in {"refused", "unclear"}, Answered(kind)
  PROVE  BranchInv'
<1> USE DEF BranchInv
<1>1. /\ pc' = "settle" /\ answer' = kind
      /\ branch' = branch /\ ledgerFile' = ledgerFile
      /\ ledger' = ledger /\ previous' = previous /\ batch' = batch
      /\ staged' = staged /\ made' = made /\ base' = base
  BY DEF Answered, memory, provider
<1>2. TypeOK'
  BY <1>1 DEF TypeOK, Labels, Answers, Tip
<1>3. FileOK'
  BY <1>1 DEF FileOK
<1>4. RunOK'
  BY <1>1 DEF RunOK, BatchOK, BeforeOK, UnderwayOK, PreviousOK, StagedOK,
              MadeOK, Before, Underway
<1>5. QED BY <1>2, <1>3, <1>4

LEMMA StageStep ==
  ASSUME BranchInv, NEW x \in Mine, Stage(x)
  PROVE  BranchInv'
<1>1. CASE Answered("refused")
  BY <1>1, AnsweredStep DEF Stage
<1>2. CASE ~Answered("refused")
  <2> USE DEF BranchInv
  <2>1. /\ pc = "stage" /\ x \in DOMAIN batch
        /\ staged' = [y \in DOMAIN staged \cup {x} |-> batch[y]]
        /\ branch' = branch /\ ledgerFile' = ledgerFile /\ pc' = pc
        /\ ledger' = ledger /\ previous' = previous /\ batch' = batch
        /\ base' = base /\ made' = made /\ answer' = answer
    BY <1>2 DEF Stage, memory
  <2>2. DOMAIN staged \subseteq DOMAIN batch
    BY <2>1 DEF RunOK, StagedOK
  <2>3. staged' \in Batch
    <3>1. PICK S \in SUBSET Mine : S = DOMAIN staged \cup {x}
      BY BatchFacts DEF TypeOK
    <3>2. staged' \in [S -> Content \cup {Absent}]
      BY <2>1, <2>2, <3>1, BatchFacts DEF TypeOK
    <3>3. QED BY <3>2 DEF Batch
  <2>4. TypeOK'
    BY <2>1, <2>3 DEF TypeOK, Tip
  <2>5. FileOK'
    BY <2>1 DEF FileOK
  <2>6. StagedOK'
    BY <2>1, <2>2 DEF StagedOK, Before
  <2>7. RunOK'
    BY <2>1, <2>6 DEF RunOK, BatchOK, BeforeOK, UnderwayOK, PreviousOK,
                      MadeOK, Before, Underway
  <2>8. QED BY <2>4, <2>5, <2>7
<1>3. QED BY <1>1, <1>2

LEMMA SameBatch ==
  ASSUME NEW f \in Batch, NEW g \in Batch, DOMAIN f = DOMAIN g,
         \A x \in DOMAIN f : f[x] = g[x]
  PROVE  f = g
BY BatchFacts

LEMMA ReadStep ==
  ASSUME BranchInv, ReadBase
  PROVE  BranchInv'
<1>1. CASE Answered("refused") \/ Answered("unclear")
  BY <1>1, AnsweredStep DEF ReadBase
<1>2. CASE ~(Answered("refused") \/ Answered("unclear"))
  <2> USE DEF BranchInv
  <2>1. /\ pc = "stage" /\ pc' = "commit" /\ DOMAIN staged = DOMAIN batch
        /\ branch # <<>> /\ base' = Tip
        /\ branch' = branch /\ ledgerFile' = ledgerFile
        /\ ledger' = ledger /\ previous' = previous /\ batch' = batch
        /\ staged' = staged /\ made' = made /\ answer' = answer
    BY <1>2 DEF ReadBase, memory
  <2>2. base' \in 1 .. Tip /\ base' \in Revision
    BY <2>1, EmptyBranch, CommitsAssumption DEF TypeOK, Tip, Revision
  <2>3. staged = batch
    <3>1. \A x \in DOMAIN staged : staged[x] = batch[x]
      BY <2>1 DEF RunOK, StagedOK
    <3>2. QED BY <2>1, <3>1, SameBatch DEF TypeOK
  <2>4. TypeOK'
    BY <2>1, <2>2 DEF TypeOK, Labels, Tip
  <2>5. FileOK'
    BY <2>1 DEF FileOK
  <2>6. StagedOK'
    BY <2>1, <2>2, <2>3 DEF StagedOK, Before, Tip
  <2>7. RunOK'
    BY <2>1, <2>6 DEF RunOK, BatchOK, BeforeOK, UnderwayOK, PreviousOK,
                      MadeOK, Before, Underway
  <2>8. QED BY <2>4, <2>5, <2>7
<1>3. QED BY <1>1, <1>2

LEMMA CreateStep ==
  ASSUME BranchInv, CreateCommit
  PROVE  BranchInv'
<1>1. CASE Answered("refused") \/ Answered("unclear")
  BY <1>1, AnsweredStep DEF CreateCommit
<1>2. CASE ~(Answered("refused") \/ Answered("unclear"))
  <2> USE DEF BranchInv
  <2>1. /\ pc = "commit" /\ pc' = "patch"
        /\ made' = [parent |-> base, tree |-> Overlay(branch[base], staged)]
        /\ branch' = branch /\ ledgerFile' = ledgerFile
        /\ ledger' = ledger /\ previous' = previous /\ batch' = batch
        /\ staged' = staged /\ base' = base /\ answer' = answer
    BY <1>2 DEF CreateCommit, memory
  <2>2. staged = batch /\ base \in 1 .. Tip
    BY <2>1 DEF RunOK, StagedOK
  <2>3. made' \in Made
    BY <2>1, <2>2, EmptyBranch, OverlayTree DEF TypeOK, Made, Tip
  <2>4. TypeOK'
    BY <2>1, <2>3 DEF TypeOK, Labels, Tip
  <2>5. FileOK'
    BY <2>1 DEF FileOK
  <2>6. MadeOK'
    BY <2>1, <2>2, <2>3 DEF MadeOK, Tip
  <2>7. RunOK'
    BY <2>1, <2>6 DEF RunOK, BatchOK, BeforeOK, UnderwayOK, PreviousOK,
                      StagedOK, Before, Underway
  <2>8. QED BY <2>4, <2>5, <2>7
<1>3. QED BY <1>1, <1>2

\* What a run moves the branch by.
LEMMA MovedFacts ==
  ASSUME BranchInv, pc = "patch", MoveBranch
  PROVE  /\ made.tree \in Tree /\ made.parent = Tip /\ branch # <<>>
         /\ branch' = Append(branch, made.tree)
         /\ \A x \in Path : made.tree[x] = IF x \in DOMAIN batch THEN batch[x]
                                           ELSE branch[Tip][x]
<1>1. /\ made \in Made /\ made.parent \in 1 .. Tip
      /\ made.tree = Overlay(branch[made.parent], batch)
      /\ branch \in Seq(Tree)
  BY DEF BranchInv, RunOK, MadeOK, TypeOK
<1>2. branch # <<>>
  BY <1>1, EmptyBranch DEF Tip
<1>3. QED BY <1>1, <1>2 DEF MoveBranch, Made, Overlay

LEMMA PatchStep ==
  ASSUME BranchInv, PatchRef
  PROVE  BranchInv'
<1>1. CASE Answered("refused") \/ Answered("unclear")
  BY <1>1, AnsweredStep DEF PatchRef
<1>2. CASE ~(Answered("refused") \/ Answered("unclear"))
  <2> USE DEF BranchInv
  <2>1. /\ pc = "patch" /\ pc' = "settle" /\ MoveBranch
        /\ answer' \in {"ok", "unclear"}
        /\ ledgerFile' = ledgerFile
        /\ ledger' = ledger /\ previous' = previous /\ batch' = batch
        /\ staged' = staged /\ base' = base /\ made' = made
    BY <1>2 DEF PatchRef, memory, provider
  <2>2. /\ made.tree \in Tree /\ made.parent = Tip /\ branch # <<>>
        /\ branch' = Append(branch, made.tree)
        /\ \A x \in Path : made.tree[x] = IF x \in DOMAIN batch THEN batch[x]
                                          ELSE branch[Tip][x]
    BY <2>1, MovedFacts
  <2>3. branch \in Seq(Tree) /\ Len(branch) \in Nat /\ Tip < MaxCommits
    BY <2>1, EmptyBranch DEF TypeOK, MoveBranch
  <2>4. /\ branch' \in Seq(Tree) /\ branch' # <<>> /\ Len(branch') = Tip + 1
        /\ branch'[Tip + 1] = made.tree
    BY <2>2, <2>3, Grown DEF Tip
  <2>5. TypeOK'
    BY <2>1, <2>3, <2>4, CommitsAssumption DEF TypeOK, Labels, Answers, Tip
  <2>6. FileOK'
    <3>1. SUFFICES ASSUME NEW x \in Mine, Certain(ledgerFile[x])
                   PROVE  Holds(branch', ledgerFile[x], x)
      BY <2>1 DEF FileOK
    <3>2. x \notin DOMAIN batch
      BY <2>1, <3>1 DEF RunOK, UnderwayOK, Underway, Certain
    <3>3. made.tree[x] = HeldIn(branch, x)
      BY <2>2, <3>2 DEF HeldIn, Path, Tip
    <3>4. Holds(branch, ledgerFile[x], x)
      BY <3>1 DEF FileOK
    <3>5. QED BY <2>2, <2>3, <3>3, <3>4, EntryKept
  <2>7. MadeOK'
    <3>1. made \in Made /\ made.parent + 1 \in 1 .. Tip'
      BY <2>1, <2>2, <2>3, <2>4 DEF RunOK, MadeOK, Tip
    <3>2. ASSUME NEW x \in DOMAIN batch
          PROVE  /\ branch'[made.parent + 1][x] = batch[x]
                 /\ HeldIn(branch', x) = batch[x]
      <4>1. x \in Path
        BY BatchFacts DEF TypeOK, Path
      <4>2. made.tree[x] = batch[x]
        BY <2>2, <4>1
      <4>3. QED BY <2>2, <2>4, <4>2 DEF HeldIn
    <3>3. QED BY <2>1, <3>1, <3>2 DEF MadeOK
  <2>8. PreviousOK' /\ StagedOK' /\ BeforeOK'
    BY <2>1 DEF PreviousOK, StagedOK, BeforeOK, Before
  <2>9. BatchOK' /\ UnderwayOK'
    BY <2>1 DEF RunOK, BatchOK, UnderwayOK, Underway
  <2>10. QED BY <2>5, <2>6, <2>7, <2>8, <2>9 DEF RunOK
<1>3. QED BY <1>1, <1>2

\* What a run writes in the end: of its batch what it has learnt, and of the
\* other files what the file says.
LEMMA SettledFacts ==
  ASSUME BranchInv, pc = "settle"
  PROVE  /\ Settled \in Inventory
         /\ \A x \in Mine : Certain(Settled[x]) => Holds(branch, Settled[x], x)
         /\ \A x \in Mine \ DOMAIN batch : Settled[x] = ledgerFile[x]
<1> USE DEF BranchInv
<1>1. /\ ledger = ledgerFile
      /\ \A x \in Mine :
            IF x \in DOMAIN batch
            THEN ledgerFile[x] # Absent /\ ledgerFile[x].status = "Pending"
            ELSE ledgerFile[x] = previous[x]
  BY DEF RunOK, UnderwayOK, Underway
<1>2. \A x \in Mine : Certain(ledgerFile[x]) => Holds(branch, ledgerFile[x], x)
  BY DEF FileOK
<1>3. /\ DOMAIN batch \subseteq Mine
      /\ batch \in [DOMAIN batch -> Content \cup {Absent}]
  BY BatchFacts DEF TypeOK
<1>4. \A x \in Mine : ledger[x] \in Entry \cup {Absent}
  BY DEF TypeOK, Inventory
<1>5. CASE answer = "ok"
  <2>1. /\ made \in Made /\ made.parent + 1 \in 1 .. Tip
        /\ \A x \in DOMAIN batch :
              /\ branch[made.parent + 1][x] = batch[x]
              /\ HeldIn(branch, x) = batch[x]
    BY <1>5 DEF RunOK, MadeOK
  <2>2. Settled = Committed
    BY <1>5 DEF Settled
  <2>3. made.parent + 1 \in Revision
    BY <2>1, EmptyBranch, CommitsAssumption DEF TypeOK, Revision, Tip
  <2>4. Committed \in Inventory
    BY <1>3, <1>4, <2>3 DEF Committed, Inventory, Entry
  <2>5. ASSUME NEW x \in DOMAIN batch
        PROVE  Holds(branch, Committed[x], x)
    <3>1. CASE batch[x] = Absent
      BY <1>3, <2>1, <3>1 DEF Committed, Holds, ContentOf
    <3>2. CASE batch[x] # Absent
      <4>1. Committed[x] = [content |-> batch[x], revision |-> made.parent + 1,
                            status |-> "Confirmed"]
        BY <1>3, <3>2 DEF Committed
      <4>2. Committed[x] # Absent
        BY <1>3, <2>3, <3>2, <4>1, AbsentEntryAssumption DEF Entry
      <4>3. QED BY <2>1, <4>1, <4>2 DEF Holds, ContentOf, Tip
    <3>3. QED BY <3>1, <3>2
  <2>6. \A x \in Mine \ DOMAIN batch : Committed[x] = ledgerFile[x]
    BY <1>1 DEF Committed
  <2>7. QED BY <1>2, <2>2, <2>4, <2>5, <2>6
<1>6. CASE answer = "refused"
  <2>1. Settled = previous
    BY <1>6 DEF Settled
  <2>2. \A x \in Mine : Holds(branch, previous[x], x)
    BY <1>6 DEF RunOK, PreviousOK
  <2>3. QED BY <1>1, <2>1, <2>2 DEF TypeOK
<1>7. CASE answer \notin {"ok", "refused"}
  <2>1. Settled = [x \in Mine |->
                     IF x \in DOMAIN batch
                     THEN [ledger[x] EXCEPT !.status = "Unknown"]
                     ELSE ledger[x]]
    BY <1>7 DEF Settled
  <2>2. ASSUME NEW x \in DOMAIN batch
        PROVE  /\ [ledger[x] EXCEPT !.status = "Unknown"] \in Entry
               /\ [ledger[x] EXCEPT !.status = "Unknown"].status = "Unknown"
    <3>1. ledger[x] \in Entry
      BY <1>1, <1>3, <1>4
    <3>2. QED BY <3>1 DEF Entry
  <2>3. Settled \in Inventory
    BY <1>3, <1>4, <2>1, <2>2 DEF Inventory
  <2>4. ASSUME NEW x \in DOMAIN batch
        PROVE  ~Certain(Settled[x])
    BY <1>3, <2>1, <2>2, AbsentEntryAssumption DEF Certain
  <2>5. \A x \in Mine \ DOMAIN batch : Settled[x] = ledgerFile[x]
    BY <1>1, <2>1
  <2>6. QED BY <1>2, <2>3, <2>4, <2>5
<1>8. QED BY <1>5, <1>6, <1>7

LEMMA SettleStep ==
  ASSUME BranchInv, Settle
  PROVE  BranchInv'
<1>1. pc = "settle" /\ ledgerFile' = Settled /\ EndRun /\ branch' = branch
  BY DEF Settle
<1>2. ledgerFile' \in Inventory /\ FileOK'
  BY <1>1, SettledFacts DEF FileOK
<1>3. QED BY <1>1, <1>2, Ended DEF BranchInv

LEMMA BranchStep == BranchInv /\ [Next]_vars => BranchInv'
<1> SUFFICES ASSUME BranchInv, [Next]_vars PROVE BranchInv'
  OBVIOUS
<1>1. CASE Step
  BY <1>1, StartStep, EnsureStep, AnnounceStep, StageStep, ReadStep,
     CreateStep, PatchStep, SettleStep DEF Step
<1>2. CASE Stop
  BY <1>2, Abandoned DEF Stop
<1>3. CASE OthersCommit \/ OthersBootstrap
  BY <1>3, OthersStep
<1>4. CASE UNCHANGED vars
  BY <1>4
  DEF vars, memory, provider, BranchInv, TypeOK, FileOK, RunOK, BatchOK,
      BeforeOK, UnderwayOK, PreviousOK, StagedOK, MadeOK, Tip
<1>5. QED BY <1>1, <1>2, <1>3, <1>4 DEF Next

LEMMA BranchInvariance == Spec => []BranchInv
BY InitBranch, BranchStep, PTL DEF Spec

-----------------------------------------------------------------------------
(* The exchange implements "announce, act, learn".                         *)

Real == [x \in Mine |-> IF branch = <<>> THEN Absent ELSE branch[Tip][x]]
Known == [x \in Mine |-> IF Certain(ledgerFile[x]) THEN ContentOf(ledgerFile[x])
                         ELSE Uncertain]

LEMMA RealIsHeld == \A x \in Mine : Real[x] = HeldIn(branch, x)
BY DEF Real, HeldIn, Tip

LEMMA InitAnnounced == Init => Announced!EInit
<1> SUFFICES ASSUME Init PROVE Announced!EInit
  OBVIOUS
<1>1. \A x \in Mine : HeldIn(branch, x) = Absent
  BY DEF Init, HeldIn, Path
<1>2. Real = [x \in Mine |-> Absent]
  BY <1>1 DEF Real, HeldIn, Tip
<1>3. Known = [x \in Mine |-> Absent]
  BY DEF Init, Known, NoEntries, Certain, ContentOf
<1>4. QED BY <1>2, <1>3 DEF Announced!EInit, Real, Known

LEMMA Unmoved ==
  ASSUME UNCHANGED <<branch, ledgerFile>>
  PROVE  Real' = Real /\ Known' = Known
BY DEF Real, Known, Tip

LEMMA AnnounceRefines ==
  ASSUME BranchInv, Announce
  PROVE  Announced!ENext
<1>1. DOMAIN batch \subseteq Mine
  BY BatchFacts DEF BranchInv, TypeOK
<1>2. branch' = branch
  BY DEF Announce
<1>3. \A x \in Mine :
         IF x \in DOMAIN batch
         THEN ledgerFile'[x] # Absent /\ ledgerFile'[x].status = "Pending"
         ELSE ledgerFile'[x] = ledgerFile[x]
  BY AnnounceFacts
<1>4. Real' = Real
  BY <1>2 DEF Real, Tip
<1>5. Known' = [x \in Mine |-> IF x \in DOMAIN batch THEN Uncertain ELSE Known[x]]
  BY <1>3 DEF Known, Certain
<1>6. Announced!Announce(DOMAIN batch)
  BY <1>4, <1>5 DEF Announced!Announce, Known, Real
<1>7. QED BY <1>1, <1>6 DEF Announced!ENext

LEMMA PatchRefines ==
  ASSUME BranchInv, pc = "patch", MoveBranch, UNCHANGED ledgerFile
  PROVE  Announced!ENext
<1>1. /\ made.tree \in Tree /\ branch # <<>> /\ branch \in Seq(Tree)
      /\ branch' = Append(branch, made.tree)
      /\ \A x \in Path : made.tree[x] = IF x \in DOMAIN batch THEN batch[x]
                                        ELSE branch[Tip][x]
  BY MovedFacts DEF BranchInv, TypeOK
<1>2. Real' = [x \in Mine |-> made.tree[x]]
  BY <1>1, Grown DEF Real, Tip
<1>3. Real' \in [Mine -> Content \cup {Absent}]
  BY <1>1, <1>2 DEF Tree, Path
<1>4. Known' = Known
  BY DEF Known
<1>5. ASSUME NEW x \in Mine, Known[x] # Uncertain
      PROVE  Real'[x] = Real[x]
  <2>1. Certain(ledgerFile[x])
    BY <1>5 DEF Known
  <2>2. x \notin DOMAIN batch
    BY <2>1 DEF BranchInv, RunOK, UnderwayOK, Underway, Certain
  <2>3. QED BY <1>1, <1>2, <2>2 DEF Real, Path
<1>6. Announced!Happen
  BY <1>3, <1>4, <1>5 DEF Announced!Happen, Known, Real
<1>7. QED BY <1>6 DEF Announced!ENext

LEMMA SettleRefines ==
  ASSUME BranchInv, Settle
  PROVE  Announced!ENext
<1>1. pc = "settle" /\ ledgerFile' = Settled /\ branch' = branch
  BY DEF Settle
<1>2. /\ \A x \in Mine : Certain(Settled[x]) => Holds(branch, Settled[x], x)
      /\ \A x \in Mine \ DOMAIN batch : Settled[x] = ledgerFile[x]
  BY <1>1, SettledFacts
<1>3. \A x \in DOMAIN batch \cap Mine : Known[x] = Uncertain
  BY <1>1 DEF Known, Certain, BranchInv, RunOK, UnderwayOK, Underway
<1> DEFINE A == {x \in DOMAIN batch \cap Mine : Certain(Settled[x])}
<1>4. Known' = [x \in Mine |-> IF x \in A THEN Real[x] ELSE Known[x]]
  <2>1. Known' = [x \in Mine |-> IF Certain(Settled[x]) THEN ContentOf(Settled[x])
                                 ELSE Uncertain]
    BY <1>1 DEF Known
  <2>2. ASSUME NEW x \in Mine
        PROVE  (IF Certain(Settled[x]) THEN ContentOf(Settled[x]) ELSE Uncertain)
                  = IF x \in A THEN Real[x] ELSE Known[x]
    <3>1. CASE x \in A
      BY <1>2, <3>1, RealIsHeld DEF Holds
    <3>2. CASE x \in DOMAIN batch /\ x \notin A
      BY <1>3, <3>2
    <3>3. CASE x \notin DOMAIN batch
      BY <1>2, <3>3 DEF Known
    <3>4. QED BY <3>1, <3>2, <3>3
  <2>3. QED BY <2>1, <2>2
<1>5. Real' = Real
  BY <1>1 DEF Real, Tip
<1>6. \A x \in A : Known[x] = Uncertain
  BY <1>3
<1>7. A \in SUBSET Mine
  OBVIOUS
<1> HIDE DEF A
<1>8. Announced!Learn(A)
  BY <1>4, <1>5, <1>6 DEF Announced!Learn, Known, Real
<1>9. QED BY <1>7, <1>8 DEF Announced!ENext

LEMMA NextRefines ==
  ASSUME BranchInv, [Next]_vars
  PROVE  [Announced!ENext]_(Announced!evars)
<1>1. CASE UNCHANGED <<branch, ledgerFile>>
  <2>1. Real' = Real /\ Known' = Known
    BY <1>1, Unmoved
  <2>2. QED BY <2>1 DEF Announced!evars, Real, Known
<1>2. CASE Announce
  BY <1>2, AnnounceRefines
<1>3. CASE Settle
  BY <1>3, SettleRefines
<1>4. CASE PatchRef /\ ~UNCHANGED branch
  <2>1. pc = "patch" /\ MoveBranch /\ UNCHANGED ledgerFile
    BY <1>4 DEF PatchRef, Answered
  <2>2. QED BY <2>1, PatchRefines
<1>5. CASE OthersCommit \/ OthersBootstrap
  <2>1. PICK t \in Tree : /\ branch' = Append(branch, t)
                          /\ \A x \in Mine : t[x] = HeldIn(branch, x)
    BY <1>5, OthersFacts DEF BranchInv
  <2>2. branch \in Seq(Tree) /\ ledgerFile' = ledgerFile
    BY <1>5 DEF OthersCommit, OthersBootstrap, BranchInv, TypeOK
  <2>3. Real' = Real
    BY <2>1, <2>2, Grown DEF Real, HeldIn, Tip
  <2>4. Known' = Known
    BY <2>2 DEF Known
  <2>5. QED BY <2>3, <2>4 DEF Announced!evars, Real, Known
<1>6. QED
  BY <1>1, <1>2, <1>3, <1>4, <1>5
  DEF Next, Step, Stop, StartBatch, EnsureRepository, ProbeBase, Stage,
      ReadBase, CreateCommit, PatchRef, Answered, vars

-----------------------------------------------------------------------------
(* What a step does to the branch.                                         *)

LEMMA BranchMoves ==
  ASSUME BranchInv, [Next]_vars, branch' # branch
  PROVE  \E t \in Tree :
            /\ branch' = Append(branch, t)
            /\ (pc = "patch" /\ pc' # pc) =>
                  \A x \in Path : t[x] = IF x \in DOMAIN batch THEN batch[x]
                                         ELSE branch[Tip][x]
<1>1. CASE OthersCommit \/ OthersBootstrap
  <2>1. pc' = pc
    BY <1>1 DEF OthersCommit, OthersBootstrap
  <2>2. QED BY <1>1, <2>1, OthersFacts DEF BranchInv
<1>2. CASE PatchRef
  <2>1. pc = "patch" /\ MoveBranch
    BY <1>2 DEF PatchRef, Answered
  <2>2. QED BY <2>1, MovedFacts
<1>3. QED
  BY <1>1, <1>2
  DEF Next, Step, Stop, StartBatch, EnsureRepository, ProbeBase, Announce,
      Stage, ReadBase, CreateCommit, Settle, Answered, vars

-----------------------------------------------------------------------------

\* Every state of the exchange is one that the executor can be in.
THEOREM BranchTypeCorrect == Spec => []TypeOK
BY BranchInvariance, PTL DEF BranchInv

\* The file is right about the history of the branch, whoever commits to it
\* and wherever the run stops.
THEOREM HistoryIsRecorded == Spec => []ConfirmedIsInHistory
<1>1. BranchInv => ConfirmedIsInHistory
  BY DEF BranchInv, FileOK, Holds, Certain, ConfirmedIsInHistory, Tip
<1>2. QED BY <1>1, BranchInvariance, PTL

\* No commit is ever lost, and one of this project is its batch.
THEOREM OnlyTheBatchIsAdded == Spec => GrowsByTheBatch
<1>1. BranchInv /\ [Next]_vars =>
        [Len(branch') >= Len(branch) /\ SubSeq(branch', 1, Len(branch)) = branch]_branch
  <2>1. SUFFICES ASSUME BranchInv, [Next]_vars, branch' # branch
                 PROVE  /\ Len(branch') >= Len(branch)
                        /\ SubSeq(branch', 1, Len(branch)) = branch
    OBVIOUS
  <2>2. PICK t \in Tree : branch' = Append(branch, t)
    BY <2>1, BranchMoves
  <2>3. branch \in Seq(Tree)
    BY <2>1 DEF BranchInv, TypeOK
  <2>4. QED BY <2>2, <2>3, Grown, Prefix, EmptyBranch
<1>2. BranchInv /\ [Next]_vars =>
        [(pc = "patch" /\ branch' # branch /\ pc' # pc) =>
           \A x \in Path :
              branch'[Tip'][x] = IF x \in DOMAIN batch THEN batch[x]
                                 ELSE branch[Tip][x]]_vars
  <2>1. SUFFICES ASSUME BranchInv, [Next]_vars,
                        pc = "patch", branch' # branch, pc' # pc
                 PROVE  \A x \in Path :
                           branch'[Tip'][x] = IF x \in DOMAIN batch THEN batch[x]
                                              ELSE branch[Tip][x]
    OBVIOUS
  <2>2. PICK t \in Tree :
           /\ branch' = Append(branch, t)
           /\ \A x \in Path : t[x] = IF x \in DOMAIN batch THEN batch[x]
                                     ELSE branch[Tip][x]
    BY <2>1, BranchMoves
  <2>3. branch \in Seq(Tree)
    BY <2>1 DEF BranchInv, TypeOK
  <2>4. branch'[Tip'] = t
    BY <2>2, <2>3, Grown DEF Tip
  <2>5. QED BY <2>2, <2>4
<1>3. QED
  BY <1>1, <1>2, BranchInvariance, PTL
  DEF Spec, GrowsByTheBatch, HistoryKept, CommitIsTheBatch

\* Whatever the file is certain of is on the branch: the exchange implements
\* the contract that RemotePublication takes for one step.
THEOREM BranchImplementsContract == Spec => ImplementsAnnounced
<1>1. BranchInv /\ [Next]_vars => [Announced!ENext]_(Announced!evars)
  BY NextRefines
<1>2. QED
  BY <1>1, InitAnnounced, BranchInvariance, PTL
  DEF Spec, ImplementsAnnounced, Announced!ESpec

=============================================================================
