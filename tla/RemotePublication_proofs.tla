----------------------- MODULE RemotePublication_proofs -----------------------
(***************************************************************************)
(* Theorems about RemotePublication for all photos, configurations,        *)
(* processes and bounds: the types, and then what the ledger file is worth *)
(* where one process publishes at a time (Solo): what it warns of and      *)
(* refuses with any answers, and what it says of the services where those  *)
(* keep to what an executor calls "without effect" (StableAccess).         *)
(***************************************************************************)
EXTENDS RemotePublication, TLAPS

Planned == {"plan", "coordinate", "work", "call", "poll", "settle"}
WithLedger == {"coordinate", "work", "call", "poll", "settle"}
Underway == {"call", "poll", "settle"}

\* What a process has in its memory when it gets to a step.
MemoryOf(p) ==
    /\ pc[p] = "desire" => bundle[p] \in Gallery
    /\ pc[p] \in Planned =>
          desired[p] \in DesiredPublication /\ desired[p].want[Site] \in Hash
    /\ pc[p] \in WithLedger => ledger[p] \in Ledger
    /\ pc[p] \in Underway =>
          /\ before[p] \in Ledger
          /\ \A a \in turn[p] : ledger[p].entries[a] \in Entry

MemoryOK == \A p \in Proc : MemoryOf(p)

TypeInv == TypeOK /\ MemoryOK

-----------------------------------------------------------------------------
(* Artifacts, entries and ledgers.                                         *)

LEMMA ArtifactKinds ==
  /\ Site \in Artifacts /\ Application \in Artifacts
  /\ Objects \subseteq Artifacts /\ Files \subseteq Artifacts
  /\ Objects \cap Files = {} /\ Site \notin Objects /\ Site \notin Files
  /\ \A a \in Objects \cup Previews : a[2] \in Photo
  /\ Site \notin Objects \cup Previews
BY WholeAssumption
DEF Site, Application, Artifacts, Objects, Previews, Files

LEMMA HashFacts == \A h \in Hash : h # Absent /\ h \in {Absent} \cup Hash
BY AbsentHashAssumption DEF Hash

LEMMA DesiredType ==
  ASSUME NEW g \in Gallery, NEW b \in Gallery
  PROVE  Desired(b, g) \in Wanted /\ Desired(b, g)[Site] \in Hash
<1>1. ASSUME NEW a \in Objects \cup Previews PROVE {a[2]} \in Hash
  BY ArtifactKinds DEF Hash
<1>2. b \in Hash
  BY DEF Gallery, Hash
<1>3. QED
  BY <1>1, <1>2, ArtifactKinds DEF Desired, Wanted

LEMMA EntryFacts == \A e \in Entry : /\ e # Absent
                                     /\ e.hash \in Hash
                                     /\ e.status \in OperationState
BY AbsentLedgerAssumption DEF Entry

LEMMA LedgerFacts ==
  \A l \in Ledger : /\ l # Absent
                    /\ l.header \in Header
                    /\ l.entries \in Entries
                    /\ \A a \in Artifacts : l.entries[a] \in {Absent} \cup Entry
BY AbsentLedgerAssumption DEF Ledger, Entries

LEMMA RecordType ==
  ASSUME NEW l \in Ledger, NEW A \in SUBSET Artifacts,
         NEW entries \in [A -> {Absent} \cup Entry]
  PROVE  /\ Record(l, entries) \in Ledger
         /\ Record(l, entries).header = l.header
         /\ \A a \in Artifacts : Record(l, entries).entries[a] =
               IF a \in A THEN entries[a] ELSE l.entries[a]
<1> DEFINE new == [a \in Artifacts |->
                     IF a \in A THEN entries[a] ELSE l.entries[a]]
<1>1. DOMAIN entries = A
  OBVIOUS
<1>2. Record(l, entries) = [l EXCEPT !.entries = new]
  BY <1>1 DEF Record, Ledger
<1>3. new \in Entries
  BY LedgerFacts DEF Entries
<1>4. QED
  BY <1>2, <1>3 DEF Ledger

LEMMA PlanType ==
  \A want, entries : Plan(want, entries) \subseteq Artifacts
BY DEF Plan

LEMMA TurnsType ==
  ASSUME NEW want, NEW todoSet \in SUBSET Artifacts,
         NEW A \in Turns(todoSet, want)
  PROVE  A \in SUBSET Artifacts /\ A \subseteq todoSet
BY DEF Turns

LEMMA PendingType ==
  ASSUME TypeInv, NEW p \in Proc, pc[p] = "work",
         NEW A \in SUBSET Artifacts, Consistent(p, A)
  PROVE  [a \in A |-> PendingEntry(p, a)] \in [A -> Entry]
<1>1. desired[p].want \in Wanted /\ ledger[p] \in Ledger
  BY DEF TypeInv, MemoryOK, MemoryOf, Planned, WithLedger, DesiredPublication
<1>2. ASSUME NEW a \in A PROVE PendingEntry(p, a) \in Entry
  <2>1. desired[p].want[a] \in {Absent} \cup Hash
    BY <1>1 DEF Wanted
  <2>2. CASE desired[p].want[a] = Absent
    <3>1. ledger[p].entries[a] \in Entry
      BY <1>1, <2>2, LedgerFacts DEF Consistent
    <3>2. QED
      BY <2>2, <3>1 DEF PendingEntry, Entry, OperationState
  <2>3. CASE desired[p].want[a] # Absent
    BY <2>1, <2>3 DEF PendingEntry, Entry, OperationState
  <2>4. QED
    BY <2>2, <2>3
<1>3. QED
  BY <1>2

LEMMA SettledType ==
  ASSUME TypeInv, NEW p \in Proc, pc[p] = "settle"
  PROVE  Settled(p) \in Ledger
<1>1. /\ desired[p].want \in Wanted /\ ledger[p] \in Ledger
      /\ before[p] \in Ledger /\ turn[p] \in SUBSET Artifacts
      /\ \A a \in turn[p] : ledger[p].entries[a] \in Entry
  BY DEF TypeInv, TypeOK, MemoryOK, MemoryOf, Planned, WithLedger, Underway,
         DesiredPublication
<1>2. \A h \in {Absent} \cup Hash : Confirmed(h) \in {Absent} \cup Entry
  BY HashFacts DEF Confirmed, Entry, OperationState
<1>3. Altered \in Hash
  BY DEF Altered, Hash
<1>4. Record(ledger[p], [a \in turn[p] |-> Confirmed(desired[p].want[a])])
        \in Ledger
  <2>1. [a \in turn[p] |-> Confirmed(desired[p].want[a])]
          \in [turn[p] -> {Absent} \cup Entry]
    BY <1>1, <1>2 DEF Wanted
  <2>2. QED
    BY <1>1, <2>1, RecordType
<1>5. Record(ledger[p], [a \in turn[p] |-> Confirmed(Altered)]) \in Ledger
  BY <1>1, <1>2, <1>3, RecordType
<1>6. Record(ledger[p],
             [a \in turn[p] |->
                 [ledger[p].entries[a] EXCEPT !.status = "Unknown"]])
        \in Ledger
  <2>1. ASSUME NEW a \in turn[p]
        PROVE  [ledger[p].entries[a] EXCEPT !.status = "Unknown"] \in Entry
    BY <1>1 DEF Entry, OperationState
  <2>2. [a \in turn[p] |->
            [ledger[p].entries[a] EXCEPT !.status = "Unknown"]]
          \in [turn[p] -> {Absent} \cup Entry]
    BY <2>1
  <2>3. QED
    BY <1>1, <2>2, RecordType
<1>7. QED
  BY <1>1, <1>4, <1>5, <1>6 DEF Settled


-----------------------------------------------------------------------------
(* What the steps have in common.                                          *)

\* The part of the type invariant that the services and files make up.
SharedOK ==
    /\ local \in Publication
    /\ ledgerFile \in {Absent} \cup Ledger
    /\ remote \in Wanted
    /\ building \in SUBSET Gallery

LEMMA EndRunInv ==
  ASSUME TypeInv, NEW p \in Proc, EndRun(p), SharedOK'
  PROVE  TypeInv'
<1> USE DEF TypeInv, EndRun, Goto
<1>1. 0 \in Tries
  BY BoundAssumption DEF Tries
<1>2. TypeOK'
  BY <1>1 DEF TypeOK, SharedOK, Labels, Answers
<1>3. ASSUME NEW q \in Proc PROVE MemoryOf(q)'
  <2>1. CASE q = p
    <3>1. pc'[q] = "idle"
      BY <2>1 DEF TypeOK
    <3>2. QED
      BY <3>1 DEF MemoryOf, Planned, WithLedger, Underway
  <2>2. CASE q # p
    <3>1. /\ pc'[q] = pc[q] /\ bundle'[q] = bundle[q]
          /\ desired'[q] = desired[q] /\ ledger'[q] = ledger[q]
          /\ turn'[q] = turn[q] /\ before'[q] = before[q]
      BY <2>2 DEF TypeOK
    <3>2. QED
      BY <3>1 DEF MemoryOK, MemoryOf
  <2>3. QED
    BY <2>1, <2>2
<1>4. QED
  BY <1>2, <1>3 DEF MemoryOK

\* An answer leaves all but the services and the answer as they are.
LEMMA AnsweredInv ==
  ASSUME TypeInv, NEW p \in Proc, pc[p] \in {"call", "poll"},
         NEW kind \in Answers, Answered(p, kind),
         remote' \in Wanted, building' \in SUBSET Gallery
  PROVE  TypeInv'
<1> USE DEF TypeInv, Answered, Goto, files, reading
<1>1. TypeOK'
  BY DEF TypeOK, Labels
<1>2. ASSUME NEW q \in Proc PROVE MemoryOf(q)'
  <2>1. /\ pc'[q] = pc[q] \/ (q = p /\ pc'[q] = "settle")
        /\ bundle' = bundle /\ desired' = desired /\ ledger' = ledger
        /\ turn' = turn /\ before' = before
    BY DEF TypeOK
  <2>2. QED
    BY <2>1 DEF MemoryOK, MemoryOf, Planned, WithLedger, Underway
<1>3. QED
  BY <1>1, <1>2 DEF MemoryOK

LEMMA AgainInv ==
  ASSUME TypeInv, NEW p \in Proc, Again(p, MaxRetries) \/ Again(p, MaxPolls),
         remote' \in Wanted, building' \in SUBSET Gallery
  PROVE  TypeInv'
<1> USE DEF TypeInv, Again, files, reading
<1>1. \A n \in Tries : n < MaxRetries \/ n < MaxPolls => n + 1 \in Tries
  BY BoundAssumption DEF Tries
<1>2. tries' \in [Proc -> Tries]
  BY <1>1 DEF TypeOK
<1>3. TypeOK'
  BY <1>2 DEF TypeOK
<1>4. MemoryOK'
  BY DEF MemoryOK, MemoryOf
<1>5. QED
  BY <1>3, <1>4

\* A service that carries out an operation ends up in the desired state.
LEMMA DoneType ==
  ASSUME TypeInv, NEW p \in Proc, pc[p] \in Planned, TurnDone(p)
  PROVE  remote' \in Wanted
<1>1. desired[p].want \in Wanted /\ remote \in Wanted
  BY DEF TypeInv, TypeOK, MemoryOK, MemoryOf, DesiredPublication
<1>2. QED
  BY <1>1 DEF TurnDone, Wanted

LEMMA AlteredType ==
  ASSUME TypeInv, NEW A,
         remote' = [a \in Artifacts |-> IF a \in A THEN Altered ELSE remote[a]]
  PROVE  remote' \in Wanted
BY DEF TypeInv, TypeOK, Wanted, Altered, Hash

-----------------------------------------------------------------------------
(* One lemma per action.                                                   *)

LEMMA InitType == Init => TypeInv
<1> SUFFICES ASSUME Init PROVE TypeInv
  OBVIOUS
<1> USE DEF Init
<1>1. local \in Publication
  BY BoundAssumption DEF Publication, Gallery
<1>2. 0 \in Tries
  BY BoundAssumption DEF Tries
<1>3. TypeOK
  BY <1>1, <1>2 DEF TypeOK, Wanted, Labels, Answers
<1>4. MemoryOK
  BY DEF MemoryOK, MemoryOf, Planned, WithLedger, Underway
<1>5. QED
  BY <1>3, <1>4 DEF TypeInv

LEMMA BuildLocalType ==
  ASSUME TypeOK, NEW g \in Gallery, BuildLocal(g)
  PROVE  local' \in Publication
<1>1. CASE UNCHANGED local
  BY <1>1 DEF TypeOK
<1>2. CASE local.gen < MaxGeneration
           /\ local' = [gen |-> local.gen + 1, shows |-> g]
  <2>1. local.gen + 1 \in 0 .. MaxGeneration
    BY <1>2, BoundAssumption DEF TypeOK, Publication
  <2>2. QED
    BY <1>2, <2>1 DEF Publication
<1>3. QED
  BY <1>1, <1>2 DEF BuildLocal

LEMMA PrepareInv ==
  ASSUME TypeInv, Prepare
  PROVE  TypeInv'
<1>1. local' \in Publication
  BY BuildLocalType DEF Prepare, TypeInv
<1>2. QED
  BY <1>1 DEF Prepare, services, reading, call, TypeInv, TypeOK, MemoryOK,
              MemoryOf

LEMMA StartPublishInv ==
  ASSUME TypeInv, NEW p \in Proc, StartPublish(p)
  PROVE  TypeInv'
<1> USE DEF TypeInv, StartPublish, Goto, services, reading, call
<1>1. local' \in Publication
  BY BuildLocalType
<1>2. TypeOK'
  BY <1>1 DEF TypeOK, Labels
<1>3. ASSUME NEW q \in Proc PROVE MemoryOf(q)'
  <2>1. pc'[q] = pc[q] \/ pc'[q] = "bundle"
    BY DEF TypeOK
  <2>2. QED
    BY <2>1 DEF MemoryOK, MemoryOf, Planned, WithLedger, Underway
<1>4. QED
  BY <1>2, <1>3 DEF MemoryOK

LEMMA ReadBundleInv ==
  ASSUME TypeInv, NEW p \in Proc, ReadBundle(p)
  PROVE  TypeInv'
<1> USE DEF TypeInv, ReadBundle, Goto, files, services, call
<1>1. local.shows \in Gallery
  BY DEF TypeOK, Publication
<1>2. TypeOK'
  BY <1>1 DEF TypeOK, Labels
<1>3. ASSUME NEW q \in Proc PROVE MemoryOf(q)'
  <2>1. \/ pc'[q] = pc[q] /\ bundle'[q] = bundle[q]
        \/ pc'[q] = "desire" /\ bundle'[q] = local.shows
    BY DEF TypeOK
  <2>2. QED
    BY <1>1, <2>1 DEF MemoryOK, MemoryOf, Planned, WithLedger, Underway
<1>4. QED
  BY <1>2, <1>3 DEF MemoryOK

LEMMA ReadDesiredInv ==
  ASSUME TypeInv, NEW p \in Proc, ReadDesired(p)
  PROVE  TypeInv'
<1> USE DEF TypeInv, ReadDesired, Goto, files, services, call
<1>1. PICK c \in Config :
        desired' = [desired EXCEPT ![p] =
            [header |-> [config |-> c, gen |-> local.gen,
                         shows |-> local.shows],
             want |-> Desired(bundle[p], local.shows)]]
  OBVIOUS
<1> DEFINE want == Desired(bundle[p], local.shows)
           new == [header |-> [config |-> c, gen |-> local.gen,
                               shows |-> local.shows],
                   want |-> want]
<1>2. want \in Wanted /\ want[Site] \in Hash
  BY DesiredType DEF MemoryOK, MemoryOf, TypeOK, Publication
<1>3. local.gen \in Nat /\ local.shows \in Gallery
  BY BoundAssumption DEF TypeOK, Publication
<1>4. new \in DesiredPublication /\ new.want[Site] \in Hash
  BY <1>2, <1>3 DEF DesiredPublication, Header
<1>5. desired' = [desired EXCEPT ![p] = new]
  BY <1>1
<1> HIDE DEF new
<1>6. TypeOK'
  BY <1>4, <1>5 DEF TypeOK, Labels
<1>7. ASSUME NEW q \in Proc PROVE MemoryOf(q)'
  <2>1. \/ pc'[q] = pc[q] /\ desired'[q] = desired[q]
        \/ pc'[q] = "plan" /\ desired'[q] = new
    BY <1>5 DEF TypeOK
  <2>2. QED
    BY <1>4, <2>1 DEF MemoryOK, MemoryOf, Planned, WithLedger, Underway
<1>8. QED
  BY <1>6, <1>7 DEF MemoryOK

LEMMA MakePlanInv ==
  ASSUME TypeInv, NEW p \in Proc, MakePlan(p)
  PROVE  TypeInv'
<1> USE DEF TypeInv, MakePlan, Goto, files, services, reading, call
<1> DEFINE known == IF ledgerFile = Absent THEN NewLedger(desired[p].header)
                    ELSE ledgerFile
           plan == Plan(desired[p].want, known.entries)
<1>1. known \in Ledger
  <2>1. desired[p].header \in Header
    BY DEF MemoryOK, MemoryOf, Planned, DesiredPublication
  <2>2. NewLedger(desired[p].header) \in Ledger
    BY <2>1 DEF NewLedger, NoEntries, Ledger, Entries
  <2>3. QED
    BY <2>2 DEF TypeOK
<1>2. plan \in SUBSET Artifacts
  BY PlanType
<1>3. /\ ledger' = [ledger EXCEPT ![p] = known]
      /\ todo' = [todo EXCEPT ![p] = plan]
      /\ pc' = [pc EXCEPT ![p] = "coordinate"]
      /\ pc[p] = "plan"
  OBVIOUS
<1> HIDE DEF known, plan
<1>4. TypeOK'
  BY <1>1, <1>2, <1>3 DEF TypeOK, Labels
<1>5. ASSUME NEW q \in Proc PROVE MemoryOf(q)'
  <2>1. \/ pc'[q] = pc[q] /\ ledger'[q] = ledger[q]
        \/ pc'[q] = "coordinate" /\ ledger'[q] = known /\ pc[q] = "plan"
    BY <1>3 DEF TypeOK
  <2>2. QED
    BY <1>1, <2>1 DEF MemoryOK, MemoryOf, Planned, WithLedger, Underway
<1>6. QED
  BY <1>4, <1>5 DEF MemoryOK

LEMMA CoordinateInv ==
  ASSUME TypeInv, NEW p \in Proc, Coordinate(p)
  PROVE  TypeInv'
<1> USE DEF TypeInv, Coordinate, Goto, services, reading, call
<1> DEFINE adopted == Adopt(ledger[p], desired[p].header)
<1>1. ledger[p] \in Ledger /\ adopted \in Ledger
  BY DEF MemoryOK, MemoryOf, Planned, WithLedger, DesiredPublication, Adopt,
         Ledger
<1>2. \/ ledger' = ledger /\ ledgerFile' = ledgerFile
      \/ /\ ledger' = [ledger EXCEPT ![p] = adopted]
         /\ ledgerFile' = adopted
  BY DEF TypeOK
<1> HIDE DEF adopted
<1>3. TypeOK'
  BY <1>1, <1>2 DEF TypeOK, Labels
<1>4. ASSUME NEW q \in Proc PROVE MemoryOf(q)'
  <2>1. \/ pc'[q] = pc[q]
        \/ pc'[q] = "work" /\ pc[q] = "coordinate"
    BY DEF TypeOK
  <2>2. \/ ledger'[q] = ledger[q]
        \/ ledger'[q] = adopted /\ pc'[q] = "work"
    BY <1>2 DEF TypeOK
  <2>3. QED
    BY <1>1, <2>1, <2>2 DEF MemoryOK, MemoryOf, Planned, WithLedger, Underway
<1>5. QED
  BY <1>3, <1>4 DEF MemoryOK

LEMMA AnnounceInv ==
  ASSUME TypeInv, NEW p \in Proc, Announce(p)
  PROVE  TypeInv'
<1>1. PICK A \in Turns(todo[p], desired[p].want) :
        /\ Consistent(p, A)
        /\ ledger' = [ledger EXCEPT ![p] =
              Record(ledger[p], [a \in A |-> PendingEntry(p, a)])]
        /\ turn' = [turn EXCEPT ![p] = A]
  BY DEF Announce
<1> DEFINE pending == [a \in A |-> PendingEntry(p, a)]
           new == Record(ledger[p], pending)
<1>2. A \in SUBSET Artifacts
  BY TurnsType DEF TypeInv, TypeOK
<1>3. pending \in [A -> Entry]
  BY <1>1, <1>2, PendingType DEF Announce
<1>4. ledger[p] \in Ledger
  BY DEF TypeInv, MemoryOK, MemoryOf, WithLedger, Announce
<1>5. /\ new \in Ledger
      /\ \A a \in A : new.entries[a] \in Entry
  <2>1. pending \in [A -> {Absent} \cup Entry]
    BY <1>3
  <2> HIDE DEF pending
  <2>2. QED
    BY <1>2, <1>3, <1>4, <2>1, RecordType
<1>6. ledger' = [ledger EXCEPT ![p] = new]
  BY <1>1
<1> HIDE DEF new
<1>7. ledgerFile' = new
  BY <1>6 DEF TypeInv, TypeOK, Announce
<1> USE DEF TypeInv, Announce, Goto, services, reading
<1>8. TypeOK'
  BY <1>1, <1>2, <1>4, <1>5, <1>6, <1>7 DEF TypeOK, Labels
<1>9. ASSUME NEW q \in Proc PROVE MemoryOf(q)'
  <2>1. CASE q = p
    <3>1. /\ pc'[q] = "call" /\ pc[q] = "work" /\ desired'[q] = desired[q]
          /\ ledger'[q] = new /\ turn'[q] = A /\ before'[q] = ledger[q]
      BY <1>1, <1>6, <2>1 DEF TypeOK
    <3>2. QED
      BY <1>5, <3>1 DEF MemoryOK, MemoryOf, Planned, WithLedger, Underway
  <2>2. CASE q # p
    <3>1. /\ pc'[q] = pc[q] /\ desired'[q] = desired[q]
          /\ bundle'[q] = bundle[q] /\ ledger'[q] = ledger[q]
          /\ turn'[q] = turn[q] /\ before'[q] = before[q]
      BY <1>1, <1>6, <2>2 DEF TypeOK
    <3>2. QED
      BY <3>1 DEF MemoryOK, MemoryOf
  <2>3. QED
    BY <2>1, <2>2
<1>10. QED
  BY <1>8, <1>9 DEF MemoryOK

LEMMA SettleInv ==
  ASSUME TypeInv, NEW p \in Proc, Settle(p)
  PROVE  TypeInv'
<1>1. Settled(p) \in Ledger
  BY SettledType DEF Settle
<1>2. CASE answer[p] # "ok"
  <2>1. EndRun(p)
    BY <1>2 DEF Settle
  <2>2. SharedOK'
    BY <1>1 DEF Settle, SharedOK, TypeInv, TypeOK, services
  <2>3. QED
    BY <2>1, <2>2, EndRunInv
<1>3. CASE answer[p] = "ok"
  <2>1. /\ pc[p] = "settle"
        /\ ledgerFile' = Settled(p)
        /\ pc' = [pc EXCEPT ![p] = "work"]
        /\ ledger' = [ledger EXCEPT ![p] = Settled(p)]
        /\ todo' = [todo EXCEPT ![p] = @ \ turn[p]]
        /\ turn' = [turn EXCEPT ![p] = {}]
        /\ before' = [before EXCEPT ![p] = Absent]
        /\ answer' = [answer EXCEPT ![p] = "none"]
        /\ tries' = [tries EXCEPT ![p] = 0]
        /\ UNCHANGED <<bundle, desired, local, remote, building>>
    BY <1>3 DEF Settle, Goto, reading, services
  <2>2. 0 \in Tries
    BY BoundAssumption DEF Tries
  <2>3. TypeOK'
    BY <1>1, <2>1, <2>2 DEF TypeInv, TypeOK, Labels, Answers
  <2>4. ASSUME NEW q \in Proc PROVE MemoryOf(q)'
    <3>1. CASE q = p
      <4>1. /\ pc'[q] = "work" /\ pc[q] = "settle" /\ desired' = desired
            /\ ledger'[q] = Settled(p)
        BY <2>1, <3>1 DEF TypeInv, TypeOK
      <4>2. QED
        BY <1>1, <4>1
        DEF TypeInv, MemoryOK, MemoryOf, Planned, WithLedger, Underway
    <3>2. CASE q # p
      <4>1. /\ pc'[q] = pc[q] /\ desired'[q] = desired[q]
            /\ bundle'[q] = bundle[q] /\ ledger'[q] = ledger[q]
            /\ turn'[q] = turn[q] /\ before'[q] = before[q]
        BY <2>1, <3>2 DEF TypeInv, TypeOK
      <4>2. QED
        BY <4>1 DEF TypeInv, MemoryOK, MemoryOf
    <3>3. QED
      BY <3>1, <3>2
  <2>5. QED
    BY <2>3, <2>4 DEF TypeInv, MemoryOK
<1>4. QED
  BY <1>2, <1>3

LEMMA EndingInv ==
  ASSUME TypeInv, NEW p \in Proc, Stop(p) \/ Refuse(p) \/ Finish(p)
  PROVE  TypeInv'
<1>1. EndRun(p) /\ UNCHANGED <<files, services>>
  BY DEF Stop, Refuse, Finish
<1>2. SharedOK'
  BY <1>1 DEF TypeInv, TypeOK, SharedOK, files, services
<1>3. QED
  BY <1>1, <1>2, EndRunInv

LEMMA CallInv ==
  ASSUME TypeInv, NEW p \in Proc,
         PutObject(p) \/ DeleteObject(p) \/ CommitFiles(p)
  PROVE  TypeInv'
<1>1. pc[p] = "call" /\ UNCHANGED building
  BY DEF PutObject, DeleteObject, CommitFiles, Calling
<1>2. /\ \/ TurnDone(p) \/ UNCHANGED remote
         \/ remote' = [a \in Artifacts |->
                          IF a \in turn[p] THEN Altered ELSE remote[a]]
      /\ \/ \E kind \in Answers : Answered(p, kind)
         \/ Again(p, MaxRetries)
  BY DEF PutObject, DeleteObject, CommitFiles, Answers
<1>3. remote' \in Wanted
  BY <1>1, <1>2, DoneType, AlteredType DEF Planned, TypeInv, TypeOK
<1>4. building' \in SUBSET Gallery
  BY <1>1 DEF TypeInv, TypeOK
<1>5. QED
  BY <1>1, <1>2, <1>3, <1>4, AnsweredInv, AgainInv

LEMMA CreateDeploymentInv ==
  ASSUME TypeInv, NEW p \in Proc, CreateDeployment(p)
  PROVE  TypeInv'
<1>1. /\ pc[p] = "call" /\ UNCHANGED remote
      /\ building' \in {building, building \cup {desired[p].want[Site]}}
  BY DEF CreateDeployment, Calling
<1>2. desired[p].want[Site] \in Gallery
  BY <1>1 DEF TypeInv, MemoryOK, MemoryOf, Planned, Hash, Gallery
<1>3. building' \in SUBSET Gallery /\ remote' \in Wanted
  BY <1>1, <1>2 DEF TypeInv, TypeOK
<1>4. CASE \E kind \in Answers : Answered(p, kind)
  BY <1>1, <1>3, <1>4, AnsweredInv
<1>5. CASE /\ Goto(p, "poll")
           /\ UNCHANGED <<files, reading, ledger, todo, call>>
  <2> USE <1>5 DEF TypeInv, Goto, files, reading, call
  <2>1. TypeOK'
    BY <1>3 DEF TypeOK, Labels
  <2>2. ASSUME NEW q \in Proc PROVE MemoryOf(q)'
    <3>1. pc'[q] = pc[q] \/ (pc'[q] = "poll" /\ pc[q] = "call")
      BY <1>1 DEF TypeOK
    <3>2. QED
      BY <3>1 DEF MemoryOK, MemoryOf, Planned, WithLedger, Underway
  <2>3. QED
    BY <2>1, <2>2 DEF MemoryOK
<1>6. QED
  BY <1>4, <1>5 DEF CreateDeployment, Answers

LEMMA PollInv ==
  ASSUME TypeInv, NEW p \in Proc, Poll(p)
  PROVE  TypeInv'
<1>1. /\ pc[p] = "poll"
      /\ remote' \in Wanted /\ building' \in SUBSET Gallery
  BY DEF Poll, services, TypeInv, TypeOK
<1>2. Again(p, MaxPolls) \/ \E kind \in Answers : Answered(p, kind)
  BY DEF Poll, Answers
<1>3. QED
  BY <1>1, <1>2, AnsweredInv, AgainInv

LEMMA BuildEndsInv ==
  ASSUME TypeInv, BuildEnds
  PROVE  TypeInv'
<1> USE DEF TypeInv, files, reading, call
<1>1. PICK g \in building :
        /\ building' = building \ {g}
        /\ \/ remote' = [remote EXCEPT ![Site] = g]
           \/ UNCHANGED remote
        /\ UNCHANGED <<files, pc, reading, ledger, todo, call>>
  BY DEF BuildEnds
<1>2. g \in Hash /\ building' \in SUBSET Gallery
  BY <1>1 DEF TypeOK, Gallery, Hash
<1>3. remote' \in Wanted
  BY <1>1, <1>2, ArtifactKinds DEF TypeOK, Wanted
<1>4. TypeOK'
  BY <1>1, <1>2, <1>3 DEF TypeOK
<1>5. MemoryOK'
  BY <1>1 DEF MemoryOK, MemoryOf
<1>6. QED
  BY <1>4, <1>5

LEMMA NextType == TypeInv /\ [Next]_vars => TypeInv'
<1> SUFFICES ASSUME TypeInv, [Next]_vars PROVE TypeInv'
  OBVIOUS
<1>1. ASSUME NEW p \in Proc, StartPublish(p) \/ Step(p) \/ Stop(p)
      PROVE  TypeInv'
  BY <1>1, StartPublishInv, ReadBundleInv, ReadDesiredInv, MakePlanInv,
     CoordinateInv, AnnounceInv, SettleInv, EndingInv, CallInv,
     CreateDeploymentInv, PollInv
  DEF Step
<1>2. CASE UNCHANGED vars
  BY <1>2 DEF vars, files, services, reading, call, TypeInv, TypeOK, MemoryOK,
              MemoryOf
<1>3. QED
  BY <1>1, <1>2, PrepareInv, BuildEndsInv DEF Next

LEMMA TypeInvariance == Spec => []TypeInv
BY InitType, NextType, PTL DEF Spec

\* Ledger, memory and services keep their kinds for any number of processes,
\* photos and retries, whoever runs beside whom and stops where; in particular
\* every entry that is Pending or Unknown has a hash, and no provider sends
\* more requests than its limits allow.
THEOREM TypeCorrect == Spec => []TypeOK
<1>1. TypeInv => TypeOK
  BY DEF TypeInv
<1>2. QED
  BY <1>1, TypeInvariance, PTL

-----------------------------------------------------------------------------
(* What the ledger file is worth.                                          *)


\* At most one process is in a run.
Alone == \A p, q \in Proc : (pc[p] # "idle" /\ pc[q] # "idle") => p = q

\* The ledger in memory is the one on disk.
MemoryMatches(p) ==
    pc[p] \in WithLedger =>
        /\ \A a \in Artifacts : ledger[p].entries[a] = DurableEntry(a)
        /\ ledgerFile # Absent => ledger[p].header = ledgerFile.header

\* An operation under way has only opened the entries of its own artifacts.
OnlyTurnOpen(p) ==
    pc[p] \in Underway =>
        /\ before[p].header = ledger[p].header
        /\ \A a \in turn[p] : ~Certain(ledger[p].entries[a])
        /\ \A a \in Artifacts \ turn[p] :
              ledger[p].entries[a] = before[p].entries[a]

\* The services are as they were when the operation was announced.
Untouched(p) ==
    /\ \A a \in turn[p] : remote[a] = HashOf(before[p].entries[a])
    /\ Site \in turn[p] => building = {}

\* They are as the operation has been asked to leave them.
Done(p) ==
    /\ \A a \in turn[p] : remote[a] = desired[p].want[a]
    /\ Site \in turn[p] => building = {}

\* What is known of an operation at each point of its call.
CallProgress(p) ==
    /\ pc[p] \notin Underway => tries[p] = 0
    /\ pc[p] = "call" =>
          /\ tries[p] = 0 => Untouched(p)
          /\ tries[p] # 0 => turn[p] \subseteq Objects /\ ~Puts(p)
    /\ pc[p] = "poll" => /\ turn[p] = {Site}
                         /\ building \subseteq {desired[p].want[Site]}
    /\ pc[p] = "settle" =>
          /\ answer[p] = "ok" => Done(p)
          /\ answer[p] = "altered" =>
                Site \notin turn[p] /\ \A a \in turn[p] : remote[a] = Altered
          /\ answer[p] = "refused" => Untouched(p)

OperationOK(p) == MemoryMatches(p) /\ OnlyTurnOpen(p) /\ CallProgress(p)

TruthInv ==
    /\ TypeInv
    /\ Alone
    /\ LedgerIsTruthful
    /\ \A p \in Proc : OperationOK(p)

-----------------------------------------------------------------------------
(* What the steps have in common.                                          *)

\* One process at a time: a step only has to mind its own operation.
LEMMA OwnStep ==
  ASSUME TruthInv, NEW p \in Proc, pc[p] # "idle" \/ OthersIdle(p),
         \A q \in Proc \ {p} : pc'[q] = pc[q] /\ tries'[q] = tries[q],
         TypeInv', LedgerIsTruthful', OperationOK(p)'
  PROVE  TruthInv'
<1>1. \A q \in Proc \ {p} : pc[q] = "idle"
  BY DEF TruthInv, Alone, OthersIdle
<1>2. Alone'
  BY <1>1 DEF Alone
<1>3. ASSUME NEW q \in Proc \ {p} PROVE OperationOK(q)'
  BY <1>1
  DEF TruthInv, OperationOK, MemoryMatches, OnlyTurnOpen, CallProgress,
      WithLedger, Underway
<1>4. QED
  BY <1>2, <1>3 DEF TruthInv

LEMMA TruthUnchanged ==
  ASSUME LedgerIsTruthful, UNCHANGED <<ledgerFile, remote, building>>
  PROVE  LedgerIsTruthful'
BY DEF LedgerIsTruthful, DurableEntry

\* Recording an entry for which the service can vouch, or an open one, or
\* what was there before, keeps the ledger truthful.
LEMMA TruthRecorded ==
  ASSUME LedgerIsTruthful, ledgerFile' \in Ledger, UNCHANGED services,
         \A a \in Artifacts :
            \/ ledgerFile'.entries[a] = DurableEntry(a)
            \/ ~Certain(ledgerFile'.entries[a])
            \/ /\ remote[a] = HashOf(ledgerFile'.entries[a])
               /\ a = Site => building = {}
  PROVE  LedgerIsTruthful'
<1>1. \A a : DurableEntry(a)' = ledgerFile'.entries[a]
  BY LedgerFacts DEF DurableEntry
<1>2. Site \in Artifacts
  BY ArtifactKinds
<1>3. QED
  BY <1>1, <1>2 DEF LedgerIsTruthful, services

\* A change of artifacts whose entries are open keeps the ledger truthful.
LEMMA TruthOpen ==
  ASSUME LedgerIsTruthful, UNCHANGED <<ledgerFile, building>>,
         \A a \in Artifacts : Certain(DurableEntry(a)) => remote'[a] = remote[a]
  PROVE  LedgerIsTruthful'
BY DEF LedgerIsTruthful, DurableEntry

\* The entries of the operation under way are open on disk.
LEMMA TurnIsOpen ==
  ASSUME TruthInv, NEW p \in Proc, pc[p] \in Underway
  PROVE  \A a \in turn[p] : ~Certain(DurableEntry(a))
BY DEF TruthInv, OperationOK, MemoryMatches, OnlyTurnOpen, WithLedger,
       Underway, TypeInv, TypeOK

LEMMA EndRunTruth ==
  ASSUME TruthInv, NEW p \in Proc, EndRun(p)
  PROVE  OperationOK(p)'
BY DEF TruthInv, TypeInv, TypeOK, EndRun, Goto, OperationOK, MemoryMatches,
       OnlyTurnOpen, CallProgress, WithLedger, Underway

-----------------------------------------------------------------------------
(* The steps that read and plan.                                           *)

LEMMA InitTruth == Init => TruthInv
<1> SUFFICES ASSUME Init PROVE TruthInv
  OBVIOUS
<1>1. TypeInv
  BY InitType
<1>2. Alone /\ LedgerIsTruthful
  BY ArtifactKinds DEF Init, Alone, LedgerIsTruthful, DurableEntry, HashOf
<1>3. \A p \in Proc : OperationOK(p)
  BY DEF Init, OperationOK, MemoryMatches, OnlyTurnOpen, CallProgress,
         WithLedger, Underway
<1>4. QED
  BY <1>1, <1>2, <1>3 DEF TruthInv

LEMMA PrepareTruth ==
  ASSUME TruthInv, Prepare
  PROVE  TruthInv'
<1>1. TypeInv'
  BY PrepareInv DEF TruthInv
<1>2. UNCHANGED <<ledgerFile, remote, building, pc, desired, ledger, turn,
                  before, answer, tries>>
  BY DEF Prepare, services, reading, call
<1>3. LedgerIsTruthful'
  BY <1>2, TruthUnchanged DEF TruthInv
<1>4. QED
  BY <1>1, <1>2, <1>3
  DEF TruthInv, Alone, OperationOK, MemoryMatches, OnlyTurnOpen, CallProgress,
      Untouched, Done, Puts, DurableEntry

LEMMA StartPublishTruth ==
  ASSUME Solo, TruthInv, NEW p \in Proc, StartPublish(p)
  PROVE  TruthInv'
<1>1. TypeInv'
  BY StartPublishInv DEF TruthInv
<1>2. LedgerIsTruthful'
  BY TruthUnchanged DEF TruthInv, StartPublish, services
<1>3. OperationOK(p)'
  BY DEF TruthInv, TypeInv, TypeOK, StartPublish, Goto, call, OperationOK,
         MemoryMatches, OnlyTurnOpen, CallProgress, WithLedger, Underway
<1>4. /\ OthersIdle(p)
      /\ \A q \in Proc \ {p} : pc'[q] = pc[q] /\ tries'[q] = tries[q]
  BY DEF TruthInv, TypeInv, TypeOK, StartPublish, Goto, call
<1>5. QED
  BY <1>1, <1>2, <1>3, <1>4, OwnStep

LEMMA ReadTruth ==
  ASSUME TruthInv, NEW p \in Proc, ReadBundle(p) \/ ReadDesired(p)
  PROVE  TruthInv'
<1>1. TypeInv'
  BY ReadBundleInv, ReadDesiredInv DEF TruthInv
<1>2. LedgerIsTruthful'
  BY TruthUnchanged DEF TruthInv, ReadBundle, ReadDesired, services, files
<1>3. pc[p] \in {"bundle", "desire"} /\ pc'[p] \in {"desire", "plan"}
  BY DEF TruthInv, TypeInv, TypeOK, ReadBundle, ReadDesired, Goto
<1>4. UNCHANGED tries /\ \A q \in Proc \ {p} : pc'[q] = pc[q]
  BY DEF TruthInv, TypeInv, TypeOK, ReadBundle, ReadDesired, Goto, call
<1>5. OperationOK(p)'
  BY <1>3, <1>4 DEF TruthInv, OperationOK, MemoryMatches, OnlyTurnOpen,
                    CallProgress, WithLedger, Underway
<1>6. QED
  BY <1>1, <1>2, <1>3, <1>4, <1>5, OwnStep

LEMMA MakePlanTruth ==
  ASSUME TruthInv, NEW p \in Proc, MakePlan(p)
  PROVE  TruthInv'
<1>1. TypeInv'
  BY MakePlanInv DEF TruthInv
<1>2. LedgerIsTruthful'
  BY TruthUnchanged DEF TruthInv, MakePlan, services, files
<1>3. /\ pc[p] = "plan" /\ pc'[p] = "coordinate" /\ tries' = tries
      /\ ledgerFile' = ledgerFile
      /\ ledger'[p] = IF ledgerFile = Absent THEN NewLedger(desired[p].header)
                      ELSE ledgerFile
      /\ \A q \in Proc \ {p} : pc'[q] = pc[q]
  BY DEF TruthInv, TypeInv, TypeOK, MakePlan, Goto, call, files
<1>4. \A a \in Artifacts : ledger'[p].entries[a] = DurableEntry(a)'
  BY <1>3 DEF NewLedger, NoEntries, DurableEntry
<1>5. OperationOK(p)'
  BY <1>3, <1>4 DEF TruthInv, OperationOK, MemoryMatches, OnlyTurnOpen,
                    CallProgress, WithLedger, Underway
<1>6. QED
  BY <1>1, <1>2, <1>3, <1>5, OwnStep

LEMMA EndingTruth ==
  ASSUME TruthInv, NEW p \in Proc, Stop(p) \/ Refuse(p) \/ Finish(p)
  PROVE  TruthInv'
<1>1. EndRun(p) /\ UNCHANGED <<ledgerFile, remote, building>> /\ pc[p] # "idle"
  BY DEF Stop, Refuse, Finish, files, services
<1>2. TypeInv'
  BY EndingInv DEF TruthInv
<1>3. LedgerIsTruthful' /\ OperationOK(p)'
  BY <1>1, TruthUnchanged, EndRunTruth DEF TruthInv
<1>4. \A q \in Proc \ {p} : pc'[q] = pc[q] /\ tries'[q] = tries[q]
  BY <1>1 DEF TruthInv, TypeInv, TypeOK, EndRun, Goto
<1>5. QED
  BY <1>1, <1>2, <1>3, <1>4, OwnStep


-----------------------------------------------------------------------------
(* The steps that write the ledger.                                        *)

LEMMA CoordinateTruth ==
  ASSUME TruthInv, NEW p \in Proc, Coordinate(p)
  PROVE  TruthInv'
<1> DEFINE adopted == Adopt(ledger[p], desired[p].header)
<1>1. TypeInv'
  BY CoordinateInv DEF TruthInv
<1>2. /\ pc[p] = "coordinate" /\ pc'[p] = "work" /\ UNCHANGED <<tries, services>>
      /\ \A q \in Proc \ {p} : pc'[q] = pc[q]
  BY DEF TruthInv, TypeInv, TypeOK, Coordinate, Goto, call
<1>3. \A a \in Artifacts : ledger[p].entries[a] = DurableEntry(a)
  BY <1>2 DEF TruthInv, OperationOK, MemoryMatches, WithLedger
<1>4. CASE UNCHANGED <<ledger, ledgerFile>>
  <2>1. LedgerIsTruthful'
    BY <1>2, <1>4, TruthUnchanged DEF TruthInv, services
  <2>2. OperationOK(p)'
    BY <1>2, <1>4
    DEF TruthInv, OperationOK, MemoryMatches, OnlyTurnOpen, CallProgress,
        WithLedger, Underway, DurableEntry
  <2>3. QED
    BY <1>1, <1>2, <2>1, <2>2, OwnStep
<1>5. CASE ledger'[p] = adopted /\ ledgerFile' = adopted
  <2>1. adopted \in Ledger /\ adopted.entries = ledger[p].entries
    BY <1>2
    DEF TruthInv, TypeInv, MemoryOK, MemoryOf, Planned, WithLedger,
        DesiredPublication, Adopt, Ledger
  <2>2. \A a \in Artifacts : ledgerFile'.entries[a] = DurableEntry(a)
    BY <1>3, <1>5, <2>1
  <2>3. LedgerIsTruthful'
    BY <1>2, <1>5, <2>1, <2>2, TruthRecorded DEF TruthInv
  <2>4. \A a \in Artifacts : ledger'[p].entries[a] = DurableEntry(a)'
    BY <1>5, <2>1, LedgerFacts DEF DurableEntry
  <2>5. OperationOK(p)'
    BY <1>2, <1>5, <2>4
    DEF TruthInv, OperationOK, MemoryMatches, OnlyTurnOpen, CallProgress,
        WithLedger, Underway
  <2>6. QED
    BY <1>1, <1>2, <2>3, <2>5, OwnStep
<1>6. QED
  BY <1>4, <1>5 DEF TruthInv, TypeInv, TypeOK, Coordinate

LEMMA AnnounceTruth ==
  ASSUME TruthInv, NEW p \in Proc, Announce(p)
  PROVE  TruthInv'
<1>1. TypeInv'
  BY AnnounceInv DEF TruthInv
<1>2. PICK A \in Turns(todo[p], desired[p].want) :
        /\ Consistent(p, A)
        /\ ledger' = [ledger EXCEPT ![p] =
              Record(ledger[p], [a \in A |-> PendingEntry(p, a)])]
        /\ turn' = [turn EXCEPT ![p] = A]
  BY DEF Announce
<1> DEFINE pending == [a \in A |-> PendingEntry(p, a)]
           new == Record(ledger[p], pending)
<1>3. /\ pc[p] = "work" /\ pc'[p] = "call" /\ tries' = tries
      /\ ledger'[p] = new /\ ledgerFile' = new
      /\ turn'[p] = A /\ before'[p] = ledger[p]
      /\ UNCHANGED <<remote, building>>
      /\ \A q \in Proc \ {p} : pc'[q] = pc[q]
  BY <1>2 DEF TruthInv, TypeInv, TypeOK, Announce, Goto, services
<1>4. A \in SUBSET Artifacts
  BY TurnsType DEF TruthInv, TypeInv, TypeOK
<1>5. pending \in [A -> Entry] /\ \A a \in A : pending[a].status = "Pending"
  BY <1>2, <1>3, <1>4, PendingType DEF TruthInv, PendingEntry
<1>6. ledger[p] \in Ledger
  BY <1>3 DEF TruthInv, TypeInv, MemoryOK, MemoryOf, WithLedger
<1>7. /\ new \in Ledger /\ new.header = ledger[p].header
      /\ \A a \in Artifacts : new.entries[a] =
            IF a \in A THEN pending[a] ELSE ledger[p].entries[a]
  <2>1. pending \in [A -> {Absent} \cup Entry]
    BY <1>5
  <2> HIDE DEF pending
  <2>2. QED
    BY <1>4, <1>6, <2>1, RecordType
<1> HIDE DEF new
<1>8. \A a \in A : ~Certain(new.entries[a])
  BY <1>4, <1>5, <1>7, EntryFacts DEF Certain
<1>9. \A a \in Artifacts : ledger[p].entries[a] = DurableEntry(a)
  BY <1>3 DEF TruthInv, OperationOK, MemoryMatches, WithLedger
<1>10. LedgerIsTruthful'
  BY <1>3, <1>7, <1>8, <1>9, TruthRecorded DEF TruthInv, services
<1>11. Untouched(p)'
  BY <1>2, <1>3, <1>4, <1>9
  DEF TruthInv, LedgerIsTruthful, Consistent, Untouched
<1>12. OperationOK(p)'
  <2>1. tries'[p] = 0
    BY <1>3 DEF TruthInv, OperationOK, CallProgress, Underway
  <2>2. \A a \in Artifacts : ledger'[p].entries[a] = DurableEntry(a)'
    BY <1>3, <1>7, LedgerFacts DEF DurableEntry
  <2>3. QED
    BY <1>3, <1>7, <1>8, <1>11, <2>1, <2>2
    DEF OperationOK, MemoryMatches, OnlyTurnOpen, CallProgress
<1>13. QED
  BY <1>1, <1>3, <1>10, <1>12, OwnStep

LEMMA ConfirmedFacts ==
  \A h \in {Absent} \cup Hash :
     HashOf(Confirmed(h)) = h /\ Confirmed(h) \in {Absent} \cup Entry
<1>1. \A h \in Hash : [hash |-> h, status |-> "Confirmed"] \in Entry
  BY DEF Entry, OperationState
<1>2. QED
  BY <1>1, HashFacts, EntryFacts DEF Confirmed, HashOf

\* What an answer makes of the ledger is so.
LEMMA SettledTruth ==
  ASSUME TruthInv, NEW p \in Proc, pc[p] = "settle"
  PROVE  \A a \in Artifacts :
            \/ Settled(p).entries[a] = DurableEntry(a)
            \/ ~Certain(Settled(p).entries[a])
            \/ /\ remote[a] = HashOf(Settled(p).entries[a])
               /\ a = Site => building = {}
<1>1. /\ desired[p].want \in Wanted /\ ledger[p] \in Ledger
      /\ before[p] \in Ledger /\ turn[p] \in SUBSET Artifacts
      /\ \A a \in turn[p] : ledger[p].entries[a] \in Entry
  BY DEF TruthInv, TypeInv, TypeOK, MemoryOK, MemoryOf, Planned, WithLedger,
         Underway, DesiredPublication
<1>2. /\ \A a \in Artifacts : ledger[p].entries[a] = DurableEntry(a)
      /\ \A a \in Artifacts \ turn[p] :
            ledger[p].entries[a] = before[p].entries[a]
      /\ answer[p] = "ok" => Done(p)
      /\ answer[p] = "altered" =>
            Site \notin turn[p] /\ \A a \in turn[p] : remote[a] = Altered
      /\ answer[p] = "refused" => Untouched(p)
  BY DEF TruthInv, OperationOK, MemoryMatches, OnlyTurnOpen, CallProgress,
         WithLedger, Underway
<1>3. CASE answer[p] = "ok"
  <2> DEFINE new == [a \in turn[p] |-> Confirmed(desired[p].want[a])]
  <2>1. new \in [turn[p] -> {Absent} \cup Entry]
    BY <1>1, ConfirmedFacts DEF Wanted
  <2>2. \A a \in turn[p] : HashOf(new[a]) = desired[p].want[a]
    BY <1>1, ConfirmedFacts DEF Wanted
  <2>3. Settled(p) = Record(ledger[p], new)
    BY <1>3 DEF Settled
  <2> HIDE DEF new
  <2>4. \A a \in Artifacts : Settled(p).entries[a] =
           IF a \in turn[p] THEN new[a] ELSE ledger[p].entries[a]
    BY <1>1, <2>1, <2>3, RecordType
  <2>5. QED
    BY <1>2, <1>3, <2>2, <2>4 DEF Done
<1>4. CASE answer[p] = "altered"
  <2> DEFINE new == [a \in turn[p] |-> Confirmed(Altered)]
  <2>1. Altered \in Hash
    BY DEF Altered, Hash
  <2>2. /\ new \in [turn[p] -> {Absent} \cup Entry]
        /\ \A a \in turn[p] : HashOf(new[a]) = Altered
    BY <2>1, ConfirmedFacts
  <2>3. Settled(p) = Record(ledger[p], new)
    BY <1>4 DEF Settled
  <2> HIDE DEF new
  <2>4. QED
    BY <1>1, <1>2, <1>4, <2>2, <2>3, RecordType
<1>5. CASE answer[p] = "refused"
  BY <1>2, <1>5 DEF Settled, Untouched
<1>6. CASE answer[p] \notin {"ok", "altered", "refused"}
  <2> DEFINE new == [a \in turn[p] |->
                       [ledger[p].entries[a] EXCEPT !.status = "Unknown"]]
  <2>1. /\ new \in [turn[p] -> {Absent} \cup Entry]
        /\ \A a \in turn[p] : new[a] # Absent /\ new[a].status = "Unknown"
    <3>1. ASSUME NEW a \in turn[p]
          PROVE  new[a] \in Entry /\ new[a].status = "Unknown"
      BY <1>1 DEF Entry, OperationState
    <3>2. QED
      BY <3>1, EntryFacts
  <2>2. Settled(p) = Record(ledger[p], new)
    BY <1>6 DEF Settled
  <2> HIDE DEF new
  <2>3. \A a \in Artifacts : Settled(p).entries[a] =
           IF a \in turn[p] THEN new[a] ELSE ledger[p].entries[a]
    BY <1>1, <2>1, <2>2, RecordType
  <2>4. QED
    BY <1>2, <2>1, <2>3 DEF Certain
<1>7. QED
  BY <1>3, <1>4, <1>5, <1>6

LEMMA SettleTruth ==
  ASSUME TruthInv, NEW p \in Proc, Settle(p)
  PROVE  TruthInv'
<1>1. TypeInv'
  BY SettleInv DEF TruthInv
<1>2. /\ pc[p] = "settle" /\ ledgerFile' = Settled(p)
      /\ UNCHANGED <<remote, building>>
      /\ Settled(p) \in Ledger
  BY SettledType DEF TruthInv, Settle, services
<1>3. LedgerIsTruthful'
  BY <1>2, SettledTruth, TruthRecorded DEF TruthInv, services
<1>4. /\ \A q \in Proc \ {p} : pc'[q] = pc[q] /\ tries'[q] = tries[q]
      /\ \/ EndRun(p)
         \/ /\ pc'[p] = "work" /\ tries'[p] = 0
            /\ ledger'[p] = Settled(p)
  BY DEF TruthInv, TypeInv, TypeOK, Settle, EndRun, Goto
<1>5. CASE EndRun(p)
  BY <1>1, <1>2, <1>3, <1>4, <1>5, EndRunTruth, OwnStep
<1>6. CASE pc'[p] = "work" /\ tries'[p] = 0 /\ ledger'[p] = Settled(p)
  <2>1. \A a \in Artifacts : ledger'[p].entries[a] = DurableEntry(a)'
    BY <1>2, <1>6, LedgerFacts DEF DurableEntry
  <2>2. OperationOK(p)'
    BY <1>2, <1>6, <2>1
    DEF OperationOK, MemoryMatches, OnlyTurnOpen, CallProgress, Underway
  <2>3. QED
    BY <1>1, <1>2, <1>3, <1>4, <2>2, OwnStep
<1>7. QED
  BY <1>4, <1>5, <1>6


-----------------------------------------------------------------------------
(* The calls.                                                              *)

\* What is left to show of a call that changes nothing but the services, the
\* answer and the count of requests.
LEMMA CallStep ==
  ASSUME TruthInv, NEW p \in Proc, pc[p] \in {"call", "poll"},
         TypeInv', LedgerIsTruthful', CallProgress(p)',
         \/ pc' = [pc EXCEPT ![p] = "settle"] /\ UNCHANGED tries
         \/ pc' = [pc EXCEPT ![p] = "poll"] /\ UNCHANGED tries
         \/ UNCHANGED pc /\ tries' = [tries EXCEPT ![p] = @ + 1],
         UNCHANGED <<ledgerFile, ledger, turn, before>>
  PROVE  TruthInv'
<1>1. /\ pc'[p] \in Underway
      /\ \A q \in Proc \ {p} : pc'[q] = pc[q] /\ tries'[q] = tries[q]
  BY DEF TruthInv, TypeInv, TypeOK, Underway
<1>2. pc[p] \in Underway /\ pc[p] \in WithLedger /\ pc[p] # "idle"
  BY DEF Underway, WithLedger
<1>3. MemoryMatches(p)' /\ OnlyTurnOpen(p)'
  BY <1>1, <1>2
  DEF TruthInv, OperationOK, MemoryMatches, OnlyTurnOpen, DurableEntry
<1>4. QED
  BY <1>1, <1>2, <1>3, OwnStep DEF OperationOK

\* The services may do what an announced operation asks for, or another
\* thing to its artifacts.
LEMMA TruthInTurn ==
  ASSUME TruthInv, NEW p \in Proc, pc[p] = "call",
         UNCHANGED <<ledgerFile, building>>,
         \/ UNCHANGED remote
         \/ \A a \in Artifacts \ turn[p] : remote'[a] = remote[a]
  PROVE  LedgerIsTruthful'
BY TurnIsOpen, TruthOpen DEF TruthInv, Underway

LEMMA ObjectTruth ==
  ASSUME TruthInv, NEW p \in Proc, PutObject(p)
  PROVE  TruthInv'
<1>1. TypeInv'
  BY CallInv DEF TruthInv
<1>2. /\ pc[p] = "call" /\ Site \notin turn[p] /\ Puts(p)
      /\ turn[p] \in SUBSET Artifacts
  BY ArtifactKinds
  DEF PutObject, Calling, TruthInv, TypeInv, TypeOK
<1>3. tries[p] = 0 /\ Untouched(p)
  BY <1>2 DEF TruthInv, OperationOK, CallProgress
<1>4. /\ UNCHANGED <<ledgerFile, ledger, turn, before, desired, tries, building>>
      /\ pc' = [pc EXCEPT ![p] = "settle"] /\ pc'[p] = "settle"
  BY DEF PutObject, Answered, Goto, files, reading, TruthInv, TypeInv, TypeOK
<1>5. \/ TurnDone(p) /\ answer'[p] \in {"ok", "unclear"}
      \/ /\ remote' = [a \in Artifacts |->
                          IF a \in turn[p] THEN Altered ELSE remote[a]]
         /\ answer'[p] = "altered"
      \/ UNCHANGED remote /\ answer'[p] \in {"refused", "unclear"}
  BY DEF PutObject, Answered, TruthInv, TypeInv, TypeOK
<1>6. LedgerIsTruthful'
  BY <1>2, <1>4, <1>5, TruthInTurn DEF TurnDone
<1>7. CallProgress(p)'
  BY <1>2, <1>3, <1>4, <1>5
  DEF CallProgress, Done, Untouched, TurnDone, Underway
<1>8. QED
  BY <1>1, <1>2, <1>4, <1>6, <1>7, CallStep

LEMMA DeleteTruth ==
  ASSUME StableAccess, TruthInv, NEW p \in Proc, DeleteObject(p)
  PROVE  TruthInv'
<1>1. TypeInv'
  BY CallInv DEF TruthInv
<1>2. /\ pc[p] = "call" /\ Site \notin turn[p] /\ ~Puts(p)
      /\ turn[p] \subseteq Objects /\ turn[p] \in SUBSET Artifacts
  BY ArtifactKinds
  DEF DeleteObject, Calling, TruthInv, TypeInv, TypeOK
<1>3. UNCHANGED <<ledgerFile, ledger, turn, before, desired, building>>
  BY DEF DeleteObject, Answered, Again, files, reading
<1>4. TurnDone(p) \/ UNCHANGED remote
  BY DEF DeleteObject
<1>5. LedgerIsTruthful'
  BY <1>2, <1>3, <1>4, TruthInTurn DEF TurnDone
<1>6. CASE Again(p, MaxRetries)
  <2>1. UNCHANGED pc /\ tries' = [tries EXCEPT ![p] = @ + 1]
    BY <1>6 DEF Again
  <2>2. pc'[p] = "call" /\ tries'[p] # 0
    BY <1>2, <2>1, BoundAssumption DEF TruthInv, TypeInv, TypeOK, Tries
  <2>3. CallProgress(p)'
    BY <1>2, <1>3, <2>2 DEF CallProgress, Puts, Underway
  <2>4. QED
    BY <1>1, <1>2, <1>3, <1>5, <2>1, <2>3, CallStep
<1>7. CASE \/ TurnDone(p) /\ Answered(p, "ok")
           \/ /\ tries[p] = 0 /\ UNCHANGED remote
              /\ Answered(p, "refused")
           \/ Answered(p, "unclear")
  <2>1. /\ pc' = [pc EXCEPT ![p] = "settle"] /\ pc'[p] = "settle"
        /\ UNCHANGED tries
        /\ \/ TurnDone(p) /\ answer'[p] = "ok"
           \/ tries[p] = 0 /\ UNCHANGED remote /\ answer'[p] = "refused"
           \/ answer'[p] = "unclear"
    BY <1>7 DEF Answered, Goto, TruthInv, TypeInv, TypeOK
  <2>2. tries[p] = 0 => Untouched(p)
    BY <1>2 DEF TruthInv, OperationOK, CallProgress
  <2>3. CallProgress(p)'
    BY <1>2, <1>3, <2>1, <2>2
    DEF CallProgress, Done, Untouched, TurnDone, Underway
  <2>4. QED
    BY <1>1, <1>2, <1>3, <1>5, <2>1, <2>3, CallStep
<1>8. QED
  BY <1>6, <1>7 DEF DeleteObject

LEMMA CommitTruth ==
  ASSUME TruthInv, NEW p \in Proc, CommitFiles(p)
  PROVE  TruthInv'
<1>1. TypeInv'
  BY CallInv DEF TruthInv
<1>2. /\ pc[p] = "call" /\ Site \notin turn[p] /\ ~(turn[p] \subseteq Objects)
      /\ turn[p] \in SUBSET Artifacts
  BY ArtifactKinds
  DEF CommitFiles, Calling, TruthInv, TypeInv, TypeOK
<1>3. tries[p] = 0 /\ Untouched(p)
  BY <1>2 DEF TruthInv, OperationOK, CallProgress
<1>4. /\ UNCHANGED <<ledgerFile, ledger, turn, before, desired, tries, building>>
      /\ pc' = [pc EXCEPT ![p] = "settle"] /\ pc'[p] = "settle"
  BY DEF CommitFiles, Answered, Goto, files, reading, TruthInv, TypeInv, TypeOK
<1>5. \/ TurnDone(p) /\ answer'[p] \in {"ok", "unclear"}
      \/ UNCHANGED remote /\ answer'[p] \in {"refused", "unclear"}
  BY DEF CommitFiles, Answered, TruthInv, TypeInv, TypeOK
<1>6. LedgerIsTruthful'
  BY <1>2, <1>4, <1>5, TruthInTurn DEF TurnDone
<1>7. CallProgress(p)'
  BY <1>2, <1>3, <1>4, <1>5
  DEF CallProgress, Done, Untouched, TurnDone, Underway
<1>8. QED
  BY <1>1, <1>2, <1>4, <1>6, <1>7, CallStep


LEMMA DeploymentTruth ==
  ASSUME TruthInv, NEW p \in Proc, CreateDeployment(p)
  PROVE  TruthInv'
<1>1. TypeInv'
  BY CreateDeploymentInv DEF TruthInv
<1>2. pc[p] = "call" /\ turn[p] = {Site} /\ ~(turn[p] \subseteq Objects)
  BY ArtifactKinds DEF CreateDeployment, Calling
<1>3. Untouched(p) /\ building = {} /\ ~Certain(DurableEntry(Site))
  BY <1>2, TurnIsOpen
  DEF TruthInv, OperationOK, CallProgress, Untouched, Underway
<1>4. UNCHANGED <<ledgerFile, ledger, turn, before, desired, tries, remote>>
  BY DEF CreateDeployment, Answered, files, reading, call
<1>5. LedgerIsTruthful'
  BY <1>3, <1>4 DEF TruthInv, LedgerIsTruthful, DurableEntry
<1>6. \/ /\ pc' = [pc EXCEPT ![p] = "poll"] /\ pc'[p] = "poll"
         /\ building' = building \cup {desired[p].want[Site]}
      \/ /\ pc' = [pc EXCEPT ![p] = "settle"] /\ pc'[p] = "settle"
         /\ \/ UNCHANGED building /\ answer'[p] = "refused"
            \/ answer'[p] = "unclear"
  BY DEF CreateDeployment, Answered, Goto, TruthInv, TypeInv, TypeOK
<1>7. CallProgress(p)'
  BY <1>2, <1>3, <1>4, <1>6 DEF CallProgress, Untouched, Underway
<1>8. QED
  BY <1>1, <1>2, <1>4, <1>5, <1>6, <1>7, CallStep

LEMMA PollTruth ==
  ASSUME StableAccess, TruthInv, NEW p \in Proc, Poll(p)
  PROVE  TruthInv'
<1>1. TypeInv'
  BY PollInv DEF TruthInv
<1>2. /\ pc[p] = "poll" /\ turn[p] = {Site}
      /\ building \subseteq {desired[p].want[Site]}
  BY DEF Poll, TruthInv, OperationOK, CallProgress
<1>3. UNCHANGED <<ledgerFile, ledger, turn, before, desired, remote, building>>
  BY DEF Poll, Answered, Again, files, reading, services
<1>4. LedgerIsTruthful'
  BY <1>3, TruthUnchanged DEF TruthInv
<1>5. \/ UNCHANGED pc /\ tries' = [tries EXCEPT ![p] = @ + 1]
      \/ /\ pc' = [pc EXCEPT ![p] = "settle"] /\ pc'[p] = "settle"
         /\ UNCHANGED tries
         /\ \/ /\ desired[p].want[Site] \notin building
               /\ remote[Site] = desired[p].want[Site]
               /\ answer'[p] = "ok"
            \/ answer'[p] = "unclear"
  BY DEF Poll, Again, Answered, Goto, TruthInv, TypeInv, TypeOK
<1>6. CallProgress(p)'
  BY <1>2, <1>3, <1>5 DEF CallProgress, Done, Underway
<1>7. QED
  BY <1>1, <1>2, <1>3, <1>4, <1>5, <1>6, CallStep

\* While something is being built, the entry of the site is open and no
\* operation has vouched for it.
LEMMA BuildEndsTruth ==
  ASSUME TruthInv, BuildEnds
  PROVE  TruthInv'
<1>1. TypeInv'
  BY BuildEndsInv DEF TruthInv
<1>2. PICK g \in building :
        /\ building' = building \ {g}
        /\ \/ remote' = [remote EXCEPT ![Site] = g]
           \/ UNCHANGED remote
        /\ UNCHANGED <<files, pc, reading, ledger, todo, call>>
  BY DEF BuildEnds
<1>3. \A a \in Artifacts \ {Site} : remote'[a] = remote[a]
  BY <1>2 DEF TruthInv, TypeInv, TypeOK, Wanted
<1>4. UNCHANGED <<ledgerFile, pc, desired, ledger, turn, before, answer, tries>>
  BY <1>2 DEF files, reading, call
<1>5. LedgerIsTruthful'
  BY <1>2, <1>3, <1>4, ArtifactKinds
  DEF TruthInv, LedgerIsTruthful, DurableEntry
<1>6. ASSUME NEW p \in Proc PROVE OperationOK(p)'
  <2>1. /\ pc[p] \notin Underway => tries[p] = 0
        /\ pc[p] = "call" =>
              /\ tries[p] = 0 => Untouched(p)
              /\ tries[p] # 0 => turn[p] \subseteq Objects /\ ~Puts(p)
        /\ pc[p] = "poll" => /\ turn[p] = {Site}
                             /\ building \subseteq {desired[p].want[Site]}
        /\ pc[p] = "settle" =>
              /\ answer[p] = "ok" => Done(p)
              /\ answer[p] = "altered" =>
                    /\ Site \notin turn[p]
                    /\ \A a \in turn[p] : remote[a] = Altered
              /\ answer[p] = "refused" => Untouched(p)
    BY DEF TruthInv, OperationOK, CallProgress
  <2>2. turn[p] \subseteq Artifacts
    BY DEF TruthInv, TypeInv, TypeOK
  <2>3. Untouched(p) => Untouched(p)'
    BY <1>2, <1>3, <1>4, <2>2 DEF Untouched
  <2>4. Done(p) => Done(p)'
    BY <1>2, <1>3, <1>4, <2>2 DEF Done
  <2>5. CallProgress(p)'
    BY <1>2, <1>3, <1>4, <2>1, <2>2, <2>3, <2>4 DEF CallProgress, Puts
  <2>6. MemoryMatches(p)' /\ OnlyTurnOpen(p)'
    BY <1>4
    DEF TruthInv, OperationOK, MemoryMatches, OnlyTurnOpen, DurableEntry
  <2>7. QED
    BY <2>5, <2>6 DEF OperationOK
<1>7. QED
  BY <1>1, <1>4, <1>5, <1>6 DEF TruthInv, Alone

LEMMA StutterTruth ==
  ASSUME TruthInv, UNCHANGED vars
  PROVE  TruthInv'
<1>1. TypeInv'
  BY NextType DEF TruthInv
<1>2. UNCHANGED <<ledgerFile, remote, building, pc, desired, ledger, turn,
                  before, answer, tries>>
  BY DEF vars, files, services, reading, call
<1>3. LedgerIsTruthful'
  BY <1>2, TruthUnchanged DEF TruthInv
<1>4. QED
  BY <1>1, <1>2, <1>3
  DEF TruthInv, Alone, OperationOK, MemoryMatches, OnlyTurnOpen, CallProgress,
      Untouched, Done, Puts, DurableEntry

LEMMA NextTruth ==
  ASSUME Solo, StableAccess, TruthInv, [Next]_vars
  PROVE  TruthInv'
<1>1. ASSUME NEW p \in Proc, StartPublish(p) \/ Step(p) \/ Stop(p)
      PROVE  TruthInv'
  BY <1>1, StartPublishTruth, ReadTruth, MakePlanTruth, CoordinateTruth,
     AnnounceTruth, SettleTruth, EndingTruth, ObjectTruth, DeleteTruth,
     CommitTruth, DeploymentTruth, PollTruth
  DEF Step
<1>2. QED
  BY <1>1, StutterTruth, PrepareTruth, BuildEndsTruth DEF Next

LEMMA TruthInvariance ==
  ASSUME Solo, StableAccess
  PROVE  Spec => []TruthInv
<1>1. TruthInv /\ [Next]_vars => TruthInv'
  BY NextTruth
<1>2. QED
  BY <1>1, InitTruth, PTL DEF Spec

-----------------------------------------------------------------------------

\* Where one process publishes at a time and no service changes its mind in
\* the middle of a call, the ledger file never claims more than is so: for
\* any gallery, any number of processes, retries and polls, with lost answers
\* and stops between any two steps, and with `prepare` beside a run.
THEOREM LedgerTrue ==
  ASSUME Solo, StableAccess
  PROVE  Spec => []LedgerIsTruthful
<1>1. TruthInv => LedgerIsTruthful
  BY DEF TruthInv
<1>2. QED
  BY <1>1, TruthInvariance, PTL

-----------------------------------------------------------------------------
(* What a run remembers, even where services change their mind (no         *)
(* StableAccess).                                                          *)

\* The part of TruthInv that does not depend on what the services do.
MemoryInv ==
    /\ TypeInv
    /\ Alone
    /\ \A p \in Proc : MemoryMatches(p) /\ OnlyTurnOpen(p)

LEMMA InitMemory == Init => MemoryInv
BY InitTruth DEF TruthInv, MemoryInv, OperationOK

LEMMA OwnMemory ==
  ASSUME MemoryInv, NEW p \in Proc, pc[p] # "idle" \/ OthersIdle(p),
         \A q \in Proc \ {p} : pc'[q] = pc[q],
         TypeInv', MemoryMatches(p)', OnlyTurnOpen(p)'
  PROVE  MemoryInv'
<1>1. \A q \in Proc \ {p} : pc[q] = "idle"
  BY DEF MemoryInv, Alone, OthersIdle
<1>2. Alone'
  BY <1>1 DEF Alone
<1>3. ASSUME NEW q \in Proc \ {p} PROVE MemoryMatches(q)' /\ OnlyTurnOpen(q)'
  BY <1>1 DEF MemoryMatches, OnlyTurnOpen, WithLedger, Underway
<1>4. QED
  BY <1>2, <1>3 DEF MemoryInv

LEMMA StartMemory ==
  ASSUME Solo, MemoryInv, TypeInv', NEW p \in Proc,
         \/ StartPublish(p) \/ ReadBundle(p) \/ ReadDesired(p)
         \/ Stop(p) \/ Refuse(p) \/ Finish(p)
  PROVE  MemoryInv'
<1>1. /\ pc'[p] \in {"idle", "bundle", "desire", "plan"}
      /\ pc[p] # "idle" \/ OthersIdle(p)
      /\ \A q \in Proc \ {p} : pc'[q] = pc[q]
  BY DEF MemoryInv, TypeInv, TypeOK, StartPublish, ReadBundle, ReadDesired,
         Stop, Refuse, Finish, EndRun, Goto
<1>2. MemoryMatches(p)' /\ OnlyTurnOpen(p)'
  BY <1>1 DEF MemoryMatches, OnlyTurnOpen, WithLedger, Underway
<1>3. QED
  BY <1>1, <1>2, OwnMemory

LEMMA MakePlanMemory ==
  ASSUME MemoryInv, TypeInv', NEW p \in Proc, MakePlan(p)
  PROVE  MemoryInv'
<1>1. /\ pc[p] = "plan" /\ pc'[p] = "coordinate" /\ ledgerFile' = ledgerFile
      /\ ledger'[p] = IF ledgerFile = Absent THEN NewLedger(desired[p].header)
                      ELSE ledgerFile
      /\ \A q \in Proc \ {p} : pc'[q] = pc[q]
  BY DEF MemoryInv, TypeInv, TypeOK, MakePlan, Goto, files
<1>2. \A a \in Artifacts : ledger'[p].entries[a] = DurableEntry(a)'
  BY <1>1 DEF NewLedger, NoEntries, DurableEntry
<1>3. QED
  BY <1>1, <1>2, OwnMemory DEF MemoryMatches, OnlyTurnOpen, Underway

LEMMA CoordinateMemory ==
  ASSUME MemoryInv, TypeInv', NEW p \in Proc, Coordinate(p)
  PROVE  MemoryInv'
<1>1. /\ pc[p] = "coordinate" /\ pc'[p] = "work"
      /\ \A q \in Proc \ {p} : pc'[q] = pc[q]
      /\ \/ UNCHANGED <<ledger, ledgerFile>>
         \/ /\ ledger'[p] = Adopt(ledger[p], desired[p].header)
            /\ ledgerFile' = ledger'[p]
  BY DEF MemoryInv, TypeInv, TypeOK, Coordinate, Goto
<1>2. ledger'[p] \in Ledger
  BY <1>1 DEF TypeInv, MemoryOK, MemoryOf, WithLedger
<1>3. MemoryMatches(p)'
  BY <1>1, <1>2, LedgerFacts
  DEF MemoryInv, MemoryMatches, DurableEntry, WithLedger
<1>4. OnlyTurnOpen(p)'
  BY <1>1 DEF OnlyTurnOpen, Underway
<1>5. QED
  BY <1>1, <1>3, <1>4, OwnMemory

LEMMA AnnounceMemory ==
  ASSUME MemoryInv, TypeInv', NEW p \in Proc, Announce(p)
  PROVE  MemoryInv'
<1>1. PICK A \in Turns(todo[p], desired[p].want) :
        /\ Consistent(p, A)
        /\ ledger' = [ledger EXCEPT ![p] =
              Record(ledger[p], [a \in A |-> PendingEntry(p, a)])]
        /\ turn' = [turn EXCEPT ![p] = A]
  BY DEF Announce
<1> DEFINE pending == [a \in A |-> PendingEntry(p, a)]
<1>2. /\ pc[p] = "work" /\ pc'[p] = "call" /\ turn'[p] = A
      /\ ledger'[p] = Record(ledger[p], pending) /\ ledgerFile' = ledger'[p]
      /\ before'[p] = ledger[p]
      /\ \A q \in Proc \ {p} : pc'[q] = pc[q]
  BY <1>1 DEF MemoryInv, TypeInv, TypeOK, Announce, Goto
<1>3. A \in SUBSET Artifacts
  BY TurnsType DEF MemoryInv, TypeInv, TypeOK
<1>4. pending \in [A -> Entry] /\ \A a \in A : pending[a].status = "Pending"
  BY <1>1, <1>2, <1>3, PendingType DEF MemoryInv, PendingEntry
<1>5. ledger[p] \in Ledger
  BY <1>2 DEF MemoryInv, TypeInv, MemoryOK, MemoryOf, WithLedger
<1>6. pending \in [A -> {Absent} \cup Entry]
  BY <1>4
<1> HIDE DEF pending
<1>7. /\ ledger'[p] \in Ledger /\ ledger'[p].header = ledger[p].header
      /\ \A a \in Artifacts : ledger'[p].entries[a] =
            IF a \in A THEN pending[a] ELSE ledger[p].entries[a]
  BY <1>2, <1>3, <1>5, <1>6, RecordType
<1>8. \A a \in A : ~Certain(ledger'[p].entries[a])
  BY <1>3, <1>4, <1>7, EntryFacts DEF Certain
<1>9. MemoryMatches(p)'
  BY <1>2, <1>7, LedgerFacts DEF MemoryMatches, DurableEntry
<1>10. OnlyTurnOpen(p)'
  BY <1>2, <1>7, <1>8 DEF OnlyTurnOpen
<1>11. QED
  BY <1>2, <1>9, <1>10, OwnMemory

LEMMA SettleMemory ==
  ASSUME MemoryInv, TypeInv', NEW p \in Proc, Settle(p)
  PROVE  MemoryInv'
<1>1. /\ pc[p] = "settle" /\ ledgerFile' = Settled(p) /\ Settled(p) \in Ledger
      /\ \A q \in Proc \ {p} : pc'[q] = pc[q]
      /\ \/ pc'[p] = "idle"
         \/ pc'[p] = "work" /\ ledger'[p] = Settled(p)
  BY SettledType DEF MemoryInv, TypeInv, TypeOK, Settle, EndRun, Goto
<1>2. MemoryMatches(p)'
  BY <1>1, LedgerFacts DEF MemoryMatches, DurableEntry, WithLedger
<1>3. QED
  BY <1>1, <1>2, OwnMemory DEF OnlyTurnOpen, Underway

LEMMA CallMemory ==
  ASSUME MemoryInv, TypeInv', NEW p \in Proc,
         \/ PutObject(p) \/ DeleteObject(p) \/ CommitFiles(p)
         \/ CreateDeployment(p) \/ Poll(p)
  PROVE  MemoryInv'
<1>1. /\ pc[p] \in Underway /\ pc'[p] \in Underway
      /\ \A q \in Proc \ {p} : pc'[q] = pc[q]
      /\ UNCHANGED <<ledgerFile, ledger, turn, before>>
  BY DEF MemoryInv, TypeInv, TypeOK, PutObject, DeleteObject, CommitFiles,
         CreateDeployment, Poll, Answered, Again, Calling, Goto, Underway,
         files, call
<1>2. MemoryMatches(p)' /\ OnlyTurnOpen(p)'
  BY <1>1
  DEF MemoryInv, MemoryMatches, OnlyTurnOpen, DurableEntry, WithLedger,
      Underway
<1>3. QED
  BY <1>1, <1>2, OwnMemory DEF Underway

LEMMA NextMemory ==
  ASSUME Solo, MemoryInv, [Next]_vars
  PROVE  MemoryInv'
<1>1. TypeInv'
  BY NextType DEF MemoryInv
<1>2. CASE UNCHANGED vars \/ Prepare \/ BuildEnds
  <2>1. UNCHANGED <<ledgerFile, pc, ledger, turn, before>>
    BY <1>2 DEF vars, Prepare, BuildEnds, files, call
  <2>2. QED
    BY <1>1, <2>1
    DEF MemoryInv, Alone, MemoryMatches, OnlyTurnOpen, DurableEntry
<1>3. ASSUME NEW p \in Proc, StartPublish(p) \/ Step(p) \/ Stop(p)
      PROVE  MemoryInv'
  BY <1>1, <1>3, StartMemory, MakePlanMemory, CoordinateMemory,
     AnnounceMemory, SettleMemory, CallMemory
  DEF Step
<1>4. QED
  BY <1>2, <1>3 DEF Next

\* With any answers, the entries of an operation under way stay open.
LEMMA TurnStaysOpen ==
  ASSUME MemoryInv, NEW p \in Proc, pc[p] \in Underway
  PROVE  \A a \in turn[p] : ~Certain(DurableEntry(a))
BY DEF MemoryInv, MemoryMatches, OnlyTurnOpen, WithLedger, Underway, TypeInv,
       TypeOK

LEMMA TruthRemembers ==
  /\ TruthInv => MemoryInv
  /\ TruthInv' => MemoryInv'
BY DEF TruthInv, MemoryInv, OperationOK

LEMMA MemoryInvariance ==
  ASSUME Solo
  PROVE  Spec => []MemoryInv
<1>1. MemoryInv /\ [Next]_vars => MemoryInv'
  BY NextMemory
<1>2. QED
  BY <1>1, InitMemory, PTL DEF Spec

-----------------------------------------------------------------------------
(* What each step does to the ledger file.                                 *)

\* Steps that write no ledger start no operation.
LEMMA QuietLedger ==
  ASSUME TypeInv, [Next]_vars,
         \A p \in Proc : ~Coordinate(p) /\ ~Announce(p) /\ ~Settle(p)
  PROVE  UNCHANGED ledgerFile /\ \A q \in Proc : turn'[q] \subseteq turn[q]
<1> USE DEF TypeInv, TypeOK
<1>1. CASE UNCHANGED vars \/ Prepare \/ BuildEnds
  BY <1>1 DEF vars, Prepare, BuildEnds, files, call
<1>2. ASSUME NEW p \in Proc, Stop(p) \/ Refuse(p) \/ Finish(p)
      PROVE  UNCHANGED ledgerFile /\ \A q \in Proc : turn'[q] \subseteq turn[q]
  BY <1>2 DEF Stop, Refuse, Finish, EndRun, files
<1>3. ASSUME NEW p \in Proc,
             \/ StartPublish(p) \/ ReadBundle(p) \/ ReadDesired(p)
             \/ MakePlan(p) \/ PutObject(p) \/ DeleteObject(p)
             \/ CommitFiles(p) \/ CreateDeployment(p) \/ Poll(p)
      PROVE  UNCHANGED <<ledgerFile, turn>>
  BY <1>3
  DEF StartPublish, ReadBundle, ReadDesired, MakePlan, PutObject,
      DeleteObject, CommitFiles, CreateDeployment, Poll, Calling, Answered,
      Again, files, reading, call
<1>4. QED
  BY <1>1, <1>2, <1>3 DEF Next, Step

\* Nor do they change an artifact of which the ledger file is certain.
LEMMA QuietSteps ==
  ASSUME TruthInv, [Next]_vars,
         \A p \in Proc : ~Coordinate(p) /\ ~Announce(p) /\ ~Settle(p)
  PROVE  \A a \in Artifacts :
            Certain(DurableEntry(a)) => remote'[a] = remote[a]
<1> USE DEF TruthInv, TypeInv, TypeOK
<1>1. CASE UNCHANGED vars \/ Prepare
  BY <1>1 DEF vars, Prepare, services
<1>2. CASE BuildEnds
  <2>1. /\ building # {}
        /\ remote' = remote \/ \E g : remote' = [remote EXCEPT ![Site] = g]
    BY <1>2 DEF BuildEnds
  <2>2. ~Certain(DurableEntry(Site))
    BY <2>1 DEF LedgerIsTruthful
  <2>3. \A a \in Artifacts \ {Site} : remote'[a] = remote[a]
    BY <2>1 DEF Wanted
  <2>4. QED
    BY <2>2, <2>3
<1>3. ASSUME NEW p \in Proc,
             \/ StartPublish(p) \/ ReadBundle(p) \/ ReadDesired(p)
             \/ MakePlan(p) \/ CreateDeployment(p) \/ Poll(p)
             \/ Stop(p) \/ Refuse(p) \/ Finish(p)
      PROVE  UNCHANGED remote
  BY <1>3
  DEF StartPublish, ReadBundle, ReadDesired, MakePlan, CreateDeployment, Poll,
      Stop, Refuse, Finish, services
<1>4. ASSUME NEW p \in Proc,
             PutObject(p) \/ DeleteObject(p) \/ CommitFiles(p)
      PROVE  \A a \in Artifacts :
                Certain(DurableEntry(a)) => remote'[a] = remote[a]
  <2>1. pc[p] = "call"
    BY <1>4 DEF PutObject, DeleteObject, CommitFiles, Calling
  <2>2. UNCHANGED remote \/ \A a \in Artifacts \ turn[p] : remote'[a] = remote[a]
    BY <1>4 DEF PutObject, DeleteObject, CommitFiles, TurnDone
  <2>3. QED
    BY <2>1, <2>2, TurnIsOpen DEF Underway
<1>5. QED
  BY <1>1, <1>2, <1>3, <1>4 DEF Next, Step

\* The ledger file changes hands with its entries as they were.
LEMMA CoordinateWrites ==
  ASSUME MemoryInv, MemoryInv', NEW p \in Proc, Coordinate(p)
  PROVE  /\ \A a \in Artifacts : DurableEntry(a)' = DurableEntry(a)
         /\ UNCHANGED <<remote, turn>>
         /\ Unsafe(ledger[p].entries) = {}
         /\ \A a \in Artifacts : ledger[p].entries[a] = DurableEntry(a)
<1>1. /\ pc[p] = "coordinate" /\ pc'[p] = "work"
      /\ UNCHANGED <<remote, turn>>
      /\ Unsafe(ledger[p].entries) = {}
  BY DEF MemoryInv, TypeInv, TypeOK, Coordinate, Refuses, Goto, services, call
<1>2. ledger'[p].entries = ledger[p].entries
  <2>1. ledger[p] \in Ledger
    BY <1>1 DEF MemoryInv, TypeInv, MemoryOK, MemoryOf, WithLedger
  <2>2. Adopt(ledger[p], desired[p].header).entries = ledger[p].entries
    BY <2>1 DEF Adopt, Ledger
  <2>3. QED
    BY <2>2 DEF MemoryInv, TypeInv, TypeOK, Coordinate
<1>3. /\ \A a \in Artifacts : ledger[p].entries[a] = DurableEntry(a)
      /\ \A a \in Artifacts : ledger'[p].entries[a] = DurableEntry(a)'
  BY <1>1 DEF MemoryInv, MemoryMatches, WithLedger
<1>4. QED
  BY <1>1, <1>2, <1>3

LEMMA AnnounceWrites ==
  ASSUME MemoryInv, MemoryInv', NEW p \in Proc, Announce(p)
  PROVE  /\ turn'[p] \in SUBSET Artifacts
         /\ \A a \in turn'[p] :
               Certain(DurableEntry(a)) /\ ~Certain(DurableEntry(a)')
         /\ \A a \in Artifacts \ turn'[p] : DurableEntry(a)' = DurableEntry(a)
         /\ \A q \in Proc \ {p} : turn'[q] = turn[q]
         /\ UNCHANGED remote
         /\ ledgerFile # Absent => ledgerFile'.header = ledgerFile.header
<1>1. PICK A \in Turns(todo[p], desired[p].want) :
        Consistent(p, A) /\ turn' = [turn EXCEPT ![p] = A]
  BY DEF Announce
<1>2. /\ pc[p] = "work" /\ pc'[p] = "call"
      /\ before'[p] = ledger[p] /\ turn'[p] = A
      /\ ledgerFile' = ledger'[p]
      /\ UNCHANGED remote /\ A \in SUBSET Artifacts
      /\ \A q \in Proc \ {p} : turn'[q] = turn[q]
  BY <1>1, TurnsType DEF MemoryInv, TypeInv, TypeOK, Announce, Goto, services
<1>3. /\ \A a \in Artifacts : ledger[p].entries[a] = DurableEntry(a)
      /\ ledgerFile # Absent => ledger[p].header = ledgerFile.header
  BY <1>2 DEF MemoryInv, MemoryMatches, WithLedger
<1>4. /\ \A a \in Artifacts : ledger'[p].entries[a] = DurableEntry(a)'
      /\ before'[p].header = ledger'[p].header
      /\ \A a \in A : ~Certain(ledger'[p].entries[a])
      /\ \A a \in Artifacts \ A : ledger'[p].entries[a] = ledger[p].entries[a]
  BY <1>2 DEF MemoryInv, MemoryMatches, OnlyTurnOpen, WithLedger, Underway
<1>5. QED
  BY <1>1, <1>2, <1>3, <1>4 DEF Consistent, Certain

LEMMA SettleWrites ==
  ASSUME MemoryInv, NEW p \in Proc, Settle(p)
  PROVE  /\ turn[p] \in SUBSET Artifacts
         /\ \A a \in Artifacts : DurableEntry(a)' = Settled(p).entries[a]
         /\ \A a \in turn[p] : ~Certain(DurableEntry(a))
         /\ \A a \in Artifacts \ turn[p] : DurableEntry(a)' = DurableEntry(a)
         /\ \A q \in Proc : turn'[q] \subseteq turn[q]
         /\ UNCHANGED remote
         /\ ledgerFile # Absent => ledgerFile'.header = ledgerFile.header
<1>1. /\ pc[p] = "settle" /\ UNCHANGED remote
      /\ ledgerFile' = Settled(p) /\ Settled(p) \in Ledger
      /\ turn[p] \in SUBSET Artifacts
      /\ \A q \in Proc : turn'[q] \subseteq turn[q]
  BY SettledType
  DEF MemoryInv, TypeInv, TypeOK, Settle, EndRun, services
<1>2. \A a : DurableEntry(a)' = Settled(p).entries[a]
  BY <1>1, LedgerFacts DEF DurableEntry
<1>3. \A a \in turn[p] : ~Certain(DurableEntry(a))
  BY <1>1, TurnStaysOpen DEF Underway
<1>4. /\ \A a \in Artifacts : ledger[p].entries[a] = DurableEntry(a)
      /\ ledgerFile # Absent => ledger[p].header = ledgerFile.header
      /\ \A a \in Artifacts \ turn[p] :
            ledger[p].entries[a] = before[p].entries[a]
      /\ before[p].header = ledger[p].header /\ ledger[p] \in Ledger
  BY <1>1
  DEF MemoryInv, TypeInv, MemoryOK, MemoryOf, MemoryMatches, OnlyTurnOpen,
      WithLedger, Underway
<1>5. \A a \in Artifacts \ turn[p] : Settled(p).entries[a] = DurableEntry(a)
  BY <1>4 DEF Settled, Record, Ledger
<1>6. ledgerFile # Absent => ledgerFile'.header = ledgerFile.header
  <2>1. Settled(p).header = ledger[p].header
    BY <1>4 DEF Settled, Record, Ledger
  <2>2. QED
    BY <1>1, <1>4, <2>1
<1>7. QED
  BY <1>1, <1>2, <1>3, <1>5, <1>6

-----------------------------------------------------------------------------
(* The action properties.                                                  *)

\* The ledger file is only given to another publication while none of its
\* entries is Pending or Unknown: the coordinator has looked at the ledger it
\* read, and that one is still on disk when the header is adopted, whatever
\* the services answer.
THEOREM AdoptionSafe ==
  ASSUME Solo
  PROVE  Spec => AdoptsSettledLedger
<1>1. ASSUME MemoryInv, MemoryInv', [Next]_vars, ledgerFile # Absent,
             ledgerFile'.header # ledgerFile.header
      PROVE  Unsafe(ledgerFile.entries) = {}
  <2>1. PICK p \in Proc : Coordinate(p)
    BY <1>1, QuietLedger, AnnounceWrites, SettleWrites DEF MemoryInv
  <2>2. QED
    BY <1>1, <2>1, CoordinateWrites DEF Unsafe, DurableEntry
<1>2. MemoryInv /\ MemoryInv' /\ [Next]_vars =>
        [(ledgerFile # Absent /\ ledgerFile'.header # ledgerFile.header)
            => Unsafe(ledgerFile.entries) = {}]_ledgerFile
  BY <1>1
<1>3. QED
  BY <1>2, MemoryInvariance, PTL DEF Spec, AdoptsSettledLedger

\* An operation whose outcome was lost is never sent again and its entry never
\* overwritten: whatever later runs plan, Announce asks for entries that are
\* certain, and Settle writes those of its own turn, with any answers.
THEOREM NeverRepeated ==
  ASSUME Solo
  PROVE  Spec => AbandonedIsNeverRepeated
<1>1. ASSUME MemoryInv, MemoryInv', [Next]_vars, NEW a \in Artifacts, Abandoned(a)
      PROVE  /\ DurableEntry(a)' = DurableEntry(a)
             /\ \A p \in Proc : a \notin turn'[p]
  <2>1. ~Certain(DurableEntry(a)) /\ \A p \in Proc : a \notin turn[p]
    BY <1>1 DEF Abandoned, Certain
  <2>2. CASE \E p \in Proc : Coordinate(p)
    BY <1>1, <2>1, <2>2, CoordinateWrites
  <2>3. ASSUME NEW p \in Proc, Announce(p)
        PROVE  /\ DurableEntry(a)' = DurableEntry(a)
               /\ \A q \in Proc : a \notin turn'[q]
    <3>1. a \notin turn'[p]
      BY <1>1, <2>1, <2>3, AnnounceWrites
    <3>2. QED
      BY <1>1, <2>1, <2>3, <3>1, AnnounceWrites
  <2>4. ASSUME NEW p \in Proc, Settle(p)
        PROVE  /\ DurableEntry(a)' = DurableEntry(a)
               /\ \A q \in Proc : a \notin turn'[q]
    BY <1>1, <2>1, <2>4, SettleWrites
  <2>5. CASE \A p \in Proc : ~Coordinate(p) /\ ~Announce(p) /\ ~Settle(p)
    <3>1. UNCHANGED ledgerFile /\ \A q \in Proc : turn'[q] \subseteq turn[q]
      BY <1>1, <2>5, QuietLedger DEF MemoryInv
    <3>2. QED
      BY <2>1, <3>1 DEF DurableEntry
  <2>6. QED
    BY <2>2, <2>3, <2>4, <2>5
<1>2. MemoryInv /\ MemoryInv' /\ [Next]_vars =>
        [\A a \in Artifacts : Abandoned(a) =>
            /\ DurableEntry(a)' = DurableEntry(a)
            /\ \A p \in Proc : a \notin turn'[p]]_vars
  BY <1>1
<1>3. QED
  BY <1>2, MemoryInvariance, PTL DEF Spec, AbandonedIsNeverRepeated

-----------------------------------------------------------------------------
(* The refinement.                                                         *)

\* The abstract value of what the ledger knows of the artifacts.
Known == [a \in Artifacts |->
            IF Certain(DurableEntry(a)) THEN HashOf(DurableEntry(a))
            ELSE Uncertain]

KnownIsReal ==
    \A a \in Artifacts :
        /\ Certain(DurableEntry(a)) <=> Known[a] # Uncertain
        /\ Certain(DurableEntry(a)) => Known[a] = remote[a]

LEMMA KnownFacts == TruthInv => KnownIsReal
<1> SUFFICES ASSUME TruthInv, NEW a \in Artifacts
             PROVE  /\ Certain(DurableEntry(a)) <=> Known[a] # Uncertain
                    /\ Certain(DurableEntry(a)) => Known[a] = remote[a]
  BY DEF KnownIsReal
<1>1. remote[a] \in {Absent} \cup Hash
  BY DEF TruthInv, TypeInv, TypeOK, Wanted
<1>2. Certain(DurableEntry(a)) => remote[a] = HashOf(DurableEntry(a))
  BY DEF TruthInv, LedgerIsTruthful
<1>3. QED
  BY <1>1, <1>2, UncertainAssumption DEF Known

LEMMA InitAnnounced == Init => Announced!EInit
<1> SUFFICES ASSUME Init PROVE Announced!EInit
  OBVIOUS
<1>1. \A a : DurableEntry(a) = Absent
  BY DEF Init, DurableEntry
<1>2. QED
  BY <1>1 DEF Init, Announced!EInit, Certain, HashOf

LEMMA StepAnnounced ==
  ASSUME TruthInv, TruthInv', [Next]_vars
  PROVE  [Announced!ENext]_(Announced!evars)
<1>1. \A a \in Artifacts :
         /\ Certain(DurableEntry(a)) <=> Known[a] # Uncertain
         /\ Certain(DurableEntry(a)') <=> Known'[a] # Uncertain
         /\ Certain(DurableEntry(a)') => Known'[a] = remote'[a]
         /\ DurableEntry(a)' = DurableEntry(a) => Known'[a] = Known[a]
  <2>1. ASSUME NEW a \in Artifacts, DurableEntry(a)' = DurableEntry(a)
        PROVE  Known'[a] = Known[a]
    BY <2>1 DEF Known
  <2>2. KnownIsReal /\ KnownIsReal'
    BY KnownFacts, PTL
  <2>3. QED
    BY <2>1, <2>2 DEF KnownIsReal
<1>2. /\ Known = [a \in Artifacts |-> Known[a]]
      /\ Known' = [a \in Artifacts |-> Known'[a]]
  BY DEF Known
<1>3. CASE \E p \in Proc : Coordinate(p)
  <2>1. UNCHANGED remote /\ Known' = Known
    BY <1>1, <1>2, <1>3, TruthRemembers, CoordinateWrites
  <2>2. QED
    BY <2>1 DEF Known, Announced!evars
<1>4. ASSUME NEW p \in Proc, Announce(p)
      PROVE  Announced!ENext
  <2>1. /\ turn'[p] \in SUBSET Artifacts /\ UNCHANGED remote
        /\ \A a \in turn'[p] : Known'[a] = Uncertain
        /\ \A a \in Artifacts \ turn'[p] : Known'[a] = Known[a]
    BY <1>1, <1>4, TruthRemembers, AnnounceWrites
  <2>2. Known' = [a \in Artifacts |->
                     IF a \in turn'[p] THEN Uncertain ELSE Known[a]]
    BY <1>2, <2>1
  <2>3. Announced!Announce(turn'[p])
    BY <2>1, <2>2 DEF Announced!Announce, Known
  <2>4. QED
    BY <2>1, <2>3 DEF Announced!ENext
<1>5. ASSUME NEW p \in Proc, Settle(p)
      PROVE  Announced!ENext
  <2> DEFINE learned == {a \in turn[p] : Certain(DurableEntry(a)')}
  <2>1. /\ learned \in SUBSET Artifacts /\ UNCHANGED remote
        /\ \A a \in learned : Known[a] = Uncertain /\ Known'[a] = remote[a]
        /\ \A a \in Artifacts \ learned : Known'[a] = Known[a]
    <3>1. MemoryInv /\ pc[p] = "settle"
      BY <1>5, TruthRemembers DEF Settle
    <3>2. \A a \in turn[p] : Certain(DurableEntry(a)') =>
                               remote[a] = HashOf(DurableEntry(a)')
      BY <1>5, <3>1, SettleWrites, SettledTruth
    <3>3. QED
      BY <1>1, <1>5, <3>1, <3>2, SettleWrites
  <2> HIDE DEF learned
  <2>2. Known' = [a \in Artifacts |->
                     IF a \in learned THEN remote[a] ELSE Known[a]]
    BY <1>2, <2>1
  <2>3. Announced!Learn(learned)
    BY <2>1, <2>2 DEF Announced!Learn, Known
  <2>4. QED
    BY <2>1, <2>3 DEF Announced!ENext
<1>6. CASE \A p \in Proc : ~Coordinate(p) /\ ~Announce(p) /\ ~Settle(p)
  <2>1. /\ UNCHANGED ledgerFile
        /\ \A a \in Artifacts :
              Certain(DurableEntry(a)) => remote'[a] = remote[a]
    BY <1>6, QuietLedger, QuietSteps DEF TruthInv
  <2>2. Known' = Known
    BY <2>1 DEF Known, DurableEntry
  <2>3. remote' \in [Artifacts -> {Absent} \cup Hash]
    BY DEF TruthInv, TypeInv, TypeOK, Wanted
  <2>4. Announced!Happen
    BY <1>1, <2>1, <2>2, <2>3 DEF Announced!Happen, Known
  <2>5. QED
    BY <2>4 DEF Announced!ENext
<1>7. QED
  BY <1>3, <1>4, <1>5, <1>6

\* Ledger file and services implement "announce, act, learn": the entries of
\* an operation are opened on disk before its artifacts can change, and a
\* ledger entry only becomes certain again of what is there.
THEOREM LedgerAnnounces ==
  ASSUME Solo, StableAccess
  PROVE  Spec => ImplementsAnnounced
<1>1. TruthInv /\ TruthInv' /\ [Next]_vars =>
        [Announced!ENext]_(Announced!evars)
  BY StepAnnounced
<1>2. QED
  BY <1>1, InitAnnounced, TruthInvariance, PTL
  DEF Spec, ImplementsAnnounced, Announced!ESpec


-----------------------------------------------------------------------------
(* Plans.                                                                  *)

\* What is not in the plan is as it is wanted, as far as the ledger knows,
\* and past the coordinator's checks the ledger knows of everything outside
\* the operation under way.
PlanOK(p) ==
    /\ pc[p] \notin Underway => turn[p] = {}
    /\ pc[p] = "coordinate" =>
          \A a \in Artifacts \ todo[p] :
             Certain(ledger[p].entries[a]) =>
                HashOf(ledger[p].entries[a]) = desired[p].want[a]
    /\ pc[p] \in {"work"} \cup Underway =>
          \A a \in Artifacts \ turn[p] :
             /\ Certain(ledger[p].entries[a])
             /\ a \notin todo[p] =>
                   HashOf(ledger[p].entries[a]) = desired[p].want[a]

PlansOK == \A p \in Proc : PlanOK(p)

\* Steps that leave plan, ledger and wishes of a process alone, and take it
\* neither to the coordinator nor out of an operation.
LEMMA PlanKept ==
  ASSUME PlansOK, NEW p \in Proc,
         \/ pc'[p] = pc[p]
         \/ pc[p] \in Underway /\ pc'[p] \in Underway
         \/ pc[p] \notin Underway /\ pc'[p] \in {"bundle", "desire", "plan"}
         \/ /\ pc[p] = "coordinate" /\ pc'[p] = "work"
            /\ \A a \in Artifacts : Certain(ledger[p].entries[a]),
         pc[p] \in Planned => desired'[p] = desired[p],
         turn'[p] = turn[p],
         pc[p] \in WithLedger =>
            /\ todo'[p] = todo[p]
            /\ \A a \in Artifacts :
                  ledger'[p].entries[a] = ledger[p].entries[a]
  PROVE  PlanOK(p)'
BY DEF PlansOK, PlanOK, Planned, WithLedger, Underway

LEMMA PlanEnded ==
  ASSUME TypeInv, NEW p \in Proc, EndRun(p)
  PROVE  PlanOK(p)'
BY DEF TypeInv, TypeOK, EndRun, Goto, PlanOK, Underway

LEMMA InitPlans == Init => PlansOK
BY DEF Init, PlansOK, PlanOK, Underway

LEMMA OthersPlans ==
  ASSUME TruthInv, PlansOK, NEW p \in Proc, StartPublish(p) \/ Step(p) \/ Stop(p)
  PROVE  \A q \in Proc \ {p} : PlanOK(q)'
<1>1. ASSUME NEW q \in Proc \ {p}
      PROVE  /\ pc'[q] = pc[q] /\ desired'[q] = desired[q]
             /\ turn'[q] = turn[q] /\ todo'[q] = todo[q]
             /\ ledger'[q] = ledger[q]
  <2> USE DEF TruthInv, TypeInv, TypeOK, Goto, reading, call
  <2>1. CASE \/ StartPublish(p) \/ ReadBundle(p) \/ ReadDesired(p)
             \/ MakePlan(p) \/ Coordinate(p)
    BY <2>1 DEF StartPublish, ReadBundle, ReadDesired, MakePlan, Coordinate
  <2>2. CASE Announce(p)
    BY <2>2 DEF Announce
  <2>3. CASE Stop(p) \/ Refuse(p) \/ Finish(p) \/ Settle(p)
    BY <2>3 DEF Stop, Refuse, Finish, Settle, EndRun
  <2>4. CASE \/ PutObject(p) \/ DeleteObject(p) \/ CommitFiles(p)
             \/ CreateDeployment(p) \/ Poll(p)
    BY <2>4 DEF PutObject, DeleteObject, CommitFiles, CreateDeployment, Poll,
                Answered, Again
  <2>5. QED
    BY <2>1, <2>2, <2>3, <2>4 DEF Step
<1>2. QED
  BY <1>1, PlanKept

LEMMA MakePlanPlan ==
  ASSUME TruthInv, PlansOK, NEW p \in Proc, MakePlan(p)
  PROVE  PlanOK(p)'
<1>1. /\ pc[p] = "plan" /\ pc'[p] = "coordinate"
      /\ UNCHANGED <<turn, desired>>
      /\ todo'[p] = Plan(desired[p].want, ledger'[p].entries)
  BY DEF TruthInv, TypeInv, TypeOK, MakePlan, Goto, reading, call
<1>2. QED
  BY <1>1 DEF PlansOK, PlanOK, Plan, Unsafe, Underway

LEMMA CoordinatePlan ==
  ASSUME TruthInv, PlansOK, NEW p \in Proc, Coordinate(p)
  PROVE  PlanOK(p)'
<1>1. /\ pc[p] = "coordinate" /\ pc'[p] = "work"
      /\ UNCHANGED <<turn, desired, todo>>
      /\ ledger'[p] = ledger[p]
         \/ ledger'[p] = Adopt(ledger[p], desired[p].header)
  BY DEF TruthInv, TypeInv, TypeOK, Coordinate, Goto, reading, call
<1>2. ledger[p] \in Ledger
  BY <1>1 DEF TruthInv, TypeInv, MemoryOK, MemoryOf, WithLedger
<1>3. \A a \in Artifacts : ledger'[p].entries[a] = ledger[p].entries[a]
  BY <1>1, <1>2 DEF Adopt, Ledger
<1>4. \A a \in Artifacts : Certain(ledger[p].entries[a])
  BY <1>1 DEF Coordinate, Refuses, Unsafe, Certain
<1>5. QED
  BY <1>1, <1>3, <1>4, PlanKept

LEMMA AnnouncePlan ==
  ASSUME TruthInv, PlansOK, NEW p \in Proc, Announce(p)
  PROVE  PlanOK(p)'
<1>1. /\ pc[p] = "work" /\ pc'[p] = "call" /\ UNCHANGED <<desired, todo>>
      /\ before'[p] = ledger[p]
  BY DEF TruthInv, TypeInv, TypeOK, Announce, Goto, reading
<1>2. \A a \in Artifacts \ turn'[p] :
         ledger'[p].entries[a] = ledger[p].entries[a]
  BY <1>1, AnnounceTruth
  DEF TruthInv, OperationOK, OnlyTurnOpen, Underway
<1>3. QED
  BY <1>1, <1>2 DEF PlansOK, PlanOK, Underway

LEMMA SettlePlan ==
  ASSUME TruthInv, PlansOK, NEW p \in Proc, Settle(p)
  PROVE  PlanOK(p)'
<1>1. CASE answer[p] # "ok"
  BY <1>1, PlanEnded DEF Settle, TruthInv
<1>2. CASE answer[p] = "ok"
  <2> DEFINE new == [a \in turn[p] |-> Confirmed(desired[p].want[a])]
  <2>1. /\ pc[p] = "settle" /\ pc'[p] = "work" /\ desired' = desired
        /\ ledger'[p] = Record(ledger[p], new)
        /\ todo'[p] = todo[p] \ turn[p] /\ turn'[p] = {}
    BY <1>2 DEF TruthInv, TypeInv, TypeOK, Settle, Settled, Goto, reading
  <2>2. /\ desired[p].want \in Wanted /\ ledger[p] \in Ledger
        /\ turn[p] \in SUBSET Artifacts
    BY <2>1 DEF TruthInv, TypeInv, TypeOK, MemoryOK, MemoryOf, Planned,
                WithLedger, DesiredPublication
  <2>3. new \in [turn[p] -> {Absent} \cup Entry]
    BY <2>2, ConfirmedFacts DEF Wanted
  <2>4. \A a \in turn[p] : /\ HashOf(new[a]) = desired[p].want[a]
                           /\ Certain(new[a])
    BY <2>2, ConfirmedFacts DEF Wanted, Confirmed, Certain
  <2> HIDE DEF new
  <2>5. \A a \in Artifacts : ledger'[p].entries[a] =
           IF a \in turn[p] THEN new[a] ELSE ledger[p].entries[a]
    BY <2>1, <2>2, <2>3, RecordType
  <2>6. QED
    BY <2>1, <2>4, <2>5 DEF PlansOK, PlanOK, Underway
<1>3. QED
  BY <1>1, <1>2

LEMMA NextPlans ==
  ASSUME TruthInv, PlansOK, [Next]_vars
  PROVE  PlansOK'
<1>1. CASE UNCHANGED vars \/ Prepare \/ BuildEnds
  <2>1. UNCHANGED <<pc, desired, ledger, todo, turn>>
    BY <1>1 DEF vars, Prepare, BuildEnds, files, services, reading, call
  <2>2. QED
    BY <2>1 DEF PlansOK, PlanOK
<1>2. ASSUME NEW p \in Proc, StartPublish(p) \/ Step(p) \/ Stop(p)
      PROVE  PlansOK'
  <2> USE DEF TruthInv, TypeInv, TypeOK, Goto, reading, call
  <2>1. CASE StartPublish(p) \/ ReadBundle(p) \/ ReadDesired(p)
    <3>1. /\ pc[p] \in {"idle", "bundle", "desire"}
          /\ pc'[p] \in {"bundle", "desire", "plan"} /\ UNCHANGED turn
      BY <2>1 DEF StartPublish, ReadBundle, ReadDesired
    <3>2. PlanOK(p)'
      BY <3>1, PlanKept DEF Planned, WithLedger, Underway
    <3>3. QED
      BY <1>2, <3>2, OthersPlans DEF PlansOK
  <2>2. CASE Stop(p) \/ Refuse(p) \/ Finish(p)
    <3>1. PlanOK(p)'
      BY <2>2, PlanEnded DEF Stop, Refuse, Finish
    <3>2. QED
      BY <1>2, <3>1, OthersPlans DEF PlansOK
  <2>3. CASE \/ PutObject(p) \/ DeleteObject(p) \/ CommitFiles(p)
             \/ CreateDeployment(p) \/ Poll(p)
    <3>1. /\ pc[p] \in Underway /\ pc'[p] \in Underway
          /\ UNCHANGED <<desired, ledger, todo, turn>>
      BY <2>3
      DEF PutObject, DeleteObject, CommitFiles, CreateDeployment, Poll,
          Answered, Again, Calling, Underway
    <3>2. PlanOK(p)'
      BY <3>1, PlanKept
    <3>3. QED
      BY <1>2, <3>2, OthersPlans DEF PlansOK
  <2>4. CASE MakePlan(p) \/ Coordinate(p) \/ Announce(p) \/ Settle(p)
    <3>1. PlanOK(p)'
      BY <2>4, MakePlanPlan, CoordinatePlan, AnnouncePlan, SettlePlan
    <3>2. QED
      BY <1>2, <3>1, OthersPlans DEF PlansOK
  <2>5. QED
    BY <1>2, <2>1, <2>2, <2>3, <2>4 DEF Step
<1>3. QED
  BY <1>1, <1>2 DEF Next

\* A run that finds its plan done has published what it desired and nothing
\* else is left: no artifact is out of the plan by mistake, and none of those
\* in it is taken for done before the service holds it.
THEOREM FinishedPublished ==
  ASSUME Solo, StableAccess
  PROVE  Spec => []FinishedMeansPublished
<1>1. TruthInv /\ PlansOK => FinishedMeansPublished
  <2> SUFFICES ASSUME TruthInv, PlansOK, NEW p \in Proc,
                      pc[p] = "work", todo[p] = {}
               PROVE  remote = desired[p].want
    BY DEF FinishedMeansPublished
  <2>1. remote \in Wanted /\ desired[p].want \in Wanted
    BY DEF TruthInv, TypeInv, TypeOK, MemoryOK, MemoryOf, Planned,
           DesiredPublication
  <2>2. \A a \in Artifacts : remote[a] = desired[p].want[a]
    BY DEF TruthInv, LedgerIsTruthful, OperationOK, MemoryMatches, WithLedger,
           PlansOK, PlanOK, Underway
  <2>3. QED
    BY <2>1, <2>2 DEF Wanted
<1>2. TruthInv /\ PlansOK /\ [Next]_vars => PlansOK'
  BY NextPlans
<1>3. QED
  BY <1>1, <1>2, InitPlans, TruthInvariance, PTL DEF Spec

-----------------------------------------------------------------------------
(* The site and the files it shows.                                        *)

\* What a run without `prepare` beside it knows: application bundle and
\* images are of one gallery, and the site has its turn when nothing else is
\* left of the plan.
OneGallery(p) ==
    /\ pc[p] = "desire" => bundle[p] = local.shows
    /\ pc[p] \in Planned =>
          \A a \in Artifacts : desired[p].want[a] =
             Desired(desired[p].want[Site], desired[p].want[Site])[a]
    /\ pc[p] \in Underway /\ Site \in turn[p] =>
          todo[p] \cap (Objects \cup Files) = {}

OneGalleryEach == \A p \in Proc : OneGallery(p)

LEMMA InitGallery == Init => OneGalleryEach
BY DEF Init, OneGalleryEach, OneGallery, Planned, Underway

\* Steps that read nothing and begin no operation.
LEMMA GalleryKept ==
  ASSUME NEW p \in Proc, OneGallery(p),
         \/ pc'[p] = pc[p]
         \/ pc[p] \in Underway /\ pc'[p] \in Underway
         \/ pc[p] \in Planned /\ pc'[p] \in {"coordinate", "work"}
         \/ pc'[p] \in {"idle", "bundle"},
         pc[p] = "desire" => UNCHANGED <<bundle[p], local>>,
         pc[p] \in Planned /\ pc'[p] \in Planned => desired'[p] = desired[p],
         pc[p] \in Underway /\ pc'[p] \in Underway =>
            turn'[p] = turn[p] /\ todo'[p] = todo[p]
  PROVE  OneGallery(p)'
BY DEF OneGallery, Planned, Underway

\* When the site has its turn, the objects and the files have had theirs.
LEMMA SiteIsLast ==
  ASSUME NEW want, NEW todoSet \in SUBSET Artifacts,
         NEW A \in Turns(todoSet, want), Site \in A
  PROVE  todoSet \cap (Objects \cup Files) = {}
BY ArtifactKinds DEF Turns

LEMMA OthersGallery ==
  ASSUME Solo, TypeInv, OneGalleryEach, NEW p \in Proc,
         StartPublish(p) \/ Step(p) \/ Stop(p)
  PROVE  \A q \in Proc \ {p} : OneGallery(q)'
<1>1. ASSUME NEW q \in Proc \ {p}
      PROVE  /\ pc'[q] = pc[q] /\ desired'[q] = desired[q]
             /\ turn'[q] = turn[q] /\ todo'[q] = todo[q]
             /\ bundle'[q] = bundle[q]
             /\ pc[q] = "idle" \/ local' = local
  <2> USE DEF TypeInv, TypeOK, Goto, reading, call, files
  <2>1. CASE \/ StartPublish(p) \/ ReadBundle(p) \/ ReadDesired(p)
             \/ MakePlan(p) \/ Coordinate(p)
    BY <2>1 DEF StartPublish, ReadBundle, ReadDesired, MakePlan, Coordinate,
                OthersIdle
  <2>2. CASE Announce(p)
    BY <2>2 DEF Announce
  <2>3. CASE Stop(p) \/ Refuse(p) \/ Finish(p) \/ Settle(p)
    BY <2>3 DEF Stop, Refuse, Finish, Settle, EndRun
  <2>4. CASE \/ PutObject(p) \/ DeleteObject(p) \/ CommitFiles(p)
             \/ CreateDeployment(p) \/ Poll(p)
    BY <2>4 DEF PutObject, DeleteObject, CommitFiles, CreateDeployment, Poll,
                Answered, Again
  <2>5. QED
    BY <2>1, <2>2, <2>3, <2>4 DEF Step
<1>2. QED
  BY <1>1, GalleryKept DEF OneGalleryEach

LEMMA ReadDesiredGallery ==
  ASSUME TypeInv, NEW p \in Proc, OneGallery(p), ReadDesired(p)
  PROVE  OneGallery(p)'
<1>1. /\ pc[p] = "desire" /\ pc'[p] = "plan"
      /\ desired'[p].want = Desired(bundle[p], local.shows)
  BY DEF TypeInv, TypeOK, ReadDesired, Goto
<1>2. bundle[p] = local.shows
  BY <1>1 DEF OneGallery
<1>3. Desired(local.shows, local.shows)[Site] = local.shows
  BY ArtifactKinds DEF Desired
<1>4. QED
  BY <1>1, <1>2, <1>3 DEF OneGallery, Underway

LEMMA AnnounceGallery ==
  ASSUME TypeInv, NEW p \in Proc, OneGallery(p), Announce(p)
  PROVE  OneGallery(p)'
<1>1. PICK A \in Turns(todo[p], desired[p].want) :
        turn' = [turn EXCEPT ![p] = A]
  BY DEF Announce
<1>2. /\ pc[p] = "work" /\ pc'[p] = "call" /\ UNCHANGED <<desired, todo>>
      /\ turn'[p] = A /\ todo[p] \in SUBSET Artifacts
  BY <1>1 DEF TypeInv, TypeOK, Announce, Goto, reading
<1>3. Site \in A => todo[p] \cap (Objects \cup Files) = {}
  BY <1>1, <1>2, SiteIsLast
<1>4. QED
  BY <1>2, <1>3 DEF OneGallery, Planned

LEMMA NextGallery ==
  ASSUME Solo, ~PrepareBeside, TypeInv, OneGalleryEach, [Next]_vars
  PROVE  OneGalleryEach'
<1>1. CASE UNCHANGED vars \/ BuildEnds
  BY <1>1
  DEF vars, BuildEnds, files, reading, call, OneGalleryEach, OneGallery
<1>2. CASE Prepare
  <2>1. /\ UNCHANGED <<pc, bundle, desired, todo, turn>>
        /\ \A p \in Proc : pc[p] # "desire"
    BY <1>2 DEF Prepare, BuildLocal, MayBuild, reading, call
  <2>2. QED
    BY <2>1 DEF OneGalleryEach, OneGallery
<1>3. ASSUME NEW p \in Proc, StartPublish(p) \/ Step(p) \/ Stop(p)
      PROVE  OneGallery(p)'
  <2> USE DEF TypeInv, TypeOK, Goto, reading, call, files
  <2>1. OneGallery(p)
    BY DEF OneGalleryEach
  <2>2. CASE StartPublish(p)
    BY <2>1, <2>2, GalleryKept DEF StartPublish, Planned, Underway
  <2>3. CASE ReadBundle(p)
    BY <2>3 DEF ReadBundle, OneGallery, Planned, Underway
  <2>4. CASE ReadDesired(p) \/ Announce(p)
    BY <2>1, <2>4, ReadDesiredGallery, AnnounceGallery
  <2>5. CASE MakePlan(p) \/ Coordinate(p)
    <3>1. /\ pc[p] \in {"plan", "coordinate"} /\ UNCHANGED desired
          /\ pc'[p] \in {"coordinate", "work"}
      BY <2>5 DEF MakePlan, Coordinate
    <3>2. QED
      BY <2>1, <3>1, GalleryKept DEF Planned, Underway
  <2>6. CASE Stop(p) \/ Refuse(p) \/ Finish(p)
    <3>1. pc'[p] = "idle"
      BY <2>6 DEF Stop, Refuse, Finish, EndRun
    <3>2. QED
      BY <3>1 DEF OneGallery, Planned, Underway
  <2>7. CASE Settle(p)
    <3>1. /\ pc[p] = "settle"
          /\ \/ pc'[p] = "idle"
             \/ pc'[p] = "work" /\ desired'[p] = desired[p]
      BY <2>7 DEF Settle, EndRun
    <3>2. QED
      BY <2>1, <3>1, GalleryKept DEF Planned, Underway
  <2>8. CASE \/ PutObject(p) \/ DeleteObject(p) \/ CommitFiles(p)
             \/ CreateDeployment(p) \/ Poll(p)
    <3>1. /\ pc[p] \in Underway /\ pc'[p] \in Underway
          /\ UNCHANGED <<desired, todo, turn>>
      BY <2>8
      DEF PutObject, DeleteObject, CommitFiles, CreateDeployment, Poll,
          Answered, Again, Calling, Underway
    <3>2. QED
      BY <2>1, <3>1, GalleryKept DEF Underway
  <2>9. QED
    BY <1>3, <2>2, <2>3, <2>4, <2>5, <2>6, <2>7, <2>8 DEF Step
<1>4. QED
  BY <1>1, <1>2, <1>3, OthersGallery DEF Next, OneGalleryEach

\* When a deployment is created, everything it needs has been confirmed: the
\* plan has nothing else left, the ledger vouches for what is not in the
\* plan, and the ledger is right.
LEMMA DeploysOverFiles ==
  ASSUME TruthInv, PlansOK, OneGalleryEach, NEW p \in Proc, CreateDeployment(p),
         NEW g \in building' \ building, NEW a \in Objects \cup Files
  PROVE  remote[a] = Desired(g, g)[a]
<1>1. /\ pc[p] = "call" /\ Site \in turn[p] /\ a \notin turn[p]
      /\ a \in Artifacts /\ g = desired[p].want[Site]
  BY ArtifactKinds DEF CreateDeployment, Calling
<1>2. a \notin todo[p] /\ desired[p].want[a] = Desired(g, g)[a]
  BY <1>1 DEF OneGalleryEach, OneGallery, Planned, Underway
<1>3. /\ Certain(ledger[p].entries[a])
      /\ HashOf(ledger[p].entries[a]) = desired[p].want[a]
  BY <1>1, <1>2 DEF PlansOK, PlanOK, Underway
<1>4. ledger[p].entries[a] = DurableEntry(a)
  BY <1>1 DEF TruthInv, OperationOK, MemoryMatches, WithLedger
<1>5. QED
  BY <1>1, <1>2, <1>3, <1>4 DEF TruthInv, LedgerIsTruthful

\* Only one action makes deployments.
LEMMA OnlyDeployments ==
  ASSUME TypeInv, [Next]_vars, \A p \in Proc : ~CreateDeployment(p)
  PROVE  building' \subseteq building
<1>1. CASE UNCHANGED vars \/ Prepare \/ BuildEnds
  BY <1>1 DEF vars, Prepare, BuildEnds, services
<1>2. ASSUME NEW p \in Proc, StartPublish(p) \/ Step(p) \/ Stop(p)
      PROVE  building' \subseteq building
  BY <1>2
  DEF Step, StartPublish, ReadBundle, ReadDesired, MakePlan, Refuse,
      Coordinate, Finish, Announce, Settle, PutObject, DeleteObject,
      CommitFiles, Poll, Stop, services
<1>3. QED
  BY <1>1, <1>2 DEF Next

\* A site is only built over the objects and files of the gallery it shows,
\* all of them and no other: the coordinator's order, the plan and the ledger
\* agree, for any number of photos and whatever earlier runs left behind.
THEOREM SiteOverFiles ==
  ASSUME Solo, StableAccess, ~PrepareBeside
  PROVE  Spec => SiteOverPublishedFiles
<1>1. TruthInv /\ PlansOK /\ [Next]_vars => PlansOK'
  BY NextPlans
<1>2. TruthInv /\ OneGalleryEach /\ [Next]_vars => OneGalleryEach'
  BY NextGallery DEF TruthInv
<1>3. TruthInv /\ PlansOK /\ OneGalleryEach /\ [Next]_vars =>
        [\A g \in building' \ building : \A a \in Objects \cup Files :
            remote[a] = Desired(g, g)[a]]_services
  <2> SUFFICES ASSUME TruthInv, PlansOK, OneGalleryEach, [Next]_vars,
                      NEW g \in building' \ building,
                      NEW a \in Objects \cup Files
               PROVE  remote[a] = Desired(g, g)[a]
    OBVIOUS
  <2>1. PICK p \in Proc : CreateDeployment(p)
    BY OnlyDeployments DEF TruthInv
  <2>2. QED
    BY <2>1, DeploysOverFiles
<1>4. QED
  BY <1>1, <1>2, <1>3, InitPlans, InitGallery, TruthInvariance, PTL
  DEF Spec, SiteOverPublishedFiles

-----------------------------------------------------------------------------
(* Announcements.                                                          *)

\* Nothing but a call under way touches an object, a file of the branch or
\* the list of deployments, and only for the artifacts of its turn.
LEMMA EffectsInTurn ==
  ASSUME TypeInv, [Next]_vars
  PROVE  /\ \A a \in Objects \cup Files : remote'[a] # remote[a] =>
              \E p \in Proc : pc[p] = "call" /\ a \in turn[p]
         /\ ~(building' \subseteq building) =>
              \E p \in Proc : pc[p] = "call" /\ Site \in turn[p]
<1>1. CASE UNCHANGED vars \/ Prepare
  BY <1>1 DEF vars, Prepare, services
<1>2. CASE BuildEnds
  <2>1. /\ building' \subseteq building
        /\ remote' = remote \/ \E g : remote' = [remote EXCEPT ![Site] = g]
    BY <1>2 DEF BuildEnds
  <2>2. QED
    BY <2>1, ArtifactKinds DEF TypeInv, TypeOK, Wanted
<1>3. ASSUME NEW p \in Proc,
             PutObject(p) \/ DeleteObject(p) \/ CommitFiles(p)
      PROVE  /\ pc[p] = "call" /\ UNCHANGED building
             /\ \A a \in Artifacts : remote'[a] # remote[a] => a \in turn[p]
  BY <1>3 DEF PutObject, DeleteObject, CommitFiles, Calling, TurnDone
<1>4. ASSUME NEW p \in Proc, CreateDeployment(p)
      PROVE  pc[p] = "call" /\ Site \in turn[p] /\ UNCHANGED remote
  BY <1>4 DEF CreateDeployment, Calling
<1>5. ASSUME NEW p \in Proc,
             \/ StartPublish(p) \/ ReadBundle(p) \/ ReadDesired(p)
             \/ MakePlan(p) \/ Refuse(p) \/ Coordinate(p) \/ Finish(p)
             \/ Announce(p) \/ Settle(p) \/ Poll(p) \/ Stop(p)
      PROVE  UNCHANGED services
  BY <1>5
  DEF StartPublish, ReadBundle, ReadDesired, MakePlan, Refuse, Coordinate,
      Finish, Announce, Settle, Poll, Stop, services
<1>6. QED
  BY <1>1, <1>2, <1>3, <1>4, <1>5, ArtifactKinds DEF Next, Step, services

\* Nothing comes about that the ledger file is not uncertain of at that
\* moment, whatever the services answer and even where they refuse in the
\* middle of what they began.
THEOREM EffectsAnnounced ==
  ASSUME Solo
  PROVE  Spec => EffectsAreAnnounced
<1>1. MemoryInv /\ [Next]_vars =>
        [/\ \A a \in Objects \cup Files :
              remote'[a] # remote[a] => ~Certain(DurableEntry(a))
         /\ ~(building' \subseteq building)
              => ~Certain(DurableEntry(Site))]_services
  <2> SUFFICES ASSUME MemoryInv, [Next]_vars
               PROVE  /\ \A a \in Objects \cup Files :
                           remote'[a] # remote[a] => ~Certain(DurableEntry(a))
                      /\ ~(building' \subseteq building)
                           => ~Certain(DurableEntry(Site))
    OBVIOUS
  <2>1. ASSUME NEW p \in Proc, pc[p] = "call", NEW a \in turn[p]
        PROVE  ~Certain(DurableEntry(a))
    BY <2>1, TurnStaysOpen DEF Underway
  <2>2. QED
    BY <2>1, EffectsInTurn DEF MemoryInv
<1>2. QED
  BY <1>1, MemoryInvariance, PTL DEF Spec, EffectsAreAnnounced

=============================================================================
