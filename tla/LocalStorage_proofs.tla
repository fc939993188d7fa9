------------------------- MODULE LocalStorage_proofs -------------------------
(***************************************************************************)
(* The object store in a directory keeps the contract of a storage         *)
(* provider, for any keys, contents, providers and number of generations.  *)
(***************************************************************************)
EXTENDS LocalStorage, TLAPS

USE DEF Replaced, Copy

\* A manifest names a generation that is written, and what it holds.
ManifestsName ==
    \A k \in Key : manifests[k] \notin {Absent, Tombstone} =>
        /\ manifests[k].generation \in 1 .. clock
        /\ blobs[manifests[k].generation] = manifests[k].content

\* So does a put that has stored its bytes.
PutsName ==
    \A p \in Proc : calls[p] # Absent =>
        /\ calls[p].stage \in {"stored", "copied"} => IsPut(p)
        /\ IsPut(p) /\ calls[p].stage # "begun" =>
              /\ calls[p].generation \in 1 .. clock
              /\ blobs[calls[p].generation] = calls[p].content

AloneIsAlone ==
    \A p, q \in Proc :
        /\ calls[p] # Absent /\ calls[q] # Absent
        /\ calls[p].key = calls[q].key
        /\ calls[p].alone
        => p = q

\* Where a call that is alone has brought its key.
Progress(p) ==
    LET k == calls[p].key
    IN  /\ calls[p].stage \in {"begun", "stored"} /\ k \notin doubtful =>
              public[k] = Head(k)
        /\ calls[p].stage = "copied" => public[k] = calls[p].content
        /\ calls[p].stage = "swapped" => Head(k) = calls[p].content
        /\ calls[p].stage = "swapped" /\ IsPut(p) =>
              public[k] = calls[p].content

AloneProgress ==
    \A p \in Proc : calls[p] # Absent /\ calls[p].alone => Progress(p)

StoreInv ==
    TypeOK /\ ManifestsName /\ PutsName /\ AloneIsAlone /\ AloneProgress
        /\ CopyFollows

-----------------------------------------------------------------------------
(* What `head` answers, and what changes it.                               *)

\* No manifest names a generation that it does not find.
LEMMA HeadIsManifest ==
  ASSUME ManifestsName, NEW k \in Key
  PROVE  Head(k) = IF manifests[k] \in {Absent, Tombstone} THEN Absent
                   ELSE manifests[k].content
BY DEF Head, ValidBlob, ManifestsName

\* A generation that is added changes no answer.
LEMMA HeadAfterStore ==
  ASSUME StoreInv, NEW p \in Proc, StoreBlob(p), NEW k \in Key
  PROVE  /\ Head(k)' = Head(k)
         /\ ManifestsName'
<1>1. /\ manifests' = manifests /\ clock \in Nat /\ clock' = clock + 1
      /\ clock + 1 \in Generation /\ DOMAIN blobs = Generation
      /\ \A g \in 1 .. clock : blobs'[g] = blobs[g]
  BY GenerationBound DEF StoreBlob, StoreInv, TypeOK, Generation
<1>2. ManifestsName'
  <2> SUFFICES ASSUME NEW l \in Key, manifests'[l] \notin {Absent, Tombstone}
               PROVE  /\ manifests'[l].generation \in 1 .. clock'
                      /\ blobs'[manifests'[l].generation] = manifests'[l].content
    BY DEF ManifestsName
  <2>1. /\ manifests[l].generation \in 1 .. clock
        /\ blobs[manifests[l].generation] = manifests[l].content
    BY <1>1 DEF StoreInv, ManifestsName
  <2>2. QED BY <1>1, <2>1
<1>3. Head(k) = IF manifests[k] \in {Absent, Tombstone} THEN Absent
                ELSE manifests[k].content
  BY HeadIsManifest DEF StoreInv
<1>4. Head(k)' = IF manifests'[k] \in {Absent, Tombstone} THEN Absent
                 ELSE manifests'[k].content
  BY <1>2 DEF Head, ValidBlob, ManifestsName
<1>5. QED BY <1>1, <1>2, <1>3, <1>4

\* A step that leaves blobs and manifests alone leaves every answer alone.
LEMMA HeadKept ==
  ASSUME UNCHANGED <<blobs, manifests>>, NEW k \in Key
  PROVE  Head(k)' = Head(k)
BY DEF Head, ValidBlob

\* The swap of a manifest is the moment at which a key changes.
LEMMA HeadAfterSwap ==
  ASSUME StoreInv, NEW p \in Proc, SwapManifest(p) \/ SwapTombstone(p)
  PROVE  /\ ManifestsName'
         /\ \A k \in Key : Head(k)' = IF k = calls[p].key
                                      THEN calls[p].content ELSE Head(k)
<1>1. /\ calls[p] \in Call /\ calls[p].key \in Key
      /\ blobs' = blobs /\ clock' = clock
      /\ DOMAIN manifests = Key
  BY DEF SwapManifest, SwapTombstone, InStage, StoreInv, TypeOK, Call
<1>2. CASE SwapManifest(p)
  <2> DEFINE new == [generation |-> calls[p].generation,
                     content |-> calls[p].content]
  <2>1. /\ IsPut(p)
        /\ calls[p].generation \in 1 .. clock
        /\ blobs[calls[p].generation] = calls[p].content
    BY <1>2 DEF SwapManifest, InStage, StoreInv, PutsName
  <2>2. new \in Manifest
    BY <1>1, <2>1 DEF Manifest, Call, StoreInv, TypeOK, Generation, IsPut
  <2>3. new \notin {Absent, Tombstone}
    BY <2>2, NoManifests
  <2>4. \A k \in Key : manifests'[k] = IF k = calls[p].key THEN new
                                       ELSE manifests[k]
    BY <1>1, <1>2 DEF SwapManifest
  <2>5. ManifestsName'
    BY <1>1, <2>1, <2>3, <2>4 DEF StoreInv, ManifestsName
  <2>6. ASSUME NEW k \in Key
        PROVE  Head(k)' = IF k = calls[p].key THEN calls[p].content ELSE Head(k)
    BY <1>1, <2>1, <2>3, <2>4 DEF Head, ValidBlob
  <2>7. QED BY <2>5, <2>6
<1>3. CASE SwapTombstone(p)
  <2>1. \A k \in Key : manifests'[k] = IF k = calls[p].key THEN Tombstone
                                       ELSE manifests[k]
    BY <1>1, <1>3 DEF SwapTombstone
  <2>2. calls[p].content = Absent
    BY <1>3 DEF SwapTombstone, IsDelete
  <2>3. ManifestsName'
    BY <1>1, <2>1 DEF StoreInv, ManifestsName
  <2>4. ASSUME NEW k \in Key
        PROVE  Head(k)' = IF k = calls[p].key THEN calls[p].content ELSE Head(k)
    BY <1>1, <2>1, <2>2 DEF Head, ValidBlob
  <2>5. QED BY <2>3, <2>4
<1>4. QED BY <1>2, <1>3

-----------------------------------------------------------------------------
(* The inductive invariant.                                                *)

LEMMA TypeStep == StoreInv /\ [Next]_vars => TypeOK'
<1> SUFFICES ASSUME StoreInv, [Next]_vars PROVE TypeOK'
  OBVIOUS
<1> USE DEF TypeOK, StoreInv
<1>1. ASSUME NEW p \in Proc, Begin(p) PROVE TypeOK'
  <2>1. PICK k \in Key, c \in Content \cup {Absent} :
          calls' = [q \in Proc |->
                      IF q = p
                      THEN Called(k, c, 0, On(k) = {}, "begun")
                      ELSE IF q \in On(k)
                      THEN Called(k, calls[q].content, calls[q].generation,
                                  FALSE, calls[q].stage)
                      ELSE calls[q]]
    BY <1>1 DEF Begin
  <2>2. Called(k, c, 0, On(k) = {}, "begun") \in Call
    BY DEF Call, Called
  <2>3. ASSUME NEW q \in On(k)
        PROVE  Called(k, calls[q].content, calls[q].generation, FALSE,
                      calls[q].stage) \in Call
    BY DEF On, Call, Called
  <2>4. calls' \in [Proc -> Call \cup {Absent}]
    BY <2>1, <2>2, <2>3
  <2>5. QED BY <1>1, <2>4 DEF Begin
<1>2. ASSUME NEW p \in Proc, StoreBlob(p) PROVE TypeOK'
  <2>1. clock + 1 \in Generation
    BY <1>2, GenerationBound DEF StoreBlob, Generation
  <2>2. calls[p] \in Call /\ calls[p].content \in Content
    BY <1>2 DEF StoreBlob, InStage, IsPut, Call
  <2>3. Called(calls[p].key, calls[p].content, clock + 1, calls[p].alone,
               "stored") \in Call
    BY <2>1, <2>2 DEF Call, Called
  <2>4. calls' \in [Proc -> Call \cup {Absent}]
    BY <1>2, <2>3 DEF StoreBlob, Step
  <2>5. QED BY <1>2, <2>1, <2>2, <2>4 DEF StoreBlob
<1>3. ASSUME NEW p \in Proc, Materialize(p) PROVE TypeOK'
  <2>1. calls[p] \in Call /\ calls[p].generation \in Generation
    BY <1>3 DEF Materialize, InStage, PutsName, Call, Generation
  <2>2. Called(calls[p].key, calls[p].content, calls[p].generation,
               calls[p].alone, "copied") \in Call
    BY <2>1 DEF Call, Called
  <2>3. QED BY <1>3, <2>1, <2>2 DEF Materialize, Step
<1>4. ASSUME NEW p \in Proc, SwapManifest(p) PROVE TypeOK'
  <2>1. /\ calls[p] \in Call
        /\ calls[p].generation \in Generation /\ calls[p].content \in Content
    BY <1>4 DEF SwapManifest, InStage, PutsName, IsPut, Call, Generation
  <2>2. Called(calls[p].key, calls[p].content, calls[p].generation,
               calls[p].alone, "swapped") \in Call
    BY <2>1 DEF Call, Called
  <2>3. [generation |-> calls[p].generation, content |-> calls[p].content]
          \in Manifest
    BY <2>1 DEF Manifest
  <2>4. QED BY <1>4, <2>2, <2>3 DEF SwapManifest, Step
<1>5. ASSUME NEW p \in Proc, SwapTombstone(p) PROVE TypeOK'
  <2>1. calls[p] \in Call
    BY <1>5 DEF SwapTombstone, InStage
  <2>2. Called(calls[p].key, calls[p].content, calls[p].generation,
               calls[p].alone, "swapped") \in Call
    BY <2>1 DEF Call, Called
  <2>3. QED BY <1>5, <2>2 DEF SwapTombstone, Step
<1>6. ASSUME NEW p \in Proc, ReturnPut(p) \/ ReturnDelete(p) \/ Fail(p)
      PROVE  TypeOK'
  <2>1. calls[p].key \in Key
    BY <1>6 DEF ReturnPut, ReturnDelete, Fail, InStage, Call
  <2>2. /\ calls' \in [Proc -> Call \cup {Absent}]
        /\ answers' \in [Proc -> {"none", "ok", "error"}]
    BY <1>6 DEF ReturnPut, ReturnDelete, Fail, End
  <2>3. QED BY <1>6, <2>1, <2>2 DEF ReturnPut, ReturnDelete, Fail, Doubt
<1>7. CASE UNCHANGED vars
  BY <1>7 DEF vars
<1>8. QED
  BY <1>1, <1>2, <1>3, <1>4, <1>5, <1>6, <1>7 DEF Next, Operation

LEMMA NamesStep == StoreInv /\ [Next]_vars => ManifestsName' /\ PutsName'
<1> SUFFICES ASSUME StoreInv, [Next]_vars PROVE ManifestsName' /\ PutsName'
  OBVIOUS
<1>1. ASSUME NEW p \in Proc, Begin(p) PROVE ManifestsName' /\ PutsName'
  <2>1. ManifestsName'
    BY <1>1 DEF Begin, StoreInv, ManifestsName
  <2>2. ASSUME NEW q \in Proc, calls'[q] # Absent, q # p
        PROVE  /\ calls[q] # Absent
               /\ calls'[q].stage = calls[q].stage
               /\ calls'[q].content = calls[q].content
               /\ calls'[q].generation = calls[q].generation
    <3>1. calls[q] \in Call \cup {Absent}
      BY DEF StoreInv, TypeOK
    <3>2. QED BY <1>1, <2>2, <3>1 DEF Begin, On, Call, Called
  <2>3. calls'[p].stage = "begun"
    BY <1>1 DEF Begin, Called
  <2>4. blobs' = blobs /\ clock' = clock
    BY <1>1 DEF Begin
  <2>5. QED BY <2>1, <2>2, <2>3, <2>4 DEF StoreInv, PutsName, IsPut
<1>2. ASSUME NEW p \in Proc, StoreBlob(p) PROVE ManifestsName' /\ PutsName'
  <2>1. /\ calls[p] \in Call /\ calls[p].content \in Content
        /\ DOMAIN calls = Proc /\ DOMAIN blobs = Generation
        /\ clock \in Nat /\ clock' = clock + 1 /\ clock + 1 \in Generation
    BY <1>2, GenerationBound
    DEF StoreBlob, InStage, IsPut, Call, StoreInv, TypeOK, Generation
  <2>2. /\ calls'[p].stage = "stored" /\ calls'[p].generation = clock + 1
        /\ calls'[p].content = calls[p].content
        /\ \A q \in Proc : q # p => calls'[q] = calls[q]
        /\ blobs' = [blobs EXCEPT ![clock + 1] = calls[p].content]
    BY <1>2, <2>1 DEF StoreBlob, Step, Call, Called
  <2>3. ASSUME NEW q \in Proc, q # p, calls'[q] # Absent
        PROVE  /\ calls'[q].stage \in {"stored", "copied"} => IsPut(q)'
               /\ IsPut(q)' /\ calls'[q].stage # "begun" =>
                     /\ calls'[q].generation \in 1 .. clock'
                     /\ blobs'[calls'[q].generation] = calls'[q].content
    BY <2>1, <2>2, <2>3 DEF StoreInv, PutsName, IsPut, Generation
  <2>4. PutsName'
    BY <1>2, <2>1, <2>2, <2>3 DEF PutsName, IsPut, StoreBlob
  <2>5. PICK k \in Key : k = calls[p].key
    BY <2>1 DEF Call
  <2>6. QED BY <1>2, <2>4, <2>5, HeadAfterStore
<1>3. ASSUME NEW p \in Proc, Materialize(p) PROVE ManifestsName' /\ PutsName'
  <2>1. /\ calls[p] \in Call /\ calls[p].stage = "stored"
        /\ DOMAIN calls = Proc
    BY <1>3 DEF Materialize, InStage, StoreInv, TypeOK
  <2>2. /\ calls'[p] = Called(calls[p].key, calls[p].content,
                              calls[p].generation, calls[p].alone, "copied")
        /\ \A q \in Proc : q # p => calls'[q] = calls[q]
        /\ blobs' = blobs /\ clock' = clock /\ manifests' = manifests
    BY <1>3, <2>1 DEF Materialize, Step
  <2>3. /\ calls'[p].stage = "copied"
        /\ calls'[p].generation = calls[p].generation
        /\ calls'[p].content = calls[p].content
    BY <2>1, <2>2 DEF Call, Called
  <2>4. QED
    BY <1>3, <2>1, <2>2, <2>3
    DEF StoreInv, PutsName, ManifestsName, IsPut, Materialize, InStage
<1>4. ASSUME NEW p \in Proc, SwapManifest(p) \/ SwapTombstone(p)
      PROVE  ManifestsName' /\ PutsName'
  <2>1. calls[p] \in Call /\ calls[p] # Absent /\ DOMAIN calls = Proc
    BY <1>4 DEF SwapManifest, SwapTombstone, InStage, StoreInv, TypeOK
  <2>2. /\ calls'[p] = Called(calls[p].key, calls[p].content,
                              calls[p].generation, calls[p].alone, "swapped")
        /\ \A q \in Proc : q # p => calls'[q] = calls[q]
        /\ blobs' = blobs /\ clock' = clock
    BY <1>4, <2>1 DEF SwapManifest, SwapTombstone, Step
  <2>3. /\ calls'[p].stage = "swapped"
        /\ calls'[p].generation = calls[p].generation
        /\ calls'[p].content = calls[p].content
    BY <2>1, <2>2 DEF Call, Called
  <2>4. IsPut(p) => /\ calls[p].generation \in 1 .. clock
                    /\ blobs[calls[p].generation] = calls[p].content
    BY <1>4, <2>1
    DEF StoreInv, PutsName, SwapManifest, SwapTombstone, InStage, IsDelete, IsPut
  <2>5. PutsName'
    BY <2>2, <2>3, <2>4 DEF StoreInv, PutsName, IsPut
  <2>6. QED BY <1>4, <2>5, HeadAfterSwap
<1>5. ASSUME NEW p \in Proc, ReturnPut(p) \/ ReturnDelete(p) \/ Fail(p)
      PROVE  ManifestsName' /\ PutsName'
  <2>1. /\ DOMAIN calls = Proc
        /\ calls' = [calls EXCEPT ![p] = Absent]
        /\ blobs' = blobs /\ clock' = clock /\ manifests' = manifests
    BY <1>5 DEF ReturnPut, ReturnDelete, Fail, End, StoreInv, TypeOK
  <2>2. QED BY <2>1 DEF StoreInv, ManifestsName, PutsName, IsPut
<1>6. CASE UNCHANGED vars
  BY <1>6 DEF vars, StoreInv, ManifestsName, PutsName, IsPut
<1>7. QED
  BY <1>1, <1>2, <1>3, <1>4, <1>5, <1>6 DEF Next, Operation

-----------------------------------------------------------------------------
(* The copies.                                                             *)

Others(p) ==
    \A k \in Key : k # calls[p].key =>
        /\ public'[k] = public[k]
        /\ Head(k)' = Head(k)
        /\ k \in doubtful' <=> k \in doubtful

\* A step of a call disturbs no other call that is alone.
LEMMA OthersProgress ==
  ASSUME StoreInv, NEW p \in Proc, calls[p] # Absent, Others(p),
         NEW q \in Proc, q # p, calls'[q] = calls[q],
         calls[q] # Absent, calls[q].alone
  PROVE  Progress(q)'
<1>1. calls[q].key \in Key /\ calls[q].key # calls[p].key
  BY DEF StoreInv, TypeOK, Call, AloneIsAlone
<1>2. Progress(q)
  BY DEF StoreInv, AloneProgress
<1>3. PICK k \in Key : k = calls[q].key
  BY <1>1
<1>4. /\ public'[k] = public[k]
      /\ Head(k)' = Head(k)
      /\ k \in doubtful' <=> k \in doubtful
  BY <1>1, <1>3 DEF Others
<1>5. calls'[q].key = k
  BY <1>3
<1>6. Head(calls[q].key) = Head(k) /\ Head(calls[q].key)' = Head(k)'
  BY <1>3, <1>5 DEF Head, ValidBlob
<1>7. QED BY <1>2, <1>3, <1>4, <1>5, <1>6 DEF Progress, IsPut

\* A step in the middle of a call.
LEMMA Advance ==
  ASSUME StoreInv, NEW p \in Proc, calls[p] # Absent, NEW g, NEW stage,
         Called(calls[p].key, calls[p].content, g, calls[p].alone, stage)
           \in Call,
         Step(p, g, stage), Others(p),
         calls[p].alone => Progress(p)'
  PROVE  AloneIsAlone' /\ AloneProgress' /\ CopyFollows'
<1>1. /\ calls'[p] = Called(calls[p].key, calls[p].content, g,
                            calls[p].alone, stage)
      /\ \A q \in Proc : q # p => calls'[q] = calls[q]
  BY DEF Step, StoreInv, TypeOK
<1>2. /\ calls'[p] # Absent
      /\ calls'[p].key = calls[p].key /\ calls'[p].alone = calls[p].alone
  BY <1>1, AbsentIsNoCall DEF Called
<1>3. AloneIsAlone'
  <2> SUFFICES ASSUME NEW q \in Proc, NEW r \in Proc,
                      calls'[q] # Absent, calls'[r] # Absent,
                      calls'[q].key = calls'[r].key, calls'[q].alone
               PROVE  q = r
    BY DEF AloneIsAlone
  <2>1. \A s \in Proc : calls'[s] # Absent =>
           /\ calls[s] # Absent
           /\ calls'[s].key = calls[s].key /\ calls'[s].alone = calls[s].alone
    BY <1>1, <1>2
  <2>2. QED BY <2>1 DEF StoreInv, AloneIsAlone
<1>4. AloneProgress'
  <2> SUFFICES ASSUME NEW q \in Proc, calls'[q] # Absent, calls'[q].alone
               PROVE  Progress(q)'
    BY DEF AloneProgress
  <2>1. CASE q = p
    BY <1>2, <2>1
  <2>2. CASE q # p
    BY <1>1, <2>2, OthersProgress
  <2>3. QED BY <2>1, <2>2
<1>5. CopyFollows'
  <2> SUFFICES ASSUME NEW k \in Key, k \notin doubtful', On(k)' = {}
               PROVE  public'[k] = Head(k)'
    BY DEF CopyFollows
  <2>1. k # calls[p].key /\ On(k) = {}
    BY <1>1, <1>2 DEF On
  <2>2. QED BY <2>1 DEF Others, StoreInv, CopyFollows
<1>6. QED BY <1>3, <1>4, <1>5

\* The end of a call.
LEMMA Leave ==
  ASSUME StoreInv, NEW p \in Proc, calls[p] # Absent,
         calls' = [calls EXCEPT ![p] = Absent], Others(p),
         \A k \in Key : k = calls[p].key /\ k \notin doubtful' =>
            public'[k] = Head(k)'
  PROVE  AloneIsAlone' /\ AloneProgress' /\ CopyFollows'
<1>1. /\ calls'[p] = Absent
      /\ \A q \in Proc : q # p => calls'[q] = calls[q]
  BY DEF StoreInv, TypeOK
<1>2. AloneIsAlone'
  BY <1>1 DEF StoreInv, AloneIsAlone
<1>3. AloneProgress'
  <2> SUFFICES ASSUME NEW q \in Proc, calls'[q] # Absent, calls'[q].alone
               PROVE  Progress(q)'
    BY DEF AloneProgress
  <2>1. QED BY <1>1, OthersProgress
<1>4. CopyFollows'
  <2> SUFFICES ASSUME NEW k \in Key, k \notin doubtful', On(k)' = {}
               PROVE  public'[k] = Head(k)'
    BY DEF CopyFollows
  <2>1. CASE k = calls[p].key
    BY <2>1
  <2>2. CASE k # calls[p].key
    <3>1. On(k) = {}
      BY <1>1, <2>2 DEF On
    <3>2. QED BY <2>2, <3>1 DEF Others, StoreInv, CopyFollows
  <2>3. QED BY <2>1, <2>2
<1>5. QED BY <1>2, <1>3, <1>4

LEMMA CopyStep ==
  StoreInv /\ [Next]_vars => AloneIsAlone' /\ AloneProgress' /\ CopyFollows'
<1> SUFFICES ASSUME StoreInv, [Next]_vars
             PROVE  AloneIsAlone' /\ AloneProgress' /\ CopyFollows'
  OBVIOUS
<1>1. ASSUME NEW p \in Proc, Begin(p)
      PROVE  AloneIsAlone' /\ AloneProgress' /\ CopyFollows'
  <2>1. PICK k \in Key, c \in Content \cup {Absent} :
          calls' = [q \in Proc |->
                      IF q = p
                      THEN Called(k, c, 0, On(k) = {}, "begun")
                      ELSE IF q \in On(k)
                      THEN Called(k, calls[q].content, calls[q].generation,
                                  FALSE, calls[q].stage)
                      ELSE calls[q]]
    BY <1>1 DEF Begin
  <2>2. /\ calls[p] = Absent
        /\ blobs' = blobs /\ manifests' = manifests /\ public' = public
        /\ doubtful' = doubtful
    BY <1>1 DEF Begin
  <2>3. /\ calls'[p] # Absent
        /\ calls'[p].key = k /\ calls'[p].stage = "begun"
        /\ calls'[p].alone <=> On(k) = {}
    <3>1. Called(k, c, 0, On(k) = {}, "begun") \in Call
      BY DEF Call, Called
    <3>2. QED BY <2>1, <3>1, AbsentIsNoCall DEF Called
  <2>4. ASSUME NEW q \in Proc, q # p, q \in On(k)
        PROVE  /\ calls'[q].key = k /\ calls'[q].alone = FALSE
               /\ calls'[q] # Absent
    <3>1. Called(k, calls[q].content, calls[q].generation, FALSE,
                 calls[q].stage) \in Call
      BY <2>4 DEF StoreInv, TypeOK, On, Call, Called
    <3>2. QED BY <2>1, <2>4, <3>1, AbsentIsNoCall DEF Called
  <2>5. \A q \in Proc : q # p /\ q \notin On(k) => calls'[q] = calls[q]
    BY <2>1
  <2>6. AloneIsAlone'
    <3> SUFFICES ASSUME NEW q \in Proc, NEW r \in Proc,
                        calls'[q] # Absent, calls'[r] # Absent,
                        calls'[q].key = calls'[r].key, calls'[q].alone
                 PROVE  q = r
      BY DEF AloneIsAlone
    <3>1. CASE q = p
      BY <2>3, <2>5, <3>1 DEF On
    <3>2. CASE q # p
      <4>1. q \notin On(k)
        BY <2>4, <3>2
      <4>2. calls'[q] = calls[q] /\ calls[q].key # k
        BY <2>5, <3>2, <4>1 DEF On
      <4>3. r # p /\ r \notin On(k)
        BY <2>3, <2>4, <4>2
      <4>4. calls'[r] = calls[r]
        BY <2>5, <4>3
      <4>5. QED BY <4>2, <4>4 DEF StoreInv, AloneIsAlone
    <3>3. QED BY <3>1, <3>2
  <2>7. AloneProgress'
    <3> SUFFICES ASSUME NEW q \in Proc, calls'[q] # Absent, calls'[q].alone
                 PROVE  Progress(q)'
      BY DEF AloneProgress
    <3>1. CASE q = p
      <4>1. k \notin doubtful => public[k] = Head(k)
        BY <2>3, <3>1 DEF StoreInv, CopyFollows
      <4>2. Head(k)' = Head(k) /\ Head(calls[p].key)' = Head(k)'
        BY <2>2, <2>3 DEF Head, ValidBlob
      <4>3. QED BY <2>2, <2>3, <3>1, <4>1, <4>2 DEF Progress
    <3>2. CASE q # p
      <4>1. calls'[q] = calls[q]
        BY <2>4, <2>5, <3>2
      <4>2. Progress(q)
        BY <4>1 DEF StoreInv, AloneProgress
      <4>3. Head(calls[q].key)' = Head(calls[q].key)
        BY <2>2, <4>1 DEF Head, ValidBlob
      <4>4. QED BY <2>2, <4>1, <4>2, <4>3 DEF Progress, IsPut
    <3>3. QED BY <3>1, <3>2
  <2>8. CopyFollows'
    <3> SUFFICES ASSUME NEW l \in Key, l \notin doubtful', On(l)' = {}
                 PROVE  public'[l] = Head(l)'
      BY DEF CopyFollows
    <3>1. l # k
      BY <2>3 DEF On
    <3>2. On(l) = {}
      BY <2>2, <2>5, <3>1 DEF On
    <3>3. QED BY <2>2, <3>2, HeadKept DEF StoreInv, CopyFollows
  <2>9. QED BY <2>6, <2>7, <2>8
<1>2. ASSUME NEW p \in Proc, StoreBlob(p)
      PROVE  AloneIsAlone' /\ AloneProgress' /\ CopyFollows'
  <2>1. /\ calls[p] \in Call /\ calls[p] # Absent
        /\ calls[p].stage = "begun" /\ IsPut(p)
        /\ public' = public /\ doubtful' = doubtful
        /\ Step(p, clock + 1, "stored")
    BY <1>2 DEF StoreBlob, InStage, StoreInv, TypeOK
  <2>2. clock + 1 \in Generation
    BY <1>2, GenerationBound DEF StoreBlob, StoreInv, TypeOK, Generation
  <2>3. Called(calls[p].key, calls[p].content, clock + 1, calls[p].alone,
               "stored") \in Call
    BY <2>1, <2>2 DEF Call, Called, IsPut
  <2>4. Others(p)
    BY <1>2, <2>1, HeadAfterStore DEF Others
  <2>5. ASSUME calls[p].alone PROVE Progress(p)'
    <3>1. PICK k \in Key : k = calls[p].key
      BY <2>1 DEF Call
    <3>2. /\ calls'[p].key = k /\ calls'[p].stage = "stored"
      BY <2>1, <3>1 DEF Step, Called, StoreInv, TypeOK
    <3>3. k \notin doubtful => public[k] = Head(k)
      BY <2>1, <2>5, <3>1 DEF StoreInv, AloneProgress, Progress, Head, ValidBlob
    <3>4. Head(k)' = Head(k)
      BY <1>2, HeadAfterStore
    <3>5. Head(calls[p].key)' = Head(k)'
      BY <3>2 DEF Head, ValidBlob
    <3>6. QED BY <2>1, <3>2, <3>3, <3>4, <3>5 DEF Progress
  <2>6. QED BY <2>1, <2>3, <2>4, <2>5, Advance
<1>3. ASSUME NEW p \in Proc, Materialize(p)
      PROVE  AloneIsAlone' /\ AloneProgress' /\ CopyFollows'
  <2>1. /\ calls[p] \in Call /\ calls[p] # Absent
        /\ calls[p].stage = "stored" /\ IsPut(p)
        /\ calls[p].generation \in Generation
        /\ blobs[calls[p].generation] = calls[p].content
        /\ public' = [public EXCEPT ![calls[p].key] =
                        blobs[calls[p].generation]]
        /\ doubtful' = doubtful /\ blobs' = blobs /\ manifests' = manifests
        /\ Step(p, calls[p].generation, "copied")
    BY <1>3
    DEF Materialize, InStage, StoreInv, TypeOK, PutsName, Call, Generation
  <2>2. Called(calls[p].key, calls[p].content, calls[p].generation,
               calls[p].alone, "copied") \in Call
    BY <2>1 DEF Call, Called
  <2>3. Others(p)
    <3> SUFFICES ASSUME NEW k \in Key, k # calls[p].key
                 PROVE  public'[k] = public[k] /\ Head(k)' = Head(k)
      BY <2>1 DEF Others
    <3>1. QED BY <2>1, HeadKept DEF StoreInv, TypeOK
  <2>4. Progress(p)'
    <3>1. /\ calls'[p].key = calls[p].key /\ calls'[p].stage = "copied"
          /\ calls'[p].content = calls[p].content
      BY <2>1 DEF Step, Called, StoreInv, TypeOK
    <3>2. public'[calls[p].key] = calls[p].content
      BY <2>1 DEF StoreInv, TypeOK, Call
    <3>3. QED BY <3>1, <3>2 DEF Progress
  <2>5. QED BY <2>1, <2>2, <2>3, <2>4, Advance
<1>4. ASSUME NEW p \in Proc, SwapManifest(p) \/ SwapTombstone(p)
      PROVE  AloneIsAlone' /\ AloneProgress' /\ CopyFollows'
  <2>1. /\ calls[p] \in Call /\ calls[p] # Absent
        /\ IsPut(p) => calls[p].stage = "copied"
        /\ public' = public /\ doubtful' = doubtful
        /\ Step(p, calls[p].generation, "swapped")
    BY <1>4
    DEF SwapManifest, SwapTombstone, InStage, IsPut, IsDelete, StoreInv, TypeOK
  <2>2. Called(calls[p].key, calls[p].content, calls[p].generation,
               calls[p].alone, "swapped") \in Call
    BY <2>1 DEF Call, Called
  <2>3. Others(p)
    BY <1>4, <2>1, HeadAfterSwap DEF Others
  <2>4. ASSUME calls[p].alone PROVE Progress(p)'
    <3>1. PICK k \in Key : k = calls[p].key
      BY <2>1 DEF Call
    <3>2. /\ calls'[p].key = k /\ calls'[p].stage = "swapped"
          /\ calls'[p].content = calls[p].content
      BY <2>1, <3>1 DEF Step, Called, StoreInv, TypeOK
    <3>3. Head(k)' = calls[p].content
      BY <1>4, <3>1, HeadAfterSwap
    <3>4. IsPut(p) => public[k] = calls[p].content
      BY <2>1, <2>4, <3>1 DEF StoreInv, AloneProgress, Progress
    <3>5. Head(calls[p].key)' = Head(k)'
      BY <3>2 DEF Head, ValidBlob
    <3>6. QED BY <2>1, <3>2, <3>3, <3>4, <3>5 DEF Progress, IsPut
  <2>5. QED BY <2>1, <2>2, <2>3, <2>4, Advance
<1>5. ASSUME NEW p \in Proc, ReturnPut(p)
      PROVE  AloneIsAlone' /\ AloneProgress' /\ CopyFollows'
  <2>1. /\ calls[p] # Absent /\ calls[p].stage = "swapped" /\ IsPut(p)
        /\ Doubt(p) /\ calls' = [calls EXCEPT ![p] = Absent]
        /\ blobs' = blobs /\ manifests' = manifests /\ public' = public
    BY <1>5 DEF ReturnPut, InStage, End
  <2>2. Others(p)
    BY <2>1, HeadKept DEF Others, Doubt
  <2>3. ASSUME NEW k \in Key, k = calls[p].key, k \notin doubtful'
        PROVE  public'[k] = Head(k)'
    <3>1. calls[p].alone
      BY <2>1, <2>3 DEF Doubt
    <3>2. public[k] = Head(k)
      BY <2>1, <2>3, <3>1 DEF StoreInv, AloneProgress, Progress
    <3>3. QED BY <2>1, <3>2, HeadKept
  <2>4. QED BY <2>1, <2>2, <2>3, Leave
<1>6. ASSUME NEW p \in Proc, ReturnDelete(p)
      PROVE  AloneIsAlone' /\ AloneProgress' /\ CopyFollows'
  <2>1. /\ calls[p] \in Call
        /\ calls[p] # Absent /\ calls[p].stage = "swapped" /\ IsDelete(p)
        /\ calls' = [calls EXCEPT ![p] = Absent]
        /\ blobs' = blobs /\ manifests' = manifests
        /\ \/ /\ public' = [public EXCEPT ![calls[p].key] = Absent]
              /\ Doubt(p)
           \/ /\ public' = public
              /\ doubtful' = doubtful \cup {calls[p].key}
    BY <1>6 DEF ReturnDelete, InStage, End, StoreInv, TypeOK
  <2>2. Others(p)
    <3> SUFFICES ASSUME NEW k \in Key, k # calls[p].key
                 PROVE  /\ public'[k] = public[k] /\ Head(k)' = Head(k)
                        /\ k \in doubtful' <=> k \in doubtful
      BY DEF Others
    <3>1. QED BY <2>1, HeadKept DEF StoreInv, TypeOK, Doubt
  <2>3. ASSUME NEW k \in Key, k = calls[p].key, k \notin doubtful'
        PROVE  public'[k] = Head(k)'
    <3>1. calls[p].alone /\ public'[k] = Absent
      BY <2>1, <2>3 DEF Doubt, StoreInv, TypeOK
    <3>2. Head(k) = Absent
      BY <2>1, <2>3, <3>1 DEF StoreInv, AloneProgress, Progress, IsDelete
    <3>3. QED BY <2>1, <3>1, <3>2, HeadKept
  <2>4. QED BY <2>1, <2>2, <2>3, Leave
<1>7. ASSUME NEW p \in Proc, Fail(p)
      PROVE  AloneIsAlone' /\ AloneProgress' /\ CopyFollows'
  <2>1. /\ calls[p] \in Call /\ calls[p] # Absent
        /\ calls' = [calls EXCEPT ![p] = Absent]
        /\ doubtful' = IF calls[p].alone /\ ~HalfDone(p) THEN doubtful
                       ELSE doubtful \cup {calls[p].key}
        /\ blobs' = blobs /\ manifests' = manifests /\ public' = public
    BY <1>7 DEF Fail, End, StoreInv, TypeOK
  <2>2. Others(p)
    BY <2>1, HeadKept DEF Others
  <2>3. ASSUME NEW k \in Key, k = calls[p].key, k \notin doubtful'
        PROVE  public'[k] = Head(k)'
    <3>1. calls[p].alone /\ ~HalfDone(p) /\ k \notin doubtful
      BY <2>1, <2>3
    <3>2. /\ calls[p].stage \in {"begun", "stored", "swapped"}
          /\ calls[p].stage = "swapped" => IsPut(p)
      BY <2>1, <3>1 DEF HalfDone, InStage, IsPut, IsDelete, Call
    <3>3. public[k] = Head(k)
      <4>1. Progress(p)
        BY <2>1, <3>1 DEF StoreInv, AloneProgress
      <4>2. Head(calls[p].key) = Head(k)
        BY <2>3 DEF Head, ValidBlob
      <4>3. QED BY <2>3, <3>1, <3>2, <4>1, <4>2 DEF Progress
    <3>4. QED BY <2>1, <3>3, HeadKept
  <2>4. QED BY <2>1, <2>2, <2>3, Leave
<1>8. CASE UNCHANGED vars
  <2>1. /\ calls' = calls /\ public' = public /\ doubtful' = doubtful
        /\ blobs' = blobs /\ manifests' = manifests
    BY <1>8 DEF vars
  <2>2. QED
    BY <2>1 DEF StoreInv, AloneIsAlone, AloneProgress, Progress, CopyFollows,
                Head, ValidBlob, IsPut, On
<1>9. QED
  BY <1>1, <1>2, <1>3, <1>4, <1>5, <1>6, <1>7, <1>8 DEF Next, Operation

LEMMA InitStore == Init => StoreInv
<1> SUFFICES ASSUME Init PROVE StoreInv
  OBVIOUS
<1>1. TypeOK
  BY GenerationBound DEF Init, TypeOK
<1>2. ManifestsName /\ PutsName /\ AloneIsAlone /\ AloneProgress
  BY DEF Init, ManifestsName, PutsName, AloneIsAlone, AloneProgress
<1>3. CopyFollows
  BY DEF Init, CopyFollows, Head
<1>4. QED BY <1>1, <1>2, <1>3 DEF StoreInv

LEMMA StoreStep == StoreInv /\ [Next]_vars => StoreInv'
BY TypeStep, NamesStep, CopyStep DEF StoreInv

LEMMA StoreInvariance == Spec => []StoreInv
BY InitStore, StoreStep, PTL DEF Spec

\* The state of the directory and of the calls is one that the operations
\* are written for.
THEOREM StoreTypeCorrect == Spec => []TypeOK
<1>1. StoreInv => TypeOK
  BY DEF StoreInv
<1>2. QED BY <1>1, StoreInvariance, PTL

\* `head` never answers Integrity: a manifest names a whole generation.
THEOREM HeadIsNeverDamaged == Spec => [](\A k \in Key : Head(k) # Damaged)
<1>1. StoreInv => \A k \in Key : Head(k) # Damaged
  <2> SUFFICES ASSUME StoreInv, NEW k \in Key PROVE Head(k) # Damaged
    OBVIOUS
  <2>1. Head(k) = IF manifests[k] \in {Absent, Tombstone} THEN Absent
                  ELSE manifests[k].content
    BY HeadIsManifest DEF StoreInv
  <2>2. manifests[k] \notin {Absent, Tombstone} =>
           manifests[k].content \in Content
    BY DEF StoreInv, TypeOK, Manifest
  <2>3. QED BY <2>1, <2>2, DamagedIsNoContent
<1>2. QED BY <1>1, StoreInvariance, PTL

\* While nothing is at work on a key, the copy under its name is what `head`
\* answers, except after two operations on it that overlapped, one that was
\* cut off between the two steps that show, or a delete that could not remove
\* the copy; and then until an operation that runs alone mends it.
THEOREM StoreCopyFollows == Spec => []CopyFollows
<1>1. StoreInv => CopyFollows
  BY DEF StoreInv
<1>2. QED BY <1>1, StoreInvariance, PTL

-----------------------------------------------------------------------------
(* The directory implements the contract of a storage provider.            *)

RequestOf(call) ==
    IF call = Absent THEN Absent
    ELSE [key |-> call.key, object |-> call.content,
          done |-> call.stage = "swapped"]

LEMMA InitContract == Init => Contract!SInit
<1> SUFFICES ASSUME Init PROVE Contract!SInit
  OBVIOUS
<1>1. \A k \in Key : Head(k) = Absent
  BY DEF Init, Head
<1>2. QED BY <1>1 DEF Init, Contract!SInit

LEMMA ContractStep ==
  StoreInv /\ [Next]_vars => [Contract!SNext]_(Contract!svars)
<1> SUFFICES ASSUME StoreInv, [Next]_vars
             PROVE  [Contract!SNext]_(Contract!svars)
  OBVIOUS
<1> DEFINE reqs == [p \in Proc |-> RequestOf(calls[p])]
           objs == [k \in Key |-> Head(k)]
<1>1. ASSUME NEW p \in Proc, calls[p] # Absent
      PROVE  /\ reqs[p] = [key |-> calls[p].key, object |-> calls[p].content,
                           done |-> calls[p].stage = "swapped"]
             /\ reqs[p] # Absent
             /\ calls[p] \in Call
  <2>1. calls[p] \in Call
    BY <1>1 DEF StoreInv, TypeOK
  <2>2. [key |-> calls[p].key, object |-> calls[p].content,
         done |-> calls[p].stage = "swapped"]
          \in [key : Key, object : Content \cup {Absent}, done : BOOLEAN]
    BY <2>1 DEF Call
  <2>3. QED BY <1>1, <2>1, <2>2, AbsentIsNoRequest DEF RequestOf
<1>2. UNCHANGED <<blobs, manifests>> => objs' = objs
  BY HeadKept
<1>3. ASSUME NEW p \in Proc, Begin(p) PROVE Contract!Ask(p)
  <2>1. PICK k \in Key, c \in Content \cup {Absent} :
          calls' = [q \in Proc |->
                      IF q = p
                      THEN Called(k, c, 0, On(k) = {}, "begun")
                      ELSE IF q \in On(k)
                      THEN Called(k, calls[q].content, calls[q].generation,
                                  FALSE, calls[q].stage)
                      ELSE calls[q]]
    BY <1>3 DEF Begin
  <2>2. calls[p] = Absent /\ objs' = objs
    BY <1>2, <1>3 DEF Begin
  <2>3. RequestOf(calls'[p]) = [key |-> k, object |-> c, done |-> FALSE]
    <3>1. Called(k, c, 0, On(k) = {}, "begun") \in Call
      BY DEF Call, Called
    <3>2. QED BY <2>1, <3>1, AbsentIsNoCall DEF Called, RequestOf
  <2>4. ASSUME NEW q \in Proc, q # p
        PROVE  RequestOf(calls'[q]) = RequestOf(calls[q])
    <3>1. CASE q \in On(k)
      <4>1. Called(k, calls[q].content, calls[q].generation, FALSE,
                   calls[q].stage) \in Call
        BY <3>1 DEF StoreInv, TypeOK, On, Call, Called
      <4>2. QED
        BY <2>1, <2>4, <3>1, <4>1, AbsentIsNoCall DEF Called, RequestOf, On
    <3>2. CASE q \notin On(k)
      BY <2>1, <2>4, <3>2
    <3>3. QED BY <3>1, <3>2
  <2>5. reqs' = [reqs EXCEPT ![p] =
                   [key |-> k, object |-> c, done |-> FALSE]]
    BY <2>3, <2>4
  <2>6. reqs[p] = Absent
    BY <2>2 DEF RequestOf
  <2>7. answers' = [answers EXCEPT ![p] = "none"]
    BY <1>3 DEF Begin
  <2>8. QED BY <2>2, <2>5, <2>6, <2>7 DEF Contract!Ask, RequestOf
<1>4. ASSUME NEW p \in Proc, StoreBlob(p) \/ Materialize(p)
      PROVE  reqs' = reqs /\ objs' = objs /\ answers' = answers
  <2>1. calls[p] # Absent /\ calls[p].stage # "swapped"
    BY <1>4 DEF StoreBlob, Materialize, InStage
  <2>2. PICK g \in Nat, stage \in {"stored", "copied"} : Step(p, g, stage)
    BY <1>1, <1>4, <2>1, GenerationBound
    DEF StoreBlob, Materialize, StoreInv, TypeOK, Generation, Call
  <2>3. g \in Generation \cup {0}
    BY <1>1, <1>4, <2>1, <2>2, GenerationBound
    DEF StoreBlob, Materialize, Step, Called, StoreInv, TypeOK, Generation,
        Call, InStage
  <2>4. calls'[p] # Absent
    BY <1>1, <2>1, <2>2, <2>3, AbsentIsNoCall
    DEF Step, Called, Call, StoreInv, TypeOK
  <2>5. \A q \in Proc : RequestOf(calls'[q]) = RequestOf(calls[q])
    BY <2>1, <2>2, <2>4 DEF Step, Called, RequestOf, StoreInv, TypeOK
  <2>6. objs' = objs
    BY <1>2, <1>4, HeadAfterStore DEF Materialize
  <2>7. answers' = answers
    BY <1>4 DEF StoreBlob, Materialize
  <2>8. QED BY <2>5, <2>6, <2>7
<1>5. ASSUME NEW p \in Proc, SwapManifest(p) \/ SwapTombstone(p)
      PROVE  Contract!TakeEffect(p)
  <2>1. /\ calls[p] # Absent /\ calls[p].stage # "swapped"
        /\ Step(p, calls[p].generation, "swapped")
    BY <1>5 DEF SwapManifest, SwapTombstone, InStage
  <2>2. /\ calls[p] \in Call
        /\ reqs[p] = [key |-> calls[p].key, object |-> calls[p].content,
                      done |-> FALSE]
        /\ reqs[p] # Absent
    BY <1>1, <2>1
  <2>3. calls'[p] = Called(calls[p].key, calls[p].content,
                           calls[p].generation, calls[p].alone, "swapped")
    BY <2>1 DEF Step, StoreInv, TypeOK
  <2>4. calls'[p] # Absent
    BY <2>2, <2>3, AbsentIsNoCall DEF Called, Call
  <2>5. reqs' = [reqs EXCEPT ![p] =
                   [key |-> calls[p].key, object |-> calls[p].content,
                    done |-> TRUE]]
    BY <2>1, <2>3, <2>4 DEF Step, Called, RequestOf, StoreInv, TypeOK
  <2>6. objs' = [objs EXCEPT ![calls[p].key] = calls[p].content]
    BY <1>5, HeadAfterSwap
  <2>7. answers' = answers
    BY <1>5 DEF SwapManifest, SwapTombstone
  <2>8. QED BY <2>2, <2>5, <2>6, <2>7 DEF Contract!TakeEffect, RequestOf
<1>6. ASSUME NEW p \in Proc, NEW a, calls[p] # Absent, End(p, a),
             UNCHANGED <<blobs, manifests>>
      PROVE  reqs[p] # Absent /\ Contract!Answer(p, a)
  <2>1. reqs' = [reqs EXCEPT ![p] = Absent]
    BY <1>6 DEF End, RequestOf, StoreInv, TypeOK
  <2>2. QED
    BY <1>1, <1>2, <1>6, <2>1 DEF End, Contract!Answer, RequestOf
<1>7. ASSUME NEW p \in Proc, ReturnPut(p) \/ ReturnDelete(p)
      PROVE  Contract!AnswerOk(p)
  <2>1. /\ calls[p] # Absent /\ calls[p].stage = "swapped"
        /\ End(p, "ok") /\ UNCHANGED <<blobs, manifests>>
    BY <1>7 DEF ReturnPut, ReturnDelete, InStage
  <2>2. /\ reqs[p] = [key |-> calls[p].key, object |-> calls[p].content,
                      done |-> TRUE]
        /\ reqs[p] # Absent
    BY <1>1, <2>1
  <2>3. QED BY <1>6, <2>1, <2>2 DEF Contract!AnswerOk, RequestOf
<1>8. ASSUME NEW p \in Proc, Fail(p) PROVE Contract!AnswerError(p)
  BY <1>6, <1>8 DEF Fail, Contract!AnswerError, RequestOf
<1>9. CASE UNCHANGED vars
  BY <1>2, <1>9 DEF vars, Contract!svars
<1>10. QED
  BY <1>3, <1>4, <1>5, <1>9, <1>7, <1>8
  DEF Next, Operation, Contract!SNext, Contract!svars, RequestOf

\* Whatever fails, stops or overlaps: a put and a delete take effect at one
\* moment, no later than the answer Ok, and `head` shows the object of one
\* put, whole, or none.
THEOREM StoreImplementsContract == Spec => ImplementsContract
BY InitContract, ContractStep, StoreInvariance, PTL
DEF Spec, ImplementsContract, Contract!SSpec

=============================================================================
