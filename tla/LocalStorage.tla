---------------------------- MODULE LocalStorage ----------------------------
(***************************************************************************)
(* The object store in a directory (provider-local/src/lib.rs).  The bytes *)
(* of a put go to a file of their own, a generation; a copy is made under  *)
(* the name of the key; and the manifest of the key is replaced, which is  *)
(* what `head` goes by.  A delete replaces the manifest by a tombstone and *)
(* removes the copy.                                                       *)
(*                                                                         *)
(* Nothing keeps two providers from working on one directory, an operation *)
(* may end in an error after any of its steps, and the process may stop    *)
(* there.  Nothing is ever cleaned up, and no temporary file is ever read. *)
(***************************************************************************)
EXTENDS Naturals

CONSTANTS
    Key,            \* valid object keys
    Content,        \* the bytes of an object, with its content type
    Proc,           \* the providers on the directory
    Absent,         \* no file, no call
    Tombstone,      \* the manifest of a deleted key
    Damaged,        \* `head` answers Integrity
    MaxGeneration   \* bound: the generations that puts write

ASSUME AbsentIsNoContent == Absent \notin Content
ASSUME DamagedIsNoContent == Damaged \notin Content \cup {Absent}
ASSUME GenerationBound == MaxGeneration \in Nat

VARIABLES
    blobs,       \* .provider-metadata/blobs: the content of each generation
    manifests,   \* .provider-metadata/manifests: the one of each key
    public,      \* the copy under the name of the key
    clock,       \* the nanoseconds that the last generation is named after
    calls,       \* the operation of each provider
    answers,     \* history: the answer to the last one, "none" until it ends
    doubtful     \* history: the keys whose copy may differ from the object

vars == <<blobs, manifests, public, clock, calls, answers, doubtful>>

-----------------------------------------------------------------------------

Generation == 1 .. MaxGeneration
Manifest == [generation : Generation, content : Content]

\* `content` is Absent for a delete; `generation` is 0 until it is chosen.
\* `alone`: no other operation on the key overlaps with it.
Call == [key : Key, content : Content \cup {Absent},
         generation : Generation \cup {0}, alone : BOOLEAN,
         stage : {"begun", "stored", "copied", "swapped"}]

ASSUME AbsentIsNoCall == Absent \notin Call
ASSUME AbsentIsNoRequest ==
    Absent \notin [key : Key, object : Content \cup {Absent}, done : BOOLEAN]
ASSUME NoManifests == {Absent, Tombstone} \cap Manifest = {}

TypeOK ==
    /\ blobs \in [Generation -> Content \cup {Absent}]
    /\ manifests \in [Key -> Manifest \cup {Absent, Tombstone}]
    /\ public \in [Key -> Content \cup {Absent}]
    /\ clock \in Generation \cup {0}
    /\ calls \in [Proc -> Call \cup {Absent}]
    /\ answers \in [Proc -> {"none", "ok", "error"}]
    /\ doubtful \subseteq Key

\* LocalStorageProvider::new creates the directories.
Init ==
    /\ blobs = [g \in Generation |-> Absent]
    /\ manifests = [k \in Key |-> Absent]
    /\ public = [k \in Key |-> Absent]
    /\ clock = 0
    /\ calls = [p \in Proc |-> Absent]
    /\ answers = [p \in Proc |-> "none"]
    /\ doubtful = {}

\* validate_blob: the file is there and has the size and the hash.
ValidBlob(m) == blobs[m.generation] = m.content

\* head
Head(k) ==
    IF manifests[k] \in {Absent, Tombstone} THEN Absent
    ELSE IF ValidBlob(manifests[k]) THEN manifests[k].content
    ELSE Damaged

-----------------------------------------------------------------------------
(* The operations, up to the steps that another one can see.               *)

Called(k, c, g, alone, stage) ==
    [key |-> k, content |-> c, generation |-> g, alone |-> alone,
     stage |-> stage]

On(k) == {p \in Proc : calls[p] # Absent /\ calls[p].key = k}

\* A call on a key that others work on: none of them is alone any more.
Begin(p) ==
    /\ calls[p] = Absent
    /\ \E k \in Key, c \in Content \cup {Absent} :
          calls' = [q \in Proc |->
                      IF q = p
                      THEN Called(k, c, 0, On(k) = {}, "begun")
                      ELSE IF q \in On(k)
                      THEN Called(k, calls[q].content, calls[q].generation,
                                  FALSE, calls[q].stage)
                      ELSE calls[q]]
    /\ answers' = [answers EXCEPT ![p] = "none"]
    /\ UNCHANGED <<blobs, manifests, public, clock, doubtful>>

InStage(p, stage) == calls[p] # Absent /\ calls[p].stage = stage
IsPut(p) == calls[p].content # Absent
IsDelete(p) == calls[p].content = Absent

Step(p, g, stage) ==
    calls' = [calls EXCEPT ![p] = Called(calls[p].key, calls[p].content, g,
                                         calls[p].alone, stage)]

\* replace_file_preserving_old: under the name is the file that was there or
\* the one that was completed beside it, and never a part of either.
Replaced(files, name, file) == [files EXCEPT ![name] = file]

\* copy_with_sha256: the file has the bytes whose hash the manifest tells,
\* however the source changes.
Copy(generation, bytes) == blobs' = Replaced(blobs, generation, bytes)

\* The bytes are hashed on their way to a temporary file of a new
\* generation, which gets its name when it is whole, and is read back.  The
\* name is the time in nanoseconds and the hash of the key: it is assumed
\* that the clock advances between two puts of one key.
StoreBlob(p) ==
    /\ InStage(p, "begun") /\ IsPut(p)
    /\ clock < MaxGeneration
    /\ clock' = clock + 1
    /\ Copy(clock + 1, calls[p].content)
    /\ Step(p, clock + 1, "stored")
    /\ UNCHANGED <<manifests, public, answers, doubtful>>

\* materialize, after the manifest is prepared in a temporary file.
Materialize(p) ==
    /\ InStage(p, "stored")
    /\ public' = Replaced(public, calls[p].key, blobs[calls[p].generation])
    /\ Step(p, calls[p].generation, "copied")
    /\ UNCHANGED <<blobs, manifests, clock, answers, doubtful>>

SwapManifest(p) ==
    /\ InStage(p, "copied")
    /\ manifests' = Replaced(manifests, calls[p].key,
                             [generation |-> calls[p].generation,
                              content |-> calls[p].content])
    /\ Step(p, calls[p].generation, "swapped")
    /\ UNCHANGED <<blobs, public, clock, answers, doubtful>>

SwapTombstone(p) ==
    /\ InStage(p, "begun") /\ IsDelete(p)
    /\ manifests' = Replaced(manifests, calls[p].key, Tombstone)
    /\ Step(p, calls[p].generation, "swapped")
    /\ UNCHANGED <<blobs, public, clock, answers, doubtful>>

-----------------------------------------------------------------------------
(* The answers.                                                            *)

\* The copy is in doubt after an operation that overlapped with another, and
\* no longer after one that has run alone to its Ok.
Doubt(p) ==
    doubtful' = IF calls[p].alone THEN doubtful \ {calls[p].key}
                ELSE doubtful \cup {calls[p].key}

End(p, answer) ==
    /\ calls' = [calls EXCEPT ![p] = Absent]
    /\ answers' = [answers EXCEPT ![p] = answer]

\* Mutant of ReturnPut: the call answers before the manifest is replaced.
ReturnPutAtOnce(p) ==
    /\ InStage(p, "copied")
    /\ Doubt(p)
    /\ End(p, "ok")
    /\ UNCHANGED <<blobs, manifests, public, clock>>

ReturnPut(p) ==
    /\ InStage(p, "swapped") /\ IsPut(p)
    /\ Doubt(p)
    /\ End(p, "ok")
    /\ UNCHANGED <<blobs, manifests, public, clock>>

\* Mutant of ReturnDelete: the copy is left to whoever publishes next.
ReturnDeleteOnly(p) ==
    /\ InStage(p, "swapped") /\ IsDelete(p)
    /\ Doubt(p)
    /\ End(p, "ok")
    /\ UNCHANGED <<blobs, manifests, public, clock>>

\* The copy is removed and the call answers; a failure to remove it is ignored.
ReturnDelete(p) ==
    /\ InStage(p, "swapped") /\ IsDelete(p)
    /\ \/ /\ public' = [public EXCEPT ![calls[p].key] = Absent]
          /\ Doubt(p)
       \/ /\ UNCHANGED public
          /\ doubtful' = doubtful \cup {calls[p].key}
    /\ End(p, "ok")
    /\ UNCHANGED <<blobs, manifests, clock>>

\* Between the two steps that a reader can see: a put has its copy and not
\* its manifest, a delete its tombstone and still the copy.
HalfDone(p) == InStage(p, "copied") \/ (InStage(p, "swapped") /\ IsDelete(p))

\* A step fails, or the process stops: the steps already made remain.
Fail(p) ==
    /\ calls[p] # Absent
    /\ doubtful' = IF calls[p].alone /\ ~HalfDone(p) THEN doubtful
                   ELSE doubtful \cup {calls[p].key}
    /\ End(p, "error")
    /\ UNCHANGED <<blobs, manifests, public, clock>>

-----------------------------------------------------------------------------

Operation(p) ==
    \/ StoreBlob(p) \/ Materialize(p) \/ SwapManifest(p) \/ SwapTombstone(p)
    \/ ReturnPut(p) \/ ReturnDelete(p)

Next == \E p \in Proc : Begin(p) \/ Operation(p) \/ Fail(p)

Spec == Init /\ [][Next]_vars

-----------------------------------------------------------------------------
(* Properties.                                                             *)

\* Whatever fails, stops or overlaps: `head` shows for each key the object
\* of one put, whole, or none; a put and a delete take effect at one moment,
\* and one that answers Ok has taken effect before it answers.
Contract ==
    INSTANCE ObjectStore WITH
        Object <- Content, Nothing <- Absent, Client <- Proc,
        objects <- [k \in Key |-> Head(k)],
        requests <- [p \in Proc |->
                       IF calls[p] = Absent THEN Absent
                       ELSE [key |-> calls[p].key, object |-> calls[p].content,
                             done |-> calls[p].stage = "swapped"]]

ImplementsContract == Contract!SSpec

\* While nothing is at work on a key, the copy, which is what a reader of the
\* directory gets, is the object of `head`.  Excepted are the keys on which
\* two operations have overlapped (even two puts that answered Ok), one was
\* cut off between the two steps that show, or a delete could not remove the
\* copy, until an operation that runs alone answers Ok and mends it.
CopyFollows ==
    \A k \in Key \ doubtful : On(k) = {} => public[k] = Head(k)

=============================================================================
