--------------------------- MODULE AnnouncedEffects ---------------------------
(***************************************************************************)
(* What the integration ledger promises to its next reader.  Whatever the  *)
(* ledger is certain of is so: before anything changes remotely the ledger *)
(* says that it is no longer certain, and it only becomes certain again of *)
(* what is there.  Nothing obliges it to become certain again.             *)
(***************************************************************************)
CONSTANTS Artifact, Value, Nothing, Uncertain

VARIABLES
    real,   \* what the services hold
    known   \* what the ledger says they hold

evars == <<real, known>>

EInit ==
    /\ real = [a \in Artifact |-> Nothing]
    /\ known = [a \in Artifact |-> Nothing]

Announce(A) ==
    /\ known' = [a \in Artifact |-> IF a \in A THEN Uncertain ELSE known[a]]
    /\ UNCHANGED real

Happen ==
    /\ real' \in [Artifact -> Value]
    /\ \A a \in Artifact : known[a] # Uncertain => real'[a] = real[a]
    /\ UNCHANGED known

Learn(A) ==
    /\ \A a \in A : known[a] = Uncertain
    /\ known' = [a \in Artifact |-> IF a \in A THEN real[a] ELSE known[a]]
    /\ UNCHANGED real

ENext == Happen \/ \E A \in SUBSET Artifact : Announce(A) \/ Learn(A)

ESpec == EInit /\ [][ENext]_evars

=============================================================================
