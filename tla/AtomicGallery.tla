---------------------------- MODULE AtomicGallery ----------------------------
(***************************************************************************)
(* What a local publication promises to whoever reads the output           *)
(* directory: one photo set is shown, and it is replaced as a whole or not *)
(* at all.  While a replacement is under way either of the two files may   *)
(* already, or still, be the other one; once it is over they agree.        *)
(***************************************************************************)
CONSTANTS Content, Absent

VARIABLES
    shown,   \* the photo set of the last settled publication
    next,    \* the one that is replacing it, Absent between publications
    files    \* the active pair

avars == <<shown, next, files>>

Both(c) == [gallery |-> c, state |-> c]

AInit == shown = Absent /\ next = Absent /\ files = Both(Absent)

Begin ==
    /\ next = Absent
    /\ next' \in Content \ {shown}
    /\ UNCHANGED <<shown, files>>

Install ==
    /\ next # Absent
    /\ files' \in [gallery : {shown, next}, state : {shown, next}]
    /\ UNCHANGED <<shown, next>>

Settle(c) ==
    /\ next # Absent
    /\ files = Both(c)
    /\ shown' = c
    /\ next' = Absent
    /\ UNCHANGED files

CommitNew == Settle(next)
RollBack == Settle(shown)

ANext == Begin \/ Install \/ CommitNew \/ RollBack

ASpec == AInit /\ [][ANext]_avars

=============================================================================
