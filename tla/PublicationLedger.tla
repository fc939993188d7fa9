-------------------------- MODULE PublicationLedger --------------------------
(***************************************************************************)
(* The integration ledger and the planner that reads it:                   *)
(* crates/publisher-integration/src/lib.rs and src/planner.rs.             *)
(*                                                                         *)
(* A gallery is a set of photos.  It wants, remotely, the full-size image  *)
(* of each photo as an object of the storage service, its preview as a     *)
(* file of the repository, the application with its gallery.json as a      *)
(* further file, and one deployment of that application as the site.  The  *)
(* content of an artifact is told by the photos it shows, and SHA-256 is   *)
(* taken to be free of collisions, so this set also stands for its hash.   *)
(***************************************************************************)
EXTENDS Naturals

CONSTANTS
    Photo,   \* photos, told apart by the digest of their file
    Whole,   \* what the application and the site show: no single photo
    Config,  \* fingerprints of the project configuration
    Absent   \* an Option that is None, a file that is not there

ASSUME WholeAssumption == Whole \notin Photo
ASSUME ConfigAssumption == Config # {}
ASSUME AbsentHashAssumption == \A hash \in SUBSET Photo : hash # Absent

-----------------------------------------------------------------------------

Gallery == SUBSET Photo
Hash == SUBSET Photo

\* The hash of an image that changed on disk while it was being uploaded.
Altered == {}

Objects == {"object"} \X Photo
Previews == {"preview"} \X Photo
Application == <<"application", Whole>>
Site == <<"site", Whole>>
Files == Previews \cup {Application}
Artifacts == Objects \cup Files \cup {Site}

\* DesiredPublication: the artifacts of the committed gallery, and those
\* of the application bundle, which was composed from a manifest of its own.
Desired(bundle, gallery) ==
    [a \in Artifacts |->
        IF a \in Objects \cup Previews
        THEN IF a[2] \in gallery THEN {a[2]} ELSE Absent
        ELSE bundle]

-----------------------------------------------------------------------------

OperationState == {"Pending", "Confirmed", "Unknown"}
Entry == [hash : Hash, status : OperationState]

\* The publication a ledger is about: configuration and local generation.
Header == [config : Config, gen : Nat, shows : Gallery]
Entries == [Artifacts -> {Absent} \cup Entry]
Ledger == [header : Header, entries : Entries]

ASSUME AbsentLedgerAssumption == Absent \notin Entry \cup Ledger

NoEntries == [a \in Artifacts |-> Absent]

NewLedger(header) == [header |-> header, entries |-> NoEntries]

\* record_r2_object, record_github_file, record_vercel and their removals,
\* for every artifact of `entries`, which is Absent where one is removed.
Record(ledger, entries) ==
    [ledger EXCEPT !.entries =
        [a \in Artifacts |->
            IF a \in DOMAIN entries THEN entries[a] ELSE @[a]]]

\* adopt_publication
Adopt(ledger, header) == [ledger EXCEPT !.header = header]

\* Mutant of Certain: only an answer that was not understood is uncertain.
CertainUnlessUnknown(entry) == entry # Absent => entry.status # "Unknown"

\* The ledger vouches for the artifact.
Certain(entry) == entry # Absent => entry.status = "Confirmed"

HashOf(entry) == IF entry = Absent THEN Absent ELSE entry.hash

\* What unsafe_ledger_state looks for, and what the planner turns into
\* reconciliation requirements instead of operations.
Unsafe(entries) == {a \in Artifacts : ~Certain(entries[a])}

\* Mutant of Plan: what is there already is not compared.
PlanMissing(want, entries) ==
    {a \in Artifacts \ Unsafe(entries) :
        (want[a] = Absent) # (entries[a] = Absent)}

\* plan_storage, plan_repository, plan_hosting: the artifacts to put, write,
\* delete or publish.
Plan(want, entries) ==
    {a \in Artifacts \ Unsafe(entries) : HashOf(entries[a]) # want[a]}

\* Mutant of Turns: the site is published before its files.
TurnsSiteFirst(todo, want) ==
    LET puts == {a \in todo \cap Objects : want[a] # Absent}
        deletes == {a \in todo \cap Objects : want[a] = Absent}
    IN  IF Site \in todo THEN {{Site}}
        ELSE IF puts # {} THEN {{a} : a \in puts}
        ELSE IF deletes # {} THEN {{a} : a \in deletes}
        ELSE {todo \cap Files} \ {{}}

\* The artifacts whose turn it may be next: one object after the other, the
\* deletions last; all files at once, as one commit; the site at the end.
Turns(todo, want) ==
    LET puts == {a \in todo \cap Objects : want[a] # Absent}
        deletes == {a \in todo \cap Objects : want[a] = Absent}
    IN  IF puts # {} THEN {{a} : a \in puts}
        ELSE IF deletes # {} THEN {{a} : a \in deletes}
        ELSE IF todo \cap Files # {} THEN {todo \cap Files}
        ELSE {todo \cap {Site}} \ {{}}

=============================================================================
