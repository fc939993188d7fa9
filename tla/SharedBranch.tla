---------------------------- MODULE SharedBranch ----------------------------
(***************************************************************************)
(* The repository part of `publish`, request by request: the batch of the  *)
(* RepositoryExecutor (publisher-integration/src/repository.rs) and the    *)
(* calls of the GitHub provider below it (provider-github/src/lib.rs), on  *)
(* a branch to which other people commit as well.  RemotePublication takes *)
(* this whole exchange for one step, CommitFiles.                          *)
(*                                                                         *)
(* The content of a file stands for its hash and for the blob with it.     *)
(***************************************************************************)
EXTENDS Naturals, Sequences

CONSTANTS
    Mine,        \* the paths that this project publishes
    Foreign,     \* the other paths of the repository
    Content,     \* what a file may hold
    Absent,      \* no file, no entry, no commit
    Uncertain,   \* stands for the content of a path in doubt
    MaxCommits   \* bound: commits on the branch

ASSUME PathAssumption == Mine \cap Foreign = {}
ASSUME AbsentContentAssumption == Absent \notin Content
ASSUME UncertainAssumption == Uncertain \notin Content \cup {Absent}
ASSUME CommitsAssumption == MaxCommits \in Nat \ {0}

VARIABLES
    branch,      \* the commits that the reference reaches, as their trees
    ledgerFile,  \* githubInventory of integration-state.json
    pc,          \* what the run does next
    ledger,      \* its copy of the inventory
    previous,    \* its copy before the batch
    batch,       \* what the plan writes and deletes
    staged,      \* the provider's working-change set
    base,        \* the commit it was told to build on
    made,        \* the commit it has created
    answer       \* how the executor classifies the provider's answer

provider == <<staged, base, made>>
memory == <<ledger, previous, batch>>
vars == <<branch, ledgerFile, pc, memory, provider, answer>>

-----------------------------------------------------------------------------

Path == Mine \cup Foreign
Tree == [Path -> Content \cup {Absent}]

\* A commit is named by its place in the history, a revision is such a name.
Revision == 0 .. MaxCommits
Tip == Len(branch)

Entry == [content : Content, revision : Revision,
          status : {"Pending", "Confirmed", "Unknown"}]
Inventory == [Mine -> Entry \cup {Absent}]

\* The batch: contents to write, and Absent for a path to delete.
Batch == UNION {[S -> Content \cup {Absent}] : S \in SUBSET Mine}

ASSUME AbsentEntryAssumption == Absent \notin Entry

Labels == {"idle", "ensure", "probe", "announce", "stage", "commit",
           "patch", "settle"}
Answers == {"none", "ok", "refused", "unclear"}
Made == [parent : Revision, tree : Tree]

TypeOK ==
    /\ branch \in Seq(Tree) /\ Len(branch) <= MaxCommits
    /\ ledgerFile \in Inventory
    /\ pc \in Labels
    /\ ledger \in Inventory
    /\ previous \in Inventory
    /\ batch \in Batch
    /\ staged \in Batch
    /\ base \in Revision
    /\ made \in Made \cup {Absent}
    /\ answer \in Answers

NoEntries == [x \in Mine |-> Absent]
Nothing == <<>>   \* the empty batch: a function with no path

\* The branch may be missing, or be the root that provisioning creates.
Init ==
    /\ branch \in {<<>>, << [x \in Path |-> Absent] >>}
    /\ ledgerFile = NoEntries
    /\ pc = "idle"
    /\ ledger = NoEntries
    /\ previous = NoEntries
    /\ batch = Nothing
    /\ staged = Nothing
    /\ base = 0
    /\ made = Absent
    /\ answer = "none"

-----------------------------------------------------------------------------
(* The branch.                                                             *)

\* Someone else commits, to files that are not of this project.
OthersCommit ==
    /\ Tip \in 1 .. MaxCommits - 1
    /\ \E x \in Foreign, c \in Content \cup {Absent} :
          branch' = Append(branch, [branch[Tip] EXCEPT ![x] = c])
    /\ UNCHANGED <<ledgerFile, pc, memory, provider, answer>>

\* Someone provisions the repository: its branch is created.
OthersBootstrap ==
    /\ branch = <<>>
    /\ branch' = << [x \in Path |-> Absent] >>
    /\ UNCHANGED <<ledgerFile, pc, memory, provider, answer>>

-----------------------------------------------------------------------------
(* A run.                                                                  *)

Certain(entry) == entry # Absent => entry.status = "Confirmed"
ContentOf(entry) == IF entry = Absent THEN Absent ELSE entry.content

\* The operations of a plan that wants `want` of the files of this project.
Changes(want) ==
    [x \in {y \in Mine : want[y] # ContentOf(ledgerFile[y])} |-> want[x]]

\* The run is over, or the process dies: its memory is gone.
EndRun ==
    /\ pc' = "idle"
    /\ ledger' = NoEntries
    /\ previous' = NoEntries
    /\ batch' = Nothing
    /\ staged' = Nothing
    /\ base' = 0
    /\ made' = Absent
    /\ answer' = "none"

Stop ==
    /\ pc # "idle"
    /\ EndRun
    /\ UNCHANGED <<branch, ledgerFile>>

\* execute, and the guards of run_batch: an inventory with an entry that is
\* Pending or Unknown is refused by the coordinator, and an empty batch makes
\* no request.
StartBatch ==
    /\ pc = "idle"
    /\ \A x \in Mine : Certain(ledgerFile[x])
    /\ \E want \in [Mine -> Content \cup {Absent}] :
          /\ DOMAIN Changes(want) # {}
          /\ batch' = Changes(want)
    /\ ledger' = ledgerFile
    /\ previous' = ledgerFile
    /\ pc' = "ensure"
    /\ UNCHANGED <<branch, ledgerFile, provider, answer>>

\* ensure_repository: a repository without the branch is not available.
EnsureRepository ==
    /\ pc = "ensure"
    /\ \/ /\ branch # <<>>
          /\ pc' = "probe"
          /\ UNCHANGED <<memory, provider, answer>>
       \/ EndRun
    /\ UNCHANGED <<branch, ledgerFile>>

\* A commit() of nothing reads the revision that Pending will name.
ProbeBase ==
    /\ pc = "probe"
    /\ \/ /\ branch # <<>>
          /\ base' = Tip
          /\ pc' = "announce"
          /\ UNCHANGED <<memory, staged, made, answer>>
       \/ EndRun
    /\ UNCHANGED <<branch, ledgerFile>>

\* Mutant of Doubtful: a deletion is recorded without what it deletes.
DoubtfulAsWanted(status, revision) ==
    [x \in Mine |->
        IF x \in DOMAIN batch
        THEN [content |-> batch[x], revision |-> revision, status |-> status]
        ELSE ledger[x]]

\* record_batch_pending_state: a write has its new content, a deletion the
\* content that is there.
Doubtful(status, revision) ==
    [x \in Mine |->
        IF x \in DOMAIN batch
        THEN [content |-> IF batch[x] = Absent
                          THEN previous[x].content ELSE batch[x],
              revision |-> revision,
              status |-> status]
        ELSE ledger[x]]

\* Mutant of Announce: Pending is recorded and not persisted.
AnnounceInMemory ==
    /\ pc = "announce"
    /\ ledger' = Doubtful("Pending", base)
    /\ pc' = "stage"
    /\ UNCHANGED <<branch, ledgerFile, previous, batch, provider, answer>>

\* Pending is durable for the whole batch before the first blob is created.
Announce ==
    /\ pc = "announce"
    /\ ledger' = Doubtful("Pending", base)
    /\ ledgerFile' = ledger'
    /\ pc' = "stage"
    /\ UNCHANGED <<branch, previous, batch, provider, answer>>

Answered(kind) ==
    /\ answer' = kind
    /\ pc' = "settle"
    /\ UNCHANGED <<branch, ledgerFile, memory, provider>>

-----------------------------------------------------------------------------
(* The GitHub provider.  A request of its own may be repeated once, when   *)
(* the service asks to wait and nothing but an unreferenced object can     *)
(* come of it; a repetition changes nothing that is represented here.      *)

\* write() creates a blob, delete() only notes the path; a blob that cannot
\* be created, or is not the desired one, ends the batch.
Stage(x) ==
    /\ pc = "stage"
    /\ x \in DOMAIN batch \ DOMAIN staged
    /\ \/ /\ staged' = [y \in DOMAIN staged \cup {x} |-> batch[y]]
          /\ UNCHANGED <<branch, ledgerFile, pc, memory, base, made, answer>>
       \/ batch[x] # Absent /\ Answered("refused")

\* commit() reads the branch again.  No answer to this question is, for the
\* executor, no answer to the commit.
ReadBase ==
    /\ pc = "stage"
    /\ DOMAIN staged = DOMAIN batch
    /\ \/ /\ branch # <<>>
          /\ base' = Tip
          /\ pc' = "commit"
          /\ UNCHANGED <<branch, ledgerFile, memory, staged, made, answer>>
       \/ Answered("refused")
       \/ Answered("unclear")

\* Mutant of Overlay: the tree has no base_tree.
OverlayNothing(tree, changes) ==
    [x \in Path |-> IF x \in DOMAIN changes THEN changes[x] ELSE Absent]

\* The tree of a commit: base_tree with the staged entries over it.
Overlay(tree, changes) ==
    [x \in Path |-> IF x \in DOMAIN changes THEN changes[x] ELSE tree[x]]

\* The tree and the commit are created; no reference names them yet.
CreateCommit ==
    /\ pc = "commit"
    /\ \/ /\ made' = [parent |-> base, tree |-> Overlay(branch[base], staged)]
          /\ pc' = "patch"
          /\ UNCHANGED <<branch, ledgerFile, memory, staged, base, answer>>
       \/ Answered("refused")
       \/ Answered("unclear")

\* Mutant of MoveBranch: the update of the reference is forced.
MoveBranchForced ==
    /\ made.parent < MaxCommits
    /\ branch' = Append(SubSeq(branch, 1, made.parent), made.tree)

\* The service moves the branch to a commit that descends from its tip.
MoveBranch ==
    /\ made.parent = Tip
    /\ Tip < MaxCommits
    /\ branch' = Append(branch, made.tree)

\* The reference is updated without force, in one request that is never
\* repeated.  A refusal, also that of a branch which has moved, proves that
\* nothing happened; a lost or unreadable answer does not.
PatchRef ==
    /\ pc = "patch"
    /\ \/ /\ MoveBranch
          /\ \E kind \in {"ok", "unclear"} : answer' = kind
          /\ pc' = "settle"
          /\ UNCHANGED <<ledgerFile, memory, provider>>
       \/ Answered("refused")
       \/ Answered("unclear")

\* Mutant of Committed: the entries keep the revision of the Pending ones.
CommittedAtBase ==
    [x \in Mine |->
        IF x \notin DOMAIN batch THEN ledger[x]
        ELSE IF batch[x] = Absent THEN Absent
        ELSE [ledger[x] EXCEPT !.status = "Confirmed"]]

\* The writes are confirmed at the new revision, the deletions forgotten.
Committed ==
    [x \in Mine |->
        IF x \notin DOMAIN batch THEN ledger[x]
        ELSE IF batch[x] = Absent THEN Absent
        ELSE [content |-> batch[x], revision |-> made.parent + 1,
              status |-> "Confirmed"]]

\* Mutant of Settled: every answer but success is taken for a refusal.
SettledAsRefused == IF answer = "ok" THEN Committed ELSE previous

\* The inventory after commit(): the batch at its new revision, the entries
\* from before, or the batch in doubt.
Settled ==
    CASE answer = "ok" -> Committed
      [] answer = "refused" -> previous
      [] OTHER ->
            [x \in Mine |->
                IF x \in DOMAIN batch
                THEN [ledger[x] EXCEPT !.status = "Unknown"]
                ELSE ledger[x]]

Settle ==
    /\ pc = "settle"
    /\ ledgerFile' = Settled
    /\ EndRun
    /\ UNCHANGED branch

-----------------------------------------------------------------------------

Step ==
    \/ StartBatch \/ EnsureRepository \/ ProbeBase \/ Announce
    \/ \E x \in Mine : Stage(x)
    \/ ReadBase \/ CreateCommit \/ PatchRef \/ Settle

Next == Step \/ Stop \/ OthersCommit \/ OthersBootstrap

Spec == Init /\ [][Next]_vars

-----------------------------------------------------------------------------
(* Properties.                                                             *)

\* What others have committed stays: the branch only ever gets longer, also
\* when someone commits between the read of the base and the update of the
\* reference (commit, `"force": false`).
HistoryKept ==
    [][Len(branch') >= Len(branch) /\ SubSeq(branch', 1, Len(branch)) = branch]_branch

\* The commit of a run is its whole batch and nothing else: every path is as
\* the plan wants it or as the commit before it has it, including what others
\* have committed since the run began (one tree over base_tree).
CommitIsTheBatch ==
    [][(pc = "patch" /\ branch' # branch /\ pc' # pc) =>
          \A x \in Path :
              branch'[Tip'][x] = IF x \in DOMAIN batch THEN batch[x]
                                 ELSE branch[Tip][x]]_vars

\* The branch grows, and a run makes it grow by its batch alone.
GrowsByTheBatch == HistoryKept /\ CommitIsTheBatch

\* A Confirmed entry names a commit of the branch that has the content, no
\* matter what was committed since (record of a batch, repository.rs).
ConfirmedIsInHistory ==
    \A x \in Mine :
        (ledgerFile[x] # Absent /\ ledgerFile[x].status = "Confirmed") =>
            /\ ledgerFile[x].revision \in 1 .. Tip
            /\ branch[ledgerFile[x].revision][x] = ledgerFile[x].content

\* Request by request, the exchange still is "announce, act, learn" between
\* the ledger file and the files of this project on the branch.
Announced == INSTANCE AnnouncedEffects WITH
    Artifact <- Mine,
    Value <- Content \cup {Absent},
    Nothing <- Absent,
    Uncertain <- Uncertain,
    real <- [x \in Mine |-> IF branch = <<>> THEN Absent ELSE branch[Tip][x]],
    known <- [x \in Mine |->
                 IF Certain(ledgerFile[x]) THEN ContentOf(ledgerFile[x])
                 ELSE Uncertain]
ImplementsAnnounced == Announced!ESpec

\* A batch is only left Unknown when the update of the reference was sent
\* (repository.rs: "`Unknown` is reserved for genuinely indeterminate ref
\* updates").
UnknownIsIndeterminate == answer = "unclear" => made # Absent

=============================================================================
