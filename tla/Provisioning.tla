---------------------------- MODULE Provisioning ----------------------------
(***************************************************************************)
(* The provisioning of an integrated project: the fixed sequence of        *)
(* publisher-app/src/provisioning.rs over the provisioners of GitHub, R2   *)
(* and Vercel, each of which looks whether its resource exists and creates *)
(* it if it does not.  Two runs may be at work at once: the gate of the    *)
(* desktop only knows its own process.                                     *)
(***************************************************************************)
EXTENDS Naturals

CONSTANTS
    Run,         \* the runs of `provision`, each of which may be repeated
    MaxFailures  \* bound: answers that are lost or report a failure

ASSUME FailuresAssumption == MaxFailures \in Nat

VARIABLES
    \* the services
    repository,  \* the repository of the project exists
    branch,      \* its branch: none, the empty root, or with files on it
    bucket,      \* none, ours, or that of another account
    project,     \* the hosting project exists
    \* the project document
    owner,       \* whose repository it declares
    domain,      \* it declares a domain
    \* the runs
    pc,          \* what a run does next
    outcome,     \* what the repository will be reported as, if all goes well
    report,      \* the slots of its ProvisionProjectReport
    result,      \* how its last repetition ended
    complete,    \* everything existed when it began, and does still
    failures     \* failures so far

services == <<repository, branch, bucket, project>>
document == <<owner, domain>>
runs == <<pc, outcome, report, result, complete>>
vars == <<services, document, runs, failures>>

Resource == {"repository", "storage", "hosting"}
Status == {"created", "configured", "unchanged"}

Labels ==
    {"idle", "repository", "branch", "owner", "create", "root", "ref",
     "verify", "head", "bucket", "project", "create project", "domain"}

\* Where a run knows as what it will report the repository.
Bootstrapping == {"root", "ref", "verify"}

TypeOK ==
    /\ repository \in BOOLEAN
    /\ branch \in {"none", "root", "content"}
    /\ bucket \in {"none", "ours", "theirs"}
    /\ project \in BOOLEAN
    /\ owner \in {"account", "organization", "stranger"}
    /\ domain \in BOOLEAN
    /\ pc \in [Run -> Labels]
    /\ outcome \in [Run -> Status \cup {"none"}]
    /\ report \in [Run -> [Resource -> Status \cup {"none"}]]
    /\ result \in [Run -> {"none", "ok", "failed"}]
    /\ complete \in [Run -> BOOLEAN]
    /\ failures \in 0 .. MaxFailures
    /\ \A r \in Run : outcome[r] # "none" <=> pc[r] \in Bootstrapping

Empty == [x \in Resource |-> "none"]

Init ==
    /\ repository \in BOOLEAN
    /\ branch \in IF repository THEN {"none", "root", "content"} ELSE {"none"}
    /\ bucket \in {"none", "ours", "theirs"}
    /\ project \in BOOLEAN
    /\ owner \in {"account", "organization", "stranger"}
    /\ domain \in BOOLEAN
    /\ pc = [r \in Run |-> "idle"]
    /\ outcome = [r \in Run |-> "none"]
    /\ report = [r \in Run |-> Empty]
    /\ result = [r \in Run |-> "none"]
    /\ complete = [r \in Run |-> FALSE]
    /\ failures = 0

Exists(x) ==
    CASE x = "repository" -> repository /\ branch # "none"
      [] x = "storage" -> bucket = "ours"
      [] x = "hosting" -> project

AllExist == \A x \in Resource : Exists(x)

-----------------------------------------------------------------------------
(* The sequence.                                                           *)

Goto(r, label) == pc' = [pc EXCEPT ![r] = label]

\* The answer to a request leads to the next one.
Proceed(r, label) ==
    /\ Goto(r, label)
    /\ UNCHANGED <<outcome, report, result, complete, failures>>

\* The run stops at its first failure; what was completed stays in its report
\* and in the services.
Fail(r) ==
    /\ Goto(r, "idle")
    /\ outcome' = [outcome EXCEPT ![r] = "none"]
    /\ result' = [result EXCEPT ![r] = "failed"]
    /\ UNCHANGED <<report, complete>>

\* The service says no, and would say no again.
Denied(r) == Fail(r) /\ UNCHANGED failures

\* A lost answer, an answer that is not understood, a refused credential.
Disturbed(r) ==
    /\ failures < MaxFailures
    /\ failures' = failures + 1
    /\ Fail(r)

\* record, and the next provisioner.
Record(r, x, status, label) ==
    /\ report' = [report EXCEPT ![r][x] = status]
    /\ outcome' = [outcome EXCEPT ![r] = "none"]
    /\ Goto(r, label)
    /\ UNCHANGED <<result, complete, failures>>

\* provision_project, for a document that loads, is of version 2 and is
\* coherent: any other is refused before the first request.
Start(r) ==
    /\ pc[r] = "idle"
    /\ Goto(r, "repository")
    /\ report' = [report EXCEPT ![r] = Empty]
    /\ result' = [result EXCEPT ![r] = "none"]
    /\ complete' = [complete EXCEPT ![r] = AllExist]
    /\ UNCHANGED <<services, document, outcome, failures>>

\* The user runs it again until it succeeds.
Repeat(r) == result[r] # "ok" /\ Start(r)

\* A declared domain ends the run with "unsupported".
Finish(r) ==
    /\ pc[r] = "domain"
    /\ IF domain
       THEN Denied(r)
       ELSE /\ Goto(r, "idle")
            /\ result' = [result EXCEPT ![r] = "ok"]
            /\ UNCHANGED <<outcome, report, complete, failures>>
    /\ UNCHANGED <<services, document>>

-----------------------------------------------------------------------------
(* GitHub: the repository and its branch.                                  *)

\* GET of the repository.
CheckRepository(r) ==
    /\ pc[r] = "repository"
    /\ \/ Proceed(r, IF repository THEN "branch" ELSE "owner")
       \/ Disturbed(r)
    /\ UNCHANGED <<services, document>>

\* Mutant of CheckBranch: a repository without its branch is an error.
CheckBranchOrFail(r) ==
    /\ pc[r] = "branch"
    /\ \/ /\ branch # "none"
          /\ Record(r, "repository", "unchanged", "head")
       \/ branch = "none" /\ Denied(r)
       \/ Disturbed(r)
    /\ UNCHANGED <<services, document>>

\* Mutant of CheckBranch: the branch is bootstrapped without a look.
BootstrapAnyway(r) ==
    /\ pc[r] = "branch"
    /\ outcome' = [outcome EXCEPT ![r] = "configured"]
    /\ Goto(r, "root")
    /\ UNCHANGED <<services, document, report, result, complete, failures>>

\* branch_exists: a repository that has its branch is unchanged, one that has
\* not is configured.
CheckBranch(r) ==
    /\ pc[r] = "branch"
    /\ \/ /\ branch # "none"
          /\ Record(r, "repository", "unchanged", "head")
       \/ /\ branch = "none"
          /\ outcome' = [outcome EXCEPT ![r] = "configured"]
          /\ Goto(r, "root")
          /\ UNCHANGED <<report, result, complete, failures>>
       \/ Disturbed(r)
    /\ UNCHANGED <<services, document>>

\* GET of the user and, if it is not the owner, of the organization.
IdentifyOwner(r) ==
    /\ pc[r] = "owner"
    /\ \/ owner # "stranger" /\ Proceed(r, "create")
       \/ owner = "stranger" /\ Denied(r)
       \/ Disturbed(r)
    /\ UNCHANGED <<services, document>>

\* Mutant of CreateRepository: the run forgets that it was its creation.
CreateAndForget(r) ==
    /\ pc[r] = "create"
    /\ \/ ~repository /\ repository' = TRUE /\ Proceed(r, "root")
       \/ repository /\ Denied(r) /\ UNCHANGED repository
    /\ UNCHANGED <<branch, bucket, project, document>>

\* POST of the repository, sent once.  A repository that exists by now is a
\* conflict.
CreateRepository(r) ==
    /\ pc[r] = "create"
    /\ \/ /\ ~repository
          /\ repository' = TRUE
          /\ outcome' = [outcome EXCEPT ![r] = "created"]
          /\ Goto(r, "root")
          /\ UNCHANGED <<report, result, complete, failures>>
       \/ repository /\ Denied(r) /\ UNCHANGED repository
       \/ Disturbed(r) /\ repository' \in {repository, TRUE}
    /\ UNCHANGED <<branch, bucket, project, document>>

\* The empty tree and the commit without parents; no reference names them.
CreateRoot(r) ==
    /\ pc[r] = "root"
    /\ \/ Proceed(r, "ref")
       \/ Disturbed(r)
    /\ UNCHANGED <<services, document>>

\* Mutant of CreateBranch: the reference is put where it should be.
CreateBranchForced(r) ==
    /\ pc[r] = "ref"
    /\ \/ /\ branch' = "root"
          /\ Record(r, "repository", outcome[r], "head")
       \/ Disturbed(r) /\ branch' = branch
    /\ UNCHANGED <<repository, bucket, project, document>>

\* POST of the reference.  One that exists is never moved: whether it does is
\* then looked up.
CreateBranch(r) ==
    /\ pc[r] = "ref"
    /\ \/ /\ branch = "none"
          /\ branch' = "root"
          /\ Record(r, "repository", outcome[r], "head")
       \/ branch # "none" /\ Proceed(r, "verify") /\ UNCHANGED branch
       \/ Disturbed(r) /\ branch' \in {branch, IF branch = "none"
                                               THEN "root" ELSE branch}
    /\ UNCHANGED <<repository, bucket, project, document>>

\* Mutant of VerifyBranch: the refusal is taken for a proof.
VerifyNothing(r) ==
    /\ pc[r] = "verify"
    /\ Record(r, "repository", outcome[r], "head")
    /\ UNCHANGED <<services, document>>

\* The one read after a creation that was refused.
VerifyBranch(r) ==
    /\ pc[r] = "verify"
    /\ \/ branch # "none" /\ Record(r, "repository", outcome[r], "head")
       \/ branch = "none" /\ Denied(r)
       \/ Disturbed(r)
    /\ UNCHANGED <<services, document>>

-----------------------------------------------------------------------------
(* R2: the bucket.                                                         *)

\* head_bucket.  The bucket of another account is forbidden.
HeadBucket(r) ==
    /\ pc[r] = "head"
    /\ \/ bucket = "ours" /\ Record(r, "storage", "unchanged", "project")
       \/ bucket = "none" /\ Proceed(r, "bucket")
       \/ bucket = "theirs" /\ Denied(r)
       \/ Disturbed(r)
    /\ UNCHANGED <<services, document>>

\* Mutant of CreateBucket: a bucket of ours counts as created.
CreateBucketAnyway(r) ==
    /\ pc[r] = "bucket"
    /\ \/ /\ bucket # "theirs"
          /\ bucket' = "ours"
          /\ Record(r, "storage", "created", "project")
       \/ bucket = "theirs" /\ Denied(r) /\ UNCHANGED bucket
       \/ Disturbed(r) /\ UNCHANGED bucket
    /\ UNCHANGED <<repository, branch, project, document>>

\* create_bucket, sent once.  BucketAlreadyOwnedByYou is no error,
\* BucketAlreadyExists is a conflict.
CreateBucket(r) ==
    /\ pc[r] = "bucket"
    /\ \/ /\ bucket = "none"
          /\ bucket' = "ours"
          /\ Record(r, "storage", "created", "project")
       \/ /\ bucket = "ours"
          /\ Record(r, "storage", "unchanged", "project")
          /\ UNCHANGED bucket
       \/ bucket = "theirs" /\ Denied(r) /\ UNCHANGED bucket
       \/ /\ Disturbed(r)
          /\ bucket' \in {bucket, IF bucket = "none" THEN "ours" ELSE bucket}
    /\ UNCHANGED <<repository, branch, project, document>>

-----------------------------------------------------------------------------
(* Vercel: the hosting project.                                            *)

\* Mutant of CheckProject: whatever the answer is, the project is there.
AssumeProject(r) ==
    /\ pc[r] = "project"
    /\ Record(r, "hosting", "unchanged", "domain")
    /\ UNCHANGED <<services, document>>

\* GET of the project.
CheckProject(r) ==
    /\ pc[r] = "project"
    /\ \/ project /\ Record(r, "hosting", "unchanged", "domain")
       \/ ~project /\ Proceed(r, "create project")
       \/ Disturbed(r)
    /\ UNCHANGED <<services, document>>

\* POST of the project, sent once.  One that exists by now is a conflict.
CreateProject(r) ==
    /\ pc[r] = "create project"
    /\ \/ /\ ~project
          /\ project' = TRUE
          /\ Record(r, "hosting", "created", "domain")
       \/ project /\ Denied(r) /\ UNCHANGED project
       \/ Disturbed(r) /\ project' \in {project, TRUE}
    /\ UNCHANGED <<repository, branch, bucket, document>>

-----------------------------------------------------------------------------
(* Other people.                                                           *)

\* Something is published to the branch.
Publish ==
    /\ branch = "root"
    /\ branch' = "content"
    /\ UNCHANGED <<repository, bucket, project, document, runs, failures>>

\* Someone deletes the branch, or takes the name of the bucket.
Interfere ==
    /\ failures < MaxFailures
    /\ failures' = failures + 1
    /\ \/ branch # "none" /\ branch' = "none" /\ UNCHANGED bucket
       \/ bucket = "none" /\ bucket' = "theirs" /\ UNCHANGED branch
    /\ complete' = [r \in Run |-> FALSE]
    /\ UNCHANGED <<repository, project, document, pc, outcome, report, result>>

Step(r) ==
    \/ CheckRepository(r) \/ CheckBranch(r) \/ IdentifyOwner(r)
    \/ CreateRepository(r) \/ CreateRoot(r) \/ CreateBranch(r)
    \/ VerifyBranch(r) \/ HeadBucket(r) \/ CreateBucket(r)
    \/ CheckProject(r) \/ CreateProject(r) \/ Finish(r)

Next == Publish \/ Interfere \/ \E r \in Run : Start(r) \/ Step(r)

Spec == Init /\ [][Next]_vars

\* A run goes on, and the user repeats one that failed.  The services owe
\* nothing, but they lose or refuse no more than MaxFailures answers.
FairSpec ==
    Spec /\ \A r \in Run : WF_vars(Step(r)) /\ WF_vars(Repeat(r))

-----------------------------------------------------------------------------
(* Properties.                                                             *)

\* No step of a run moves or replaces a branch that exists, also when another
\* run has created it and something is published on it by now
\* (bootstrap_branch: "no force, no blind retry").
BranchKept ==
    [][(branch # "none" /\ pc' # pc) => branch' = branch]_vars

\* Whatever a run records for a resource, at that moment the resource is
\* there, whoever has created it, taken it or deleted it meanwhile.
ReportsWhatIsThere ==
    [][\A r \in Run, x \in Resource :
          (report'[r][x] # report[r][x] /\ report'[r][x] # "none")
              => Exists(x)']_vars

\* No two reports claim to have created the same resource: a refused creation
\* is never taken for one of one's own, a lost one never for a second one.
CreatedOnce ==
    \A r, s \in Run, x \in Resource :
        (report[r][x] = "created" /\ report[s][x] = "created") => r = s

\* A run that began when everything existed changes nothing and says so
\* (provisioning.rs: "a second run converges to `Unchanged`").
SecondRunIsUnchanged ==
    \A r \in Run : complete[r] =>
        \A x \in Resource : report[r][x] \in {"none", "unchanged"}

\* Neither beside another run nor after one does a run create what is there.
NothingIsCreatedTwice == CreatedOnce /\ SecondRunIsUnchanged

\* Wherever earlier runs have stopped, and whatever they have left half done,
\* repeating the command provisions the project (provisioning.rs: "the run is
\* safe to repeat").
RepeatingSucceeds ==
    \A r \in Run :
        (owner # "stranger" /\ ~domain)
            ~> (result[r] = "ok" \/ bucket = "theirs")

=============================================================================
