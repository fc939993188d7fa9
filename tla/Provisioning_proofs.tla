------------------------- MODULE Provisioning_proofs -------------------------
(***************************************************************************)
(* Theorems about Provisioning for any number of runs and of failures:     *)
(* runs of several processes beside each other, lost answers, and other    *)
(* people at work on the same repository and bucket.                       *)
(***************************************************************************)
EXTENDS Provisioning, TLAPS

\* Where a run is that has only looked.
Looking == {"idle", "repository", "branch", "head", "project", "domain"}

\* What is there for good once it is: nobody takes away a repository, a
\* bucket of ours or a project.  (A branch can be deleted.)
Remains(x) ==
    /\ x = "repository" => repository
    /\ x = "storage" => bucket = "ours"
    /\ x = "hosting" => project

\* The run has created the resource, also when it has not reported it yet.
Made(r, x) ==
    \/ report[r][x] = "created"
    \/ x = "repository" /\ outcome[r] = "created"

\* A branch belongs to a repository, and so does work on one.
BranchInRepository ==
    /\ branch # "none" => repository
    /\ \A r \in Run : pc[r] \in {"branch"} \cup Bootstrapping => repository

MadeOnce ==
    \A r \in Run, x \in Resource : Made(r, x) =>
        /\ Remains(x)
        /\ \A s \in Run : Made(s, x) => s = r

\* What existed when the run began exists still, so it never left the way
\* that only looks.
StillComplete ==
    \A r \in Run : complete[r] =>
        /\ AllExist
        /\ pc[r] \in Looking
        /\ \A x \in Resource : report[r][x] \in {"none", "unchanged"}

IInv == TypeOK /\ BranchInRepository /\ MadeOnce /\ StillComplete

-----------------------------------------------------------------------------

LEMMA ExistsMeans ==
  /\ Exists("repository") <=> (repository /\ branch # "none")
  /\ Exists("storage") <=> bucket = "ours"
  /\ Exists("hosting") <=> project
  /\ AllExist <=> /\ repository /\ branch # "none"
                  /\ bucket = "ours" /\ project
<1>1. /\ Exists("repository") <=> (repository /\ branch # "none")
      /\ Exists("storage") <=> bucket = "ours"
      /\ Exists("hosting") <=> project
  BY DEF Exists
<1>2. AllExist <=> Exists("repository") /\ Exists("storage")
                   /\ Exists("hosting")
  BY DEF AllExist, Resource
<1>3. QED
  BY <1>1, <1>2

LEMMA InitInv == Init => IInv
<1> SUFFICES ASSUME Init PROVE IInv
  OBVIOUS
<1>1. TypeOK
  BY FailuresAssumption
  DEF Init, TypeOK, Empty, Labels, Bootstrapping, Status
<1>2. BranchInRepository /\ MadeOnce /\ StillComplete
  BY DEF Init, BranchInRepository, MadeOnce, Made, StillComplete, Empty,
         Resource, Bootstrapping
<1>3. QED
  BY <1>1, <1>2 DEF IInv

-----------------------------------------------------------------------------
(* The ways in which a step ends.                                          *)

\* The steps of runs take nothing away.
Grown ==
    /\ repository' \in BOOLEAN /\ project' \in BOOLEAN
    /\ branch' \in {"none", "root", "content"}
    /\ bucket' \in {"none", "ours", "theirs"}
    /\ repository => repository'
    /\ branch # "none" => branch' # "none"
    /\ branch' # "none" => repository'
    /\ bucket = "ours" => bucket' = "ours"
    /\ project => project'
    /\ UNCHANGED document

LEMMA UnchangedGrows ==
  ASSUME IInv, UNCHANGED <<services, document>>
  PROVE  Grown
BY DEF IInv, TypeOK, BranchInRepository, Grown, services

\* Where the services have grown, what other runs made and what existed
\* remains.
LEMMA GrownFacts ==
  ASSUME IInv, Grown
  PROVE  /\ \A x \in Resource : Remains(x) => Remains(x)'
         /\ AllExist => AllExist'
<1>1. \A x \in Resource : Exists(x) => Exists(x)'
  BY DEF Grown, Exists, Resource
<1>2. QED
  BY <1>1 DEF Grown, Remains, AllExist

LEMMA FailKeeps ==
  ASSUME IInv, Grown, NEW r \in Run, Fail(r), failures' \in 0 .. MaxFailures
  PROVE  IInv'
<1>1. TypeOK'
  BY DEF IInv, TypeOK, Fail, Goto, Grown, document, Labels, Bootstrapping
<1>2. BranchInRepository'
  BY DEF IInv, TypeOK, BranchInRepository, Grown, Fail, Goto, Bootstrapping
<1>3. \A s \in Run, x \in Resource : Made(s, x)' => Made(s, x)
  BY DEF IInv, TypeOK, Made, Fail
<1>4. MadeOnce'
  BY <1>3, GrownFacts DEF IInv, MadeOnce
<1>5. StillComplete'
  BY GrownFacts DEF IInv, TypeOK, StillComplete, Fail, Goto, Looking
<1>6. QED
  BY <1>1, <1>2, <1>4, <1>5 DEF IInv

LEMMA ProceedKeeps ==
  ASSUME IInv, Grown, NEW r \in Run, NEW label \in Labels, Proceed(r, label),
         label \in Bootstrapping <=> pc[r] \in Bootstrapping,
         label \in {"branch"} \cup Bootstrapping => repository',
         complete[r] => label \in Looking
  PROVE  IInv'
<1>1. TypeOK'
  BY DEF IInv, TypeOK, Proceed, Goto, Grown, document
<1>2. BranchInRepository'
  BY DEF IInv, TypeOK, BranchInRepository, Grown, Proceed, Goto
<1>3. \A s \in Run, x \in Resource : Made(s, x)' => Made(s, x)
  BY DEF Made, Proceed
<1>4. MadeOnce'
  BY <1>3, GrownFacts DEF IInv, MadeOnce
<1>5. StillComplete'
  BY GrownFacts DEF IInv, TypeOK, StillComplete, Proceed, Goto
<1>6. QED
  BY <1>1, <1>2, <1>4, <1>5 DEF IInv

\* A run that records a creation is the only one that made the resource.
LEMMA RecordKeeps ==
  ASSUME IInv, Grown, NEW r \in Run, NEW x \in Resource,
         NEW status \in Status, NEW label \in {"head", "project", "domain"},
         Record(r, x, status, label),
         complete[r] => status = "unchanged",
         status = "created" =>
            Remains(x)' /\ \A s \in Run : Made(s, x) => s = r
  PROVE  IInv'
<1>1. /\ \A s \in Run \ {r} : /\ report'[s] = report[s]
                              /\ outcome'[s] = outcome[s]
                              /\ pc'[s] = pc[s]
      /\ pc'[r] = label /\ outcome'[r] = "none" /\ report'[r][x] = status
      /\ \A y \in Resource \ {x} : report'[r][y] = report[r][y]
      /\ complete' = complete
  BY DEF IInv, TypeOK, Record, Goto
<1>2. TypeOK'
  BY DEF IInv, TypeOK, Record, Goto, Grown, document, Labels, Bootstrapping
<1>3. BranchInRepository'
  BY <1>1 DEF IInv, TypeOK, BranchInRepository, Grown, Bootstrapping
<1>4. \A s \in Run, y \in Resource : Made(s, y)' =>
         Made(s, y) \/ (s = r /\ y = x /\ status = "created")
  BY <1>1 DEF Made
<1>5. MadeOnce'
  BY <1>4, GrownFacts DEF IInv, MadeOnce
<1>6. StillComplete'
  BY <1>1, GrownFacts DEF IInv, StillComplete, Looking
<1>7. QED
  BY <1>2, <1>3, <1>5, <1>6 DEF IInv

\* The bootstrap of a branch begins, in a repository that was there or in
\* one that the run has just created.
LEMMA BeginKeeps ==
  ASSUME IInv, Grown, repository', NEW r \in Run, ~complete[r],
         NEW status \in Status, outcome' = [outcome EXCEPT ![r] = status],
         Goto(r, "root"), UNCHANGED <<report, result, complete, failures>>,
         status = "created" => \A s \in Run : ~Made(s, "repository")
  PROVE  IInv'
<1>1. /\ \A s \in Run \ {r} : outcome'[s] = outcome[s] /\ pc'[s] = pc[s]
      /\ outcome'[r] = status /\ pc'[r] = "root"
  BY DEF IInv, TypeOK, Goto
<1>2. TypeOK'
  BY DEF IInv, TypeOK, Goto, Grown, document, Labels, Bootstrapping, Status
<1>3. BranchInRepository'
  BY <1>1 DEF IInv, TypeOK, BranchInRepository, Grown
<1>4. \A s \in Run, y \in Resource : Made(s, y)' =>
         \/ Made(s, y)
         \/ s = r /\ y = "repository" /\ status = "created"
  BY <1>1 DEF Made
<1>5. Remains("repository")'
  BY DEF Remains
<1>6. MadeOnce'
  BY <1>4, <1>5, GrownFacts DEF IInv, MadeOnce
<1>7. StillComplete'
  BY <1>1, GrownFacts DEF IInv, StillComplete
<1>8. QED
  BY <1>2, <1>3, <1>6, <1>7 DEF IInv

LEMMA DisturbedKeeps ==
  ASSUME IInv, Grown, NEW r \in Run, Disturbed(r)
  PROVE  IInv'
<1>1. failures' \in 0 .. MaxFailures
  BY FailuresAssumption DEF IInv, TypeOK, Disturbed
<1>2. QED
  BY <1>1, FailKeeps DEF Disturbed

LEMMA DeniedKeeps ==
  ASSUME IInv, Grown, NEW r \in Run, Denied(r)
  PROVE  IInv'
BY FailKeeps DEF IInv, TypeOK, Denied

-----------------------------------------------------------------------------
(* The steps.                                                              *)

LEMMA StartInv ==
  ASSUME IInv, NEW r \in Run, Start(r)
  PROVE  IInv'
<1> USE DEF Start, services, document
<1>1. pc[r] = "idle" /\ outcome[r] = "none"
  BY DEF IInv, TypeOK, Bootstrapping
<1>2. TypeOK'
  BY <1>1 DEF IInv, TypeOK, Goto, Labels, Bootstrapping, Empty, Resource,
              Status, AllExist
<1>3. BranchInRepository'
  BY DEF IInv, TypeOK, BranchInRepository, Goto, Bootstrapping
<1>4. \A s \in Run, x \in Resource : Made(s, x)' => Made(s, x)
  BY DEF IInv, TypeOK, Made, Empty
<1>5. /\ \A x \in Resource : Remains(x) => Remains(x)'
      /\ AllExist' = AllExist
  BY DEF Remains, AllExist, Exists
<1>6. MadeOnce'
  BY <1>4, <1>5 DEF IInv, MadeOnce
<1>7. StillComplete'
  BY <1>5 DEF IInv, TypeOK, StillComplete, Goto, Empty, Looking
<1>8. QED
  BY <1>2, <1>3, <1>6, <1>7 DEF IInv

\* A run that is on the way to create something did not find everything.
LEMMA NotComplete ==
  ASSUME IInv, NEW r \in Run, pc[r] \notin Looking
  PROVE  ~complete[r]
BY DEF IInv, StillComplete

LEMMA LookInv ==
  ASSUME IInv, NEW r \in Run,
         \/ CheckRepository(r) \/ IdentifyOwner(r) \/ CreateRoot(r)
         \/ Finish(r)
  PROVE  IInv'
<1>1. Grown
  BY UnchangedGrows
  DEF CheckRepository, IdentifyOwner, CreateRoot, Finish
<1>2. complete[r] => /\ repository /\ branch # "none"
                     /\ bucket = "ours" /\ project
  BY ExistsMeans DEF IInv, StillComplete
<1>3. CASE CheckRepository(r)
  <2>1. CASE Proceed(r, "branch") /\ repository
    BY <1>1, <1>3, <2>1, ProceedKeeps
    DEF CheckRepository, Labels, Bootstrapping, Grown, Looking
  <2>2. CASE Proceed(r, "owner") /\ ~repository
    BY <1>1, <1>2, <1>3, <2>2, ProceedKeeps
    DEF CheckRepository, Labels, Bootstrapping
  <2>3. QED
    BY <1>1, <1>3, <2>1, <2>2, DisturbedKeeps DEF CheckRepository
<1>4. CASE IdentifyOwner(r)
  <2>1. CASE Proceed(r, "create")
    BY <1>1, <1>4, <2>1, ProceedKeeps, NotComplete
    DEF IdentifyOwner, Labels, Bootstrapping, Looking
  <2>2. QED
    BY <1>1, <1>4, <2>1, DisturbedKeeps, DeniedKeeps DEF IdentifyOwner
<1>5. CASE CreateRoot(r)
  <2>1. repository'
    BY <1>1, <1>5
    DEF IInv, BranchInRepository, CreateRoot, Bootstrapping, Grown
  <2>2. CASE Proceed(r, "ref")
    BY <1>1, <1>5, <2>1, <2>2, ProceedKeeps, NotComplete
    DEF CreateRoot, Labels, Bootstrapping, Looking
  <2>3. QED
    BY <1>1, <1>5, <2>2, DisturbedKeeps DEF CreateRoot
<1>6. CASE Finish(r)
  <2>1. CASE Denied(r)
    BY <1>1, <2>1, DeniedKeeps
  <2>2. CASE /\ Goto(r, "idle")
             /\ result' = [result EXCEPT ![r] = "ok"]
             /\ UNCHANGED <<outcome, report, complete, failures>>
    <3>1. pc[r] = "domain" /\ outcome[r] = "none"
      BY <1>6 DEF Finish, IInv, TypeOK, Bootstrapping
    <3>2. TypeOK'
      BY <1>1, <2>2, <3>1
      DEF IInv, TypeOK, Grown, document, Goto, Labels, Bootstrapping
    <3>3. BranchInRepository'
      BY <1>1, <2>2
      DEF IInv, TypeOK, BranchInRepository, Grown, Goto, Bootstrapping
    <3>4. \A s \in Run, x \in Resource : Made(s, x)' => Made(s, x)
      BY <2>2 DEF Made
    <3>5. MadeOnce'
      BY <1>1, <3>4, GrownFacts DEF IInv, MadeOnce
    <3>6. StillComplete'
      BY <1>1, <2>2, GrownFacts DEF IInv, TypeOK, StillComplete, Goto, Looking
    <3>7. QED
      BY <3>2, <3>3, <3>5, <3>6 DEF IInv
  <2>3. QED
    BY <1>6, <2>1, <2>2 DEF Finish
<1>7. QED
  BY <1>3, <1>4, <1>5, <1>6

LEMMA BranchInv ==
  ASSUME IInv, NEW r \in Run, CheckBranch(r) \/ CreateBranch(r) \/ VerifyBranch(r)
  PROVE  IInv'
<1>1. repository
  BY DEF IInv, BranchInRepository, CheckBranch, CreateBranch, VerifyBranch,
         Bootstrapping
<1>2. complete[r] => branch # "none"
  BY ExistsMeans DEF IInv, StillComplete
<1>3. CASE CheckBranch(r)
  <2>1. Grown /\ repository'
    BY <1>1, <1>3, UnchangedGrows DEF CheckBranch, services
  <2>2. CASE Record(r, "repository", "unchanged", "head")
    BY <2>1, <2>2, RecordKeeps DEF Resource, Status
  <2>3. CASE /\ branch = "none"
             /\ outcome' = [outcome EXCEPT ![r] = "configured"]
             /\ Goto(r, "root")
             /\ UNCHANGED <<report, result, complete, failures>>
    BY <1>2, <2>1, <2>3, BeginKeeps DEF Status
  <2>4. QED
    BY <1>3, <2>1, <2>2, <2>3, DisturbedKeeps DEF CheckBranch
<1>4. ASSUME pc[r] \in {"ref", "verify"}, Grown,
             Record(r, "repository", outcome[r], "head")
      PROVE  IInv'
  <2>1. ~complete[r] /\ outcome[r] \in Status
    BY <1>4, NotComplete DEF IInv, TypeOK, Looking, Bootstrapping
  <2>2. outcome[r] = "created" =>
           /\ Remains("repository")'
           /\ \A s \in Run : Made(s, "repository") => s = r
    BY <1>4, GrownFacts DEF IInv, MadeOnce, Made, Resource
  <2>3. QED
    BY <1>4, <2>1, <2>2, RecordKeeps DEF Resource
<1>5. CASE CreateBranch(r)
  <2>1. Grown /\ repository'
    BY <1>1, <1>5
    DEF IInv, TypeOK, BranchInRepository, CreateBranch, Grown, document
  <2>2. CASE Record(r, "repository", outcome[r], "head")
    BY <1>4, <1>5, <2>1, <2>2 DEF CreateBranch
  <2>3. CASE Proceed(r, "verify")
    BY <1>5, <2>1, <2>3, ProceedKeeps, NotComplete
    DEF CreateBranch, Labels, Bootstrapping, Looking
  <2>4. QED
    BY <1>5, <2>1, <2>2, <2>3, DisturbedKeeps DEF CreateBranch
<1>6. CASE VerifyBranch(r)
  <2>1. Grown
    BY <1>6, UnchangedGrows DEF VerifyBranch
  <2>2. CASE Record(r, "repository", outcome[r], "head")
    BY <1>4, <1>6, <2>1, <2>2 DEF VerifyBranch
  <2>3. QED
    BY <1>6, <2>1, <2>2, DisturbedKeeps, DeniedKeeps DEF VerifyBranch
<1>7. QED
  BY <1>3, <1>5, <1>6

LEMMA CreateRepositoryInv ==
  ASSUME IInv, NEW r \in Run, CreateRepository(r)
  PROVE  IInv'
<1>1. Grown
  BY DEF IInv, TypeOK, BranchInRepository, CreateRepository, Grown, document
<1>2. pc[r] = "create" /\ ~complete[r]
  BY NotComplete DEF CreateRepository, Looking
<1>3. CASE /\ ~repository /\ repository' = TRUE
           /\ outcome' = [outcome EXCEPT ![r] = "created"]
           /\ Goto(r, "root")
           /\ UNCHANGED <<report, result, complete, failures>>
  <2>1. \A s \in Run : ~Made(s, "repository")
    BY <1>3 DEF IInv, MadeOnce, Remains, Resource
  <2>2. QED
    BY <1>1, <1>2, <1>3, <2>1, BeginKeeps DEF Status
<1>4. QED
  BY <1>1, <1>3, DisturbedKeeps, DeniedKeeps DEF CreateRepository

LEMMA BucketInv ==
  ASSUME IInv, NEW r \in Run, HeadBucket(r) \/ CreateBucket(r)
  PROVE  IInv'
<1>1. Grown
  BY UnchangedGrows
  DEF HeadBucket, CreateBucket, IInv, TypeOK, BranchInRepository, Grown,
      document
<1>2. complete[r] => bucket = "ours"
  BY ExistsMeans DEF IInv, StillComplete
<1>3. CASE Record(r, "storage", "unchanged", "project")
  BY <1>1, <1>3, RecordKeeps DEF Resource, Status
<1>4. CASE Denied(r) \/ Disturbed(r)
  BY <1>1, <1>4, DeniedKeeps, DisturbedKeeps
<1>5. CASE pc[r] = "head" /\ bucket = "none" /\ Proceed(r, "bucket")
  BY <1>1, <1>2, <1>5, ProceedKeeps DEF Labels, Bootstrapping
<1>6. CASE /\ bucket = "none" /\ bucket' = "ours"
           /\ Record(r, "storage", "created", "project")
  <2>1. \A s \in Run : ~Made(s, "storage")
    BY <1>6 DEF IInv, MadeOnce, Remains, Resource
  <2>2. Remains("storage")'
    BY <1>6 DEF Remains
  <2>3. QED
    BY <1>1, <1>2, <1>6, <2>1, <2>2, RecordKeeps DEF Resource, Status
<1>7. QED
  BY <1>3, <1>4, <1>5, <1>6 DEF HeadBucket, CreateBucket

LEMMA ProjectInv ==
  ASSUME IInv, NEW r \in Run, CheckProject(r) \/ CreateProject(r)
  PROVE  IInv'
<1>1. Grown
  BY UnchangedGrows
  DEF CheckProject, CreateProject, IInv, TypeOK, BranchInRepository, Grown,
      document
<1>2. complete[r] => project
  BY ExistsMeans DEF IInv, StillComplete
<1>3. CASE Record(r, "hosting", "unchanged", "domain")
  BY <1>1, <1>3, RecordKeeps DEF Resource, Status
<1>4. CASE Denied(r) \/ Disturbed(r)
  BY <1>1, <1>4, DeniedKeeps, DisturbedKeeps
<1>5. CASE pc[r] = "project" /\ ~project /\ Proceed(r, "create project")
  BY <1>1, <1>2, <1>5, ProceedKeeps DEF Labels, Bootstrapping
<1>6. CASE /\ ~project /\ project' = TRUE
           /\ Record(r, "hosting", "created", "domain")
  <2>1. \A s \in Run : ~Made(s, "hosting")
    BY <1>6 DEF IInv, MadeOnce, Remains, Resource
  <2>2. Remains("hosting")'
    BY <1>6 DEF Remains
  <2>3. QED
    BY <1>1, <1>2, <1>6, <2>1, <2>2, RecordKeeps DEF Resource, Status
<1>7. QED
  BY <1>3, <1>4, <1>5, <1>6 DEF CheckProject, CreateProject

LEMMA PublishInv ==
  ASSUME IInv, Publish
  PROVE  IInv'
<1> USE DEF Publish, document, runs
<1>1. Grown
  BY DEF IInv, TypeOK, BranchInRepository, Grown
<1>2. TypeOK' /\ BranchInRepository'
  BY DEF IInv, TypeOK, BranchInRepository
<1>3. MadeOnce' /\ StillComplete'
  BY <1>1, GrownFacts DEF IInv, MadeOnce, Made, StillComplete
<1>4. QED
  BY <1>2, <1>3 DEF IInv

LEMMA InterfereInv ==
  ASSUME IInv, Interfere
  PROVE  IInv'
<1> USE DEF Interfere, document
<1>1. TypeOK'
  BY FailuresAssumption DEF IInv, TypeOK
<1>2. BranchInRepository'
  BY DEF IInv, TypeOK, BranchInRepository
<1>3. \A x \in Resource : Remains(x) => Remains(x)'
  BY DEF Remains
<1>4. MadeOnce'
  BY <1>3 DEF IInv, MadeOnce, Made
<1>5. StillComplete'
  BY DEF StillComplete
<1>6. QED
  BY <1>1, <1>2, <1>4, <1>5 DEF IInv

LEMMA NextInv == IInv /\ [Next]_vars => IInv'
<1> SUFFICES ASSUME IInv, [Next]_vars PROVE IInv'
  OBVIOUS
<1>1. CASE UNCHANGED vars
  <2> USE <1>1 DEF vars, services, document, runs
  <2>1. TypeOK' /\ BranchInRepository'
    BY DEF IInv, TypeOK, BranchInRepository
  <2>2. MadeOnce' /\ StillComplete'
    BY UnchangedGrows, GrownFacts DEF IInv, MadeOnce, Made, StillComplete
  <2>3. QED
    BY <2>1, <2>2 DEF IInv
<1>2. ASSUME NEW r \in Run, Start(r) \/ Step(r)
      PROVE  IInv'
  BY <1>2, StartInv, LookInv, BranchInv, CreateRepositoryInv, BucketInv,
     ProjectInv
  DEF Step
<1>3. QED
  BY <1>1, <1>2, PublishInv, InterfereInv DEF Next

LEMMA Invariance == Spec => []IInv
BY InitInv, NextInv, PTL DEF Spec

-----------------------------------------------------------------------------

\* Runs, reports and services keep their kinds; in particular a run holds an
\* outcome for the repository exactly while it bootstraps its branch.
THEOREM TypeCorrect == Spec => []TypeOK
<1>1. IInv => TypeOK
  BY DEF IInv
<1>2. QED
  BY <1>1, Invariance, PTL

\* Neither beside another run nor after one does a run create what is there:
\* of any number of runs at most one reports a resource as created, and one
\* that found everything there reports everything as unchanged.
THEOREM NothingTwice == Spec => []NothingIsCreatedTwice
<1>1. IInv => NothingIsCreatedTwice
  BY DEF IInv, MadeOnce, Made, StillComplete, NothingIsCreatedTwice,
         CreatedOnce, SecondRunIsUnchanged
<1>2. QED
  BY <1>1, Invariance, PTL

\* No step of a run moves or replaces a branch that exists, whoever has
\* created it and whatever has been published on it.
THEOREM BranchIsKept == Spec => BranchKept
<1>1. TypeOK /\ [Next]_vars =>
        [(branch # "none" /\ pc' # pc) => branch' = branch]_vars
  <2> SUFFICES ASSUME TypeOK, [Next]_vars, branch # "none", pc' # pc
               PROVE  branch' = branch
    OBVIOUS
  <2>1. ASSUME NEW r \in Run, Start(r) \/ Step(r)
        PROVE  branch' = branch
    BY <2>1
    DEF Step, Start, CheckRepository, CheckBranch, IdentifyOwner,
        CreateRepository, CreateRoot, CreateBranch, VerifyBranch, HeadBucket,
        CreateBucket, CheckProject, CreateProject, Finish, services, document
  <2>2. QED
    BY <2>1 DEF Next, Publish, Interfere, runs, vars
<1>2. QED
  BY <1>1, TypeCorrect, PTL DEF Spec, BranchKept

\* A record names the resource that is there when it is made.
LEMMA RecordsExisting ==
  ASSUME IInv, NEW r \in Run, Step(r), NEW s \in Run, NEW x \in Resource,
         report'[s][x] # report[s][x]
  PROVE  Exists(x)'
<1>1. /\ Exists("repository")' <=> (repository' /\ branch' # "none")
      /\ Exists("storage")' <=> bucket' = "ours"
      /\ Exists("hosting")' <=> project'
  BY DEF Exists
<1>2. ASSUME NEW y \in Resource, NEW status, NEW label,
             Record(r, y, status, label), Exists(y)'
      PROVE  Exists(x)'
  BY <1>2 DEF IInv, TypeOK, Record
<1>3. CASE UNCHANGED report
  BY <1>3
<1>4. CASE CheckBranch(r) \/ CreateBranch(r) \/ VerifyBranch(r)
  <2>1. repository'
    BY <1>4 DEF IInv, BranchInRepository, CheckBranch, CreateBranch,
                VerifyBranch, Bootstrapping, services
  <2>2. \/ UNCHANGED report
        \/ /\ branch' # "none"
           /\ \E status \in {"unchanged", outcome[r]} :
                 Record(r, "repository", status, "head")
    BY <1>4 DEF CheckBranch, CreateBranch, VerifyBranch, Proceed, Fail, Denied,
                Disturbed, services
  <2>3. QED
    BY <1>1, <1>2, <1>3, <2>1, <2>2 DEF Resource
<1>5. CASE HeadBucket(r) \/ CreateBucket(r)
  <2>1. \/ UNCHANGED report
        \/ /\ bucket' = "ours"
           /\ \E status \in Status : Record(r, "storage", status, "project")
    BY <1>5 DEF HeadBucket, CreateBucket, Proceed, Fail, Denied, Disturbed,
                services, Status
  <2>2. QED
    BY <1>1, <1>2, <1>3, <2>1 DEF Resource
<1>6. CASE CheckProject(r) \/ CreateProject(r)
  <2>1. CASE CheckProject(r)
    BY <1>1, <1>2, <1>3, <2>1
    DEF CheckProject, Proceed, Fail, Disturbed, services, Resource
  <2>2. CASE CreateProject(r)
    BY <1>1, <1>2, <1>3, <2>2
    DEF CreateProject, Fail, Denied, Disturbed, Resource
  <2>3. QED
    BY <1>6, <2>1, <2>2
<1>7. CASE \/ CheckRepository(r) \/ IdentifyOwner(r) \/ CreateRepository(r)
           \/ CreateRoot(r) \/ Finish(r)
  BY <1>3, <1>7 DEF CheckRepository, IdentifyOwner, CreateRepository,
                    CreateRoot, Finish, Proceed, Fail, Denied, Disturbed
<1>8. QED
  BY <1>4, <1>5, <1>6, <1>7 DEF Step

\* Whatever a run records, the resource is there at that moment, whoever has
\* created it and whatever was taken or deleted meanwhile.
THEOREM ReportsExisting == Spec => ReportsWhatIsThere
<1>1. IInv /\ [Next]_vars =>
        [\A r \in Run, x \in Resource :
            (report'[r][x] # report[r][x] /\ report'[r][x] # "none")
                => Exists(x)']_vars
  <2> SUFFICES ASSUME IInv, [Next]_vars, NEW r \in Run, NEW x \in Resource,
                      report'[r][x] # report[r][x], report'[r][x] # "none"
               PROVE  Exists(x)'
    OBVIOUS
  <2>1. ASSUME NEW s \in Run, Start(s)
        PROVE  report'[r] = report[r] \/ report'[r] = Empty
    BY <2>1 DEF IInv, TypeOK, Start
  <2>2. \A s \in Run : ~Start(s)
    BY <2>1 DEF Empty
  <2>3. UNCHANGED report \/ \E s \in Run : Step(s)
    BY <2>2 DEF Next, Publish, Interfere, runs, vars
  <2>4. QED
    BY <2>3, RecordsExisting
<1>2. QED
  BY <1>1, Invariance, PTL DEF Spec, ReportsWhatIsThere

=============================================================================
