# Photo Publisher in TLA+

Photo Publisher turns a directory of JPEGs into a static gallery, locally first
and then, for version 2 projects, into a storage service, a repository and a
hosting service. This directory models what can go wrong on the way:
interruptions between two durable steps, processes that run side by side, and
answers of remote services that do not say whether anything happened.

## 1. The system

| Component | State it keeps | Operations | Talks to |
| --- | --- | --- | --- |
| Publication journal (`publisher-pipeline/src/journal.rs`) | `journal.json`, `journal.json.new`, `journal/history/*` | `update_journal` | files only |
| Local publication (`publisher-pipeline/src/lib.rs`) | active pair `gallery.json` and `.publisher/state.json`, `staging/<g>`, `backups/<g>`, `run.lock` | `build_local_gallery`, `recover_publication` | journal, scanner, assets |
| Gallery assets (`image_ops.rs`, `manifest.rs`) | `photos/preview`, `photos/download`, named by digest | `process_image` | called while staging |
| Scan and plan (`publisher-core`) | none | `scan_jpegs`, `plan_sync` | pure |
| Integration ledger (`publisher-integration/src/lib.rs`) | `integration-state.json`: an entry per artifact, its hash, revision and status Pending, Confirmed or Unknown | load, record, persist | every executor |
| Planner (`planner.rs`) | none | what to put, write, delete, publish, and what needs an operator | pure, reads the ledger |
| Storage, repository, hosting executors (`executor.rs`, `repository.rs`, `hosting.rs`) | the ledger in memory and on disk | mutate one service | providers |
| Coordinator (`coordinator.rs`) | none of its own | run storage, repository, hosting in this order, stop at the first error | executors |
| Providers (`provider-github`, `-r2`, `-vercel`) | the remote state; GitHub also a list of staged changes | put, delete, commit, publish, with retries | HTTP |
| Local provider (`provider-local`) | generations, copies and manifests in a directory | put, head, delete | files only |
| Provisioning (`provisioning`, `provisioner-*`) | remote resources | create repository, branch, bucket, site in order | HTTP |
| Setup, configuration, credentials (`publisher-app`, `contract-validator`) | `project.json`, four secrets | write, load, diagnose | files, credential store |
| Use cases (`publisher-app`) | none | validate, inspect, recover, prepare, publish, dry run, preflight | all of the above |
| Desktop gates (`commands.rs`) | two single-slot flags | one publish and one provisioning thread at a time | use cases |
| Desktop page (`ui/app.js`) | path, generation, what has been validated, prepared, dry run | a handler per button, answers in any order | commands |
| Command line (`publisher-cli`) | none | one operation per invocation | use cases |

Where it is hard:

* *Interruption.* Every local step is one rename, copy or write, and a process
  may fail or be killed between any two. The order of journal entry and effect
  decides what recovery can still prove.
* *Concurrency.* `run.lock` keeps publishers apart. `recover` takes no lock; the
  remote part of a publication runs after the lock has been released; the
  gates of the desktop are per process.
* *Ambiguous answers.* A request that fails may or may not have had its effect,
  and the executors decide from the kind of the error alone.
* *Facts read more than once.* A photo is read three times, the output directory
  twice, `project.json` four times, by different code; the page shows results of
  calls whose subject may have changed.

What makes each component correct:

* journal: one entry at a time, in order, never ambiguous, never ahead of the
  files when it says that the publication is settled;
* local publication: replaced as a whole or not at all, recoverable at any
  point, one publisher at a time;
* ledger and executors: an artifact is Confirmed only if the service holds it, an
  uncertain one is never touched again without an operator;
* coordinator: the site is only published over files that are there, and a
  generation stands for one set of artifacts;
* storage in a directory: a reader finds whole objects that change at one moment;
* assets: what lies under a digest has this digest, and a build that succeeds can
  be built upon;
* provisioning: nothing is created twice or moved, and running it again after a
  failure ends where one run would have;
* configuration: what the checks approve the publication accepts, and nothing
  reaches a service without having been approved;
* gates and page: one run at a time, the slot is always given back, no late
  answer enables a button.

## 2. Modules

| Module | What it is |
| --- | --- |
| `JournalRecords` | records of the journal and of a backup, and the pure questions asked of them |
| `LocalPublication` | the state machine of `publish` and `recover` on one output directory, with its properties |
| `AtomicGallery` | what a local publication promises: one photo set, replaced as a whole |
| `MCLocalPublication` | symmetry for TLC |
| `LocalPublication_proofs` | theorems about it and, at its end, about `GalleryBuild`, checked by TLAPS |
| `PublicationLedger` | artifacts, the ledger and its entries, what a gallery wants, the plan and its order: no state |
| `RemotePublication` | the state machine of the remote part of `publish`: coordinator, executors, providers, services |
| `AnnouncedEffects` | what the ledger promises its next reader: whatever it is certain of is so |
| `MCRemotePublication` | symmetry for TLC |
| `RemotePublication_proofs` | its type invariant, and what the ledger file is worth: truth, adoption, no repetition, refinement, finished runs, the site over its files |
| `SharedBranch`, `MCSharedBranch`, `SharedBranch_proofs` | one batch of the repository executor, request by request, over a branch to which others commit |
| `ProviderCalls` | one put, delete or deployment, request by request, over R2 and Vercel |
| `OperationEvents`, `MCOperationEvents` | `ProviderCalls` with its observer: the events, and what the page and the terminal make of them |
| `ProviderCalls_proofs` | theorems about both |
| `ObjectStore` | the contract of a storage provider |
| `LocalStorage`, `LocalStorage_proofs` | the storage provider that keeps its objects in a directory |
| `GalleryBuild`, `MCGalleryBuild` | photos, digests, previews and downloads of a build, beside a photographer |
| `Provisioning`, `Provisioning_proofs` | every request of `provision`, for several runs at once |
| `ProjectDocument`, `MCProjectDocument`, `ProjectDocument_proofs` | `project.json` and everything that judges it |
| `Desktop`, `Desktop_proofs` | the page, its calls and the two gates |

How they fit together: `RemotePublication` contains the local publication as one
step, which `LocalPublication` opens, and which `GalleryBuild` opens in another
direction (there the journal is one step and the assets are many). It takes each
operation on a service for one call with one answer; `SharedBranch` (GitHub) and
`ProviderCalls` (R2, Vercel) open that call. Both implement the same
`AnnouncedEffects` as `RemotePublication` does, so the coarse step is justified by
the fine ones. `LocalStorage` implements `ObjectStore`. `ProjectDocument` and `Desktop`
are about what happens before a publication is started.

### LocalPublication and the code

A member of `Content` is a photo set. One photo set yields one `gallery.json` and
one `state.json`, so the same value stands for the bytes of both and for their
digests. `journal`, `candidate`, `history`, `active`, `staging`, `backups` and
`runLock` are files; `torn` holds the sequence numbers whose history file exists
but does not parse. `rec`, `target` and `after` are what a process keeps in
memory, and are lost when it ends. `pc` names the next durable step. `outcome`
records how the last run to end ended.

| Code | Actions |
| --- | --- |
| `ExecutionLock::acquire`, `drop` | `AcquireLock`, `RefuseBusy`, `EndRun` |
| `recover_publication`, `recover_record` | `StartRecover`, `RecoverFresh`, `RecoverRecord` (one operator per arm), `CompleteState`, `CommitRecovered`, `EndRecovery` |
| `rollback_record`, `restore_backup` | `RestoreGallery`, `RestoreState` |
| `update_journal` | `Archive`, `WriteCandidate`, `ReplaceJournal` |
| scan, plan, staging | `Scan`, `StageGallery`, `StageState`, `StageRecord` |
| `create_and_verify_backup` | `UseBackup`, `CreateBackup`, `BackupGallery`, `BackupState`, `BackupRecord` |
| `publish_staged`, `cleanup_staging` | `InstallGallery`, `InstallState`, `Commit`, `Cleanup` |
| every `bail!` | `Refuse`, under `Blocked` |
| I/O errors and kills | `Interrupt`, and `TearArchive`, `TearCandidate` for the two writes that are not atomic |

An error lets the guard remove `run.lock`; a kill does not (`EndRun`).
`FaultPoints` limits where a run may be interrupted, so that a run can look at
one interruption at a time; `RecoverAlone` limits `recover` to times at which
nothing else runs.

Abstractions: recovery reads its files in one step; an installation and the
comparison of its digest are one step; assets are not represented, so neither
are the errors about them; an interrupted copy into a backup is the same as one
that has not written `record.json`; nobody removes `run.lock` by hand; photo
sets are compared as a whole, so the sync plan is only empty or not.

### RemotePublication and the code

A gallery is a set of photos. Each photo has an object (the full-size image, R2)
and a preview (GitHub); the application with its `gallery.json` is a further file
(GitHub), and one deployment of it is the site (Vercel). The content of an
artifact is told by the photos it shows, which also stands for its hash. `remote`
is what the services hold, `building` the deployments that exist and are not
finished, `local` the committed local publication, `ledgerFile` the integration
ledger on disk. The rest is the memory of a process.

| Code | Actions |
| --- | --- |
| `publish_project`, its local step; the `prepare` command | `StartPublish`, `Prepare` (both `BuildLocal`) |
| `prepare_v2_publication` | `ReadBundle`, `ReadDesired`, `MakePlan` |
| `Coordinator::execute_with_observer` | `Refuse`, `Coordinate`, `Finish`, the order in `Turns` |
| put, delete, `run_batch`, `run_publish`: guards and durable Pending | `Announce` |
| the same: classification of the answer, its record | `Settle` |
| `R2StorageProvider::put`, `delete` | `PutObject`, `DeleteObject` |
| `GitHubRepositoryProvider::commit` | `CommitFiles` |
| `VercelHostingProvider::publish` | `CreateDeployment`, `Poll` |
| Vercel (external) | `BuildEnds` |
| every error before an answer, a ledger that cannot be written, a kill | `Stop` |

An answer is `ok`, `altered` (an upload whose source changed after it had been
validated), `refused` (an error the executor classifies as without effect) or
`unclear` (any other). `Settled` says what becomes of the entries. A request that
was given up and arrives later is not a case of its own: its entry is uncertain
and stays so, which the properties allow any content for.

Three constants choose the circumstances. `Solo`: one publish at a time, as the
gate of one desktop application provides and the command line does not.
`PrepareBeside`: a local publication may be committed between the two times a run
reads the output directory; at every other time it may be anyhow. `StableAccess`:
a service that has accepted a request does not refuse the repetition of that
request or the question for its state (revoked credentials, deleted projects).

Abstractions: keys, paths, sizes, revisions, URLs and content types; the order of
the objects; the staging of blobs and trees, which nobody sees before the branch
moves; commits of others to the branch; a provider that answers for another key
than it was asked for; observers (`OperationEvents` has them) and reports; the
template of the application does not change; the configuration only as its fingerprint. The local
publication is one atomic step here, which `LocalPublication` justifies as long as
`recover` is run alone.

### SharedBranch and the code

`branch` is the sequence of the commits, each with all the files it has. `batch` is
what the run has to write and delete, `base` the commit that `current_base` returned,
`made` the commit object that was created, `ledger` and `ledgerFile` the inventory in
memory and on disk. Others append commits (`OthersCommit`, `OthersBootstrap`).

| Code | Actions |
| --- | --- |
| `plan_repository`, `run_batch`: guards | `StartBatch`, which opens only entries that are certain |
| `ensure_repository`, the read of the base before Pending | `EnsureRepository`, `ProbeBase` |
| Pending for every path, persisted | `Announce` |
| blobs, `mark_put`, `mark_delete` | `Stage` |
| `commit`: `current_base`, tree and commit | `ReadBase`, `CreateCommit` |
| `commit`: PATCH of the reference, `"force": false` | `PatchRef`, `MoveBranch` |
| `classify_commit_failure`, record or rollback | `Settle` |
| I/O errors and kills | `Stop` |

### ProviderCalls and the code

`credential` and `access` are the circumstances, `object` and `made`, `build` the
services, `entry` the ledger entry of the one object and the one site. `call` is the
operation in progress: stage, retries, polls, and the error kind of its answer.
`SdkError` and `StatusError` are the classification of the two providers, `Given` and
`Acted` say what a service may do when it answers so. `Unbuilt` is the answer where
nothing is sent, because the client or the request cannot be built.

| Code | Actions |
| --- | --- |
| `StorageExecutor::put`, `delete`, `run_publish` up to the durable Pending | `BeginPut`, `BeginDelete`, `BeginPublish` |
| `read_content`, `credential`, `client`, `token` | `ReadContent`, `ReadCredential`, `BuildClient` |
| `put`, `delete` with its retries | `SendPut`, `SendDelete` |
| `create_deployment`, `get_deployment` with its retries, the poll | `CreateDeployment`, `GetDeployment`, `Look` |
| the classification by the executors, the record | `SettlePut`, `SettleDelete`, `SettlePublish` |
| kills, a ledger that cannot be written | `Stop` |
| Vercel; whoever manages credentials and rights (external) | `BuildEnds`, `CredentialChanges`, `AccessChanges` |

`disturbed` and `inexact` are history: the source or the access has changed during the
operation, and the operation was taken back after that. A request without an answer
takes effect at once or never; a created deployment is visible to the GET for it.

### OperationEvents and the code

`told` is the last event of the object and of the site. Every action is one of
`ProviderCalls` with the event that `publisher-integration` emits beside it, or a
failure before Pending, which is heard although the ledger knows nothing of it.

| Code | Actions |
| --- | --- |
| `StoragePutStarted`, `StorageDeleteStarted`, `HostingPublishStarted` | `ObservedBegin` |
| `put_observed`, `delete_observed`, `execute_with_observer`: the result and `storage_failure`, `hosting_failure` of it | `ObservedPut`, `ObservedDelete`, `ObservedPublish` |
| `open_validated_source` fails | `RejectSource` |
| `persist` fails, before and after the request | `CannotAnnounce`, `CannotRecord` |
| requests, kills, others | `Unheard` |

`Payload` and `Sent` are the transfer objects of the desktop, `Tone` is what the page
makes of one, `Line` the wording of the command line; keys, sizes, counts and
identities are left out. The events of a repository batch are not modelled: they
follow the same pattern over one `Settle` of `SharedBranch`.

### LocalStorage and the code

A put writes a generation of its own (`StoreBlob`), copies it under the key
(`Materialize`) and replaces the manifest (`SwapManifest`); a delete replaces the
manifest by a tombstone (`SwapTombstone`) and removes the copy (`ReturnDelete`).
`Fail` ends an operation after any of them, by an error or because the process
stops. `Head` reads the manifest and checks its generation. `answers` and `doubtful` are
history: what the last call of a provider has answered, and the keys whose copy may
differ from the object.

A generation gets a new number: the name of its file is the time in nanoseconds and a
hash of the key (`lib.rs:191-198`), and the model assumes that the clock advances between
two puts of one key. Two of them in the same nanosecond would share a file; that is
outside the model.

### GalleryBuild and the code

`source` is the folder, `scanned` the digests of the scan in progress, `previews` and
`downloads` the files by the digest in their names, `published` the active gallery,
`measured` the sizes of the photos that this build has processed (`dimensions_cache`). `Raw`
is the size of a content as it lies in the file, `Upright` the size after the camera's
orientation is applied: `process_image` records the second, `verify_gallery_assets`
compares it with the first (`SizesAgree`). `MCGalleryBuild` has an image with two sizes.

| Code | Actions |
| --- | --- |
| `recover_publication` on a committed pair: `verify_gallery_assets` | `Start` |
| `scan_jpegs`, one file after the other | `ScanFile` |
| `plan_sync` | `MakePlan` |
| `process_image`: decode, `safe_copy`, preview | `Decode`, `Copy`, `MakePreview` |
| verification, publication | `Stage` |
| errors and kills | `Stop` |
| the photographer (external) | `Save` |

### Provisioning and the code

`repository`, `branch`, `bucket`, `project` are the services, `report` the slots of
`ProvisionProjectReport`. There is one action per request: `CheckRepository`,
`CheckBranch`, `IdentifyOwner`, `CreateRepository`, `CreateRoot`, `CreateBranch`,
`VerifyBranch`, `HeadBucket`, `CreateBucket`, `CheckProject`, `CreateProject`; `Start` and
`Finish` are the frame of `run`. `Publish` and `Interfere` are others at the same
services. `Init` starts in every state that services and project may be in.

### ProjectDocument and the code

A document is a record of the kinds of its fields. Each judge is an operator over it:
`SchemaValid`, `ConfigurationIssues`, `PreflightIssues`, `Validates`, `LoadsV2`, `Plans`,
`Supported`, `ProvidersBuild`. `Check` runs one of the user's three checks; the publish
of either shell is `Begin`, `ReadDocument`, `Configure`, `Resolve`, `BuildLocal` or
`BuildLocalOnly`, `Plan`, `End`, and reads the document anew in four of them.
`BeginSetup` and `EndSetup` are the two moments of a write that is not atomic;
`EditDocument`, `EnvironmentChanges` and `StopApplication` are external. `passed`, `steady`
and `trusted` are history; `Overlooked` names, value by value, what the preflight objects
to and no step of a publish does.

### Desktop and the code

`state` has the fields of the page's `state` that decide anything; `calls` are the
commands in flight, each with the path it was given and whether its generation is
still the present one; `slot` is the flag of each gate. There is one action per handler
(`OnValidate`, `OnPreflight`, ..., `OnProjectPathChanged`), under the condition of its
button (`CanPublish`, ...). `Execute`, `Admit` and `Refuse`, `Finish` are the command: a
synchronous one, the gate, and the end of its thread, panics included. `Deliver` is
the handling of an answer. `touched` and `overtaken` are history.

## 3. Runs

| Run | Question |
| --- | --- |
| `interrupted_publication` | is the directory consistent after any two interruptions anywhere? |
| `recoverable_points` | can it always go on, and does it, after interruptions at the points the code injects faults at? |
| `remote_saga` | do ledger and services agree over any sequence of runs, stops and lost answers, is nothing repeated whose outcome is open, and is the site only built over its own files? |
| `unstable_access` | is every effect announced on disk first, and does every run end, whatever the services refuse? |
| `two_publishers` | a disagreement, section 5 |
| `shared_branch` | does a batch undo nothing of others and do what the ledger says, wherever the exchange breaks off? |
| `provider_calls` | does the classification of errors, retries and polls leave the ledger right about R2 and Vercel, is what is shown of an operation what the ledger has of it, and is every request announced? |
| `local_storage` | is the directory a storage service, for two providers that fail anywhere? |
| `gallery_build` | are the assets what their names say, and does the gallery catch up with a folder of photos that lie as they are shown? |
| `provisioning` | do two runs create everything once and move nothing, and does repeating help? |
| `project_document` | is what was checked publishable, and does a publish find by itself what the checks find? |
| `desktop` | do late answers, edited paths and panics neither block the page nor enable a button? |

Bounds of the local runs: two processes, as two are enough for a step of one
between two of the other; two photo sets, as a publication relates a new and a
previous one, and the third generation may go back to the first; four
generations, so that a committed, a rolled back and again a committed one follow
each other with the number limit still reachable; two interruptions, the second
of which can hit the recovery from the first.

Bounds of the remote runs: two photos, so that a gallery can add one and drop
another and keeps an object beside a deletion; three generations, so that a third
one meets what the second left of the first; two configurations, so that one can
be changed and changed back; two processes. `MaxRetries` is 1 and `MaxPolls` 2
instead of 2 and 10: one repetition and one question after the first answer
already give every pair of effect and answer (`provider_calls` has the numbers of the
code). Stops and lost answers are not bounded. `unstable_access` has one photo and
two generations, as each of its properties is about one operation, and no symmetry,
as it checks liveness.

Bounds of the others:

* `shared_branch`: two paths of the project, so that a batch writes one and deletes
  or leaves the other; one of others; two contents; four commits, which is two
  batches with a commit of others before and between them. The run may stop there
  (no check for deadlock): at the limit nobody can commit any more.
* `provider_calls`: two contents, so that a source can change; all limits of the
  code (2 retries of a DELETE, 2 of a GET, 10 polls); two deployments, the second of
  which replaces the first. Stops and changes of access are not bounded. The
  contents are interchangeable; `Uncertain` is what the refinement has where the ledger is
  not certain.
* `local_storage`: two keys, two contents, two providers, three generations: two that
  overlap and one that comes after.
* `gallery_build`: two photos, so that one can be renamed to or be the same as the
  other; three images, one of them turned by the camera, and a damaged one; one build
  cut off; two files saved during builds.
* `provisioning`: two runs that may be repeated without limit, two failures.
* `project_document`: a good document of each version, two without a source, and each
  that differs from the one of version 2 in one field. Two deviations at once are
  left to the proof, which holds for every set of documents.
* `desktop`: two projects and two calls in flight, so that an answer can belong to
  another project, or to this one before it was left and entered again.

Fairness: `FairSpec` of the publication machines has weak fairness of a process that
runs, which the operating system's scheduler gives it; no fairness of a fault, of
starting a publication or of a choice of photos. In `RemotePublication` this
includes that a request returns: GitHub and Vercel clients have a timeout, and the
R2 client relies on that of its SDK. Builds need not end and answers need not be
good. `RecoveringSpec` adds that somebody runs `recover` again, the only thing in
the code that settles a journal without a new publication; without it,
`InFlightSettles` does not hold. There is no such thing for the ledger: an
entry in doubt stays so until somebody edits the file, and
`AbandonedIsNeverRepeated` says that no run does. `Desktop` assumes that the start-up
request is answered, that a command ends and that the bridge delivers its answer;
nothing is asked of the user. `GalleryBuild` assumes that builds are run on
(`CatchesUp` is about a folder that has come to rest with photos in `AsItLies`). `Provisioning` assumes that a
run goes on and that the command is repeated: that is the condition of the promise ("the run is safe
to repeat"), and failures are bounded there, because nothing helps against a service
that always fails.

## 4. Proofs

Every theorem holds for all values of the constants that satisfy the named
assumptions of the modules, and under the circumstances it assumes itself.

`LocalPublication_proofs`, for any processes, photo sets, generation limit, fault
points and number of faults, with `recover` run alone or not:

* `TypeCorrect` (`TypeOK`), `ControlCorrect` (`ControlOK`), `MutualExclusion`
  (`PublishersExclude`)

The inductive invariant is `IndInv == TypeOK /\ ControlOK /\ PublishersExclude`. None of
the three is inductive by itself: the type of a prepared record rests on what the
publisher has staged (`ControlOK`), what it has staged stays because no other
process publishes (`PublishersExclude`), and that one needs the command of a
process to go with its program counter (`ControlOK` again). There is a lemma per
action; the moves of the program counter, the calls of `update_journal` and the
ends of a run have one each, which the actions cite. Without `RecoverAlone` the
theorem says that the lock also holds while `recover`, which takes none, runs beside.

With `RecoverAlone`, and whatever is interrupted wherever and however often:

* `JournalNamesActivePair` (`SettledJournalMatchesActive`)
* `PreviousPairKept` (`PreviousPairSurvives`)
* `EvidenceSound` (`EvidenceIsSound`)
* `JournalAdvances` (`JournalSucceeds`)
* `ImplementsAtomicGallery` (`ReplacedAsAWhole`), the refinement of `AtomicGallery`

The inductive invariant is `GalleryInv`. What the properties say of the journal says
nothing while a run is on its way, so the invariant is about `Base`, the entry
that the next one will follow: the candidate if there is a whole one, the journal
otherwise. `Consistent(Base)` says for each phase what the active files are, what the
backup holds and which photo sets are meant; `EvidenceInv` that the records in all
journal files tell one story, with one pair per generation and one record per
sequence number; `LeftPrepared` what an interruption leaves of a candidate; `HeldOK` what a process
knows of `Base` at each label, above all that the record it is about to write succeeds
it (`Succeeds`) and that the previous pair is where a rollback looks for it
(`BackupSoFar`); `OneAtATime` is where `RecoverAlone` is used. The refinement maps the
installation of the second file to the replacement, a rollback of it to the return,
and every other step to a stutter.

With `RecoverAlone` and `FaultPoints \subseteq RecoverablePoints` (every step but those
between Prepared and a complete backup, the installation of a first publication and
its entry, the replacement of the journal, and torn copies):

* `AlwaysRecoverable` (`StoppedIsRecoverable`)
* `RefusesOnlyAtTheLimit` (`OnlyTheLimitRefuses`)

These need `RestInv` on top of `GalleryInv`: no candidate is left behind
(`CandidateInUse`), every entry up to `Base` has its copy and the chain of generations
has no gap (`Archived`, `ChainUnbroken`), the staging that a record names is there
(`StagingKept`), so is a whole backup (`BackupsWhole`), and what is at rest can be
settled (`NothingUnfinished`). At the points that are left out one or another of them
fails; section 5 has an example of each.

The last part of `LocalPublication_proofs` is about `GalleryBuild`, whose names differ from
those of `LocalPublication` (`BuildSpec`, `at`, `Missing`) so that one module can extend both; for
any photos, images and bounds:

* `BuildTypeCorrect` (`BuildTypeOK`)
* `AssetsTrue` (`AssetsAreTheirContent`)
* `OnlyARaceBreaks` (`BrokenOnlyByARace`)

`BuildTypeOK` is not inductive: that the photos still to be processed are ones the scan has
found rests on there being none while a scan is under way (`BuildTypes`). Neither is
`AssetsAreTheirContent`: that a copy is of the content in its name rests on the folder still
being what the scan has read, photo by photo, and on what was decoded being what the
folder has (`Undisturbed`); that a file which exists already may be kept rests on all
files being true to their names (`NamesHold`); and that no build is turned away on the active gallery
having its files (`Verifies(published)`). `BuildInv` has the four, all but the types as
long as no photo was saved beside a build. `OnlyARaceBreaks` needs none of that, only the types:
a step either leaves the downloads of the active gallery alone, or replaces the gallery by
one that was verified, or is the copy it speaks of.

`RemotePublication_proofs`, for any processes, photos, configurations, generations and
limits of retries and polls: `TypeCorrect`, from `TypeInv == TypeOK /\ MemoryOK`: what a
process writes to the ledger or sends to a service has the right kind because of
what it holds in memory when it gets to that step. With `Solo` and `StableAccess`, and
nothing of `PrepareBeside`:

* `LedgerTrue` (`LedgerIsTruthful`)
* `LedgerAnnounces` (`ImplementsAnnounced`), the refinement of `AnnouncedEffects`
* `FinishedPublished` (`FinishedMeansPublished`)
* `SiteOverFiles` (`SiteOverPublishedFiles`), if no `prepare` commits between the two
  readings of a run (`~PrepareBeside`)

The inductive invariant is `TruthInv`. `LedgerIsTruthful` alone is not
inductive: that what `Settle` writes is so rests on what is known of the
operation at each point of its call (`CallProgress`: until a request has been
repeated nothing has happened, a polled deployment is the only one, an answer
`ok` or `refused` says what the services hold), on the ledger in memory being
the one on disk (`MemoryMatches`), on an operation having opened only its own
entries (`OnlyTurnOpen`), and on nobody else being in a run (`Alone`).
`StableAccess` is used where a refused deletion or poll must have had no effect,
`Solo` where a second process starts. From the invariant and what each step does to the
file (`QuietLedger`, `QuietSteps`, `CoordinateWrites`, `AnnounceWrites`,
`SettleWrites`) follows the refinement: `Announce` maps to the
abstract `Announce` of its turn, `Settle` to `Learn` of the entries that become
certain, a call to `Happen`, the rest to a stutter. `FinishedPublished` adds
`PlansOK`: what is outside the plan is as it is wanted. `SiteOverFiles` adds
`OneGalleryEach`: the bundle of a run and the rest of what it wants show the same gallery, and when
the site's turn comes no object or file is left to do.

With `Solo` alone, whatever the services refuse: `AdoptionSafe` (`AdoptsSettledLedger`),
`NeverRepeated` (`AbandonedIsNeverRepeated`) and `EffectsAnnounced`
(`EffectsAreAnnounced`), from `MemoryInv`, the part of `TruthInv` that is about the process
and the file. Without `StableAccess` the truth of the ledger is lost; the warning before
an effect is not, nor the refusal to repeat it.

`SharedBranch_proofs`, for any paths, contents and number of commits:
`BranchTypeCorrect`, `HistoryIsRecorded` (`ConfirmedIsInHistory`), `OnlyTheBatchIsAdded`
(`GrowsByTheBatch`), `BranchImplementsContract` (`ImplementsAnnounced`). The inductive
invariant is `BranchInv == TypeOK /\ FileOK /\ RunOK`: `FileOK` ties each certain entry
of the file to a commit that has its content; `RunOK` says at each point of the
exchange what the run knows, above all that the commit it is about to install is its
base and its batch, and that the file is Pending on the whole batch while it does.
Without it, an answer `ok` would tell nothing about what was installed.

`ProviderCalls_proofs`, for any contents and limits: `CallsTypeCorrect`,
`CertaintyIsTrue` (`SettledIsTrue`), `DoubtNeedsARequest` (`UnknownMeansARequest`),
`RequestsAnnounce` (`ImplementsAnnounced`, the refinement of `AnnouncedEffects`),
`ObservingChangesNothing` (an observed operation is an operation, so that all of this
holds of what the run checks), `ShownOperations` (`ShownIsRecorded`).
`UnknownMeansARequest` excepts by name the operations whose client or request could not be
built, which the code does not tell from a lost answer (section 5). The
invariant `CallsInv` says what is known at each stage (`StageOK`), what a Pending entry
is about (`PendingOK`), what a service that refuses cannot have done (`GoneOK`), and
what a certain entry holds (`SettledHold`). `SettledIsTrue` has two escapes that are
the code's, not the proof's: a `put` whose source changed, and `inexact` (section 5).
The refinement maps the services to the abstract `real` and an entry to what it says,
or to `Uncertain` where it is open or `inexact`. A `Begin` is the abstract `Announce`; what leaves the
ledger alone is `Happen`, since the invariant holds before and after the step and
so neither changes what a certain entry says (`HappensBy`); an answer that is recorded is
`Learn` if the entry is certain by it and nothing otherwise (`SettleLearns`); and the deletion
of a bucket or a project, by other hands, is the one step that nobody announces
(`Deleted`), which the property excepts by name.
`ShownInv` adds to it what each event means for the entry of its resource
(`ToldAgrees`); an event that is not about the step at hand keeps its meaning, because
nothing but a step of the same resource changes the entry.

`LocalStorage_proofs`, for any keys, contents, providers and generations:
`StoreTypeCorrect`, `HeadIsNeverDamaged`, `StoreCopyFollows` (`CopyFollows`),
`StoreImplementsContract` (`ImplementsContract`). The contract tells the answers apart: a call
takes effect at most once and at one moment, not after its answer, and one that answers
Ok has done so. `CopyFollows` is about the keys that are not `doubtful`: a copy is in doubt
after two operations have overlapped on its key, be it two puts that both answered Ok, after
one was cut off between its two visible steps, and after a delete that could not
remove it; an operation that runs alone to its Ok brings it back. The invariant `StoreInv` adds to the
type that every manifest and every stored call names a generation that is there and
nobody else writes (`ManifestsName`, `PutsName`), and follows a call that runs alone on
its key (`AloneIsAlone`, `AloneProgress`), which is what brings the copy back.

`Provisioning_proofs`, for any number of runs and failures: `TypeCorrect`, `NothingTwice`
(`NothingIsCreatedTwice`: at most one run reports a resource as created, and one that
found everything reports it unchanged), `BranchIsKept` (`BranchKept`), `ReportsExisting`
(`ReportsWhatIsThere`). The invariant `IInv` adds to the type that a branch has a
repository (`BranchInRepository`), that what a run has made, reported or not, is there
and made by no other (`MadeOnce`), and that a run which found everything is only
looking (`StillComplete`). `MadeOnce` has to speak of what is not yet reported:
two runs may be between the creation of a repository and its report.

`ProjectDocument_proofs`, for every set of documents: `DocumentTypeCorrect`,
`ChecksSuffice` (`CheckedIsPublished`), `RemoteNeedsChecks` (`RemoteIsChecked`). The
invariant `DocumentInv` says that the checks that have passed would pass now
(`PassedHold`, `NoneWhileWriting`), that a trusted run has read what was checked
(`TrustedReads`), that a run beside which nothing changes has each of its facts from the
one document there is (`SteadyReads`), and that whoever has a configuration had a document
it loads from (`Configured`). That the facts a run has gathered from four readings amount
to what the preflight asks in one, but for `Overlooked`, is a lemma about single documents
(`TakenIsReady`).

`Desktop_proofs`, for any projects and any number of calls in flight:
`DesktopTypeCorrect`, `NothingWaitsInVain` (`NobodyWaitsInVain`), `ChainHolds`
(`ResultsRestOnEachOther`), `OfferedPlanIsFresh` (`PlanIsFresh`). The invariant `PageInv`
says that at most one call is of the present generation, and it is of the path on the
page (`CurrentOK`), what an answer that is accepted may be (`AnswersOK`, `StartOK`) and
when a dry run is stale (`Fresh`). As a by-product, the comparison of paths in
`isCurrentOperation` is implied by that of generations.

The proofs use the named assumptions of the modules: the values that stand for
nothing, for doubt or for the whole (`Absent`, `Missing`, `Uncertain`, `Whole`, `Unreadable`,
`NoPath`, `NoCall`) are none of those they are told apart from, and the limits are natural
numbers, positive where a first one is needed.

Only model-checked: liveness (`InFlightSettles`, `RunsEnd`, `RepeatingSucceeds`,
`CatchesUp`, `EverythingReopens`), which is out of the prover's reach, as are
statements with ENABLED. Every other property of a passing run is stated by a
theorem. `two_publishers` is a counterexample. Nothing here rests on a recursive operator
or on induction over data.

## 5. Disagreements with the documentation

`two_publishers` is a run of its own, in which TLC finds the shortest way: a second
publish, of the command line beside the desktop, adopts a header over the Pending
entry of the first, where `publisher-integration/src/lib.rs:605-607` says that a
publication is adopted only when no entry is Pending or Unknown.

The following were met while modelling. TLC finds a shortest way to each that has a
definition named with it, when that definition is checked with the configuration of
the module, or with the changes named here.

Local publication:

* A killed publish leaves `run.lock`; the next is told that another execution is
  active (the property `BusyMeansActive`, `FaultPoints = {"scan"}`, one fault).
* A stop between Prepared and a complete backup makes every later recovery fail
  (`OnlyTheLimitRefuses`, `FaultPoints = {"backupGallery"}`, one fault).
  More of its kind: a candidate left behind (`{"replaceJournal"}`), a first publication stopped at GalleryInstalled
  (`{"installFirstState"}`), the recovery of one stopped before its journal entry
  (`{"installGallery", "journalFirstState"}`, two faults), a torn history copy
  (`{"tearArchive"}`).
* `recover` beside a publish settles the journal on a pair that is not active
  (`SettledJournalMatchesActive`, `RecoverAlone = FALSE`, two generations, no fault).
* A photo that is saved between the scan and its copy puts another image under the
  digest of the scan. If the active gallery names that digest already (a photo
  renamed, or there twice), every later build is refused by the check of the active
  gallery (`HealedByRecovery` of `GalleryBuild`; `BrokenOnlyByARace` says that this is the
  only way). Likewise a preview that exists is kept, so one that was made of
  another image stays wrong.
* A photo that is not square and has an EXIF orientation of 5 to 8 can be decoded, but a
  build that has to process it fails: its size is taken after it was turned
  (`image_ops.rs:30-31`) and compared with that of its untouched copy (`lib.rs:488-502`,
  `DecodableCatchesUp` of `GalleryBuild`).

Remote publication:

* A refusal of the poll, or of a GET, after a deployment was created is taken for a
  refusal of the deployment: the entry is put back although the service has acted;
  so is a DELETE that was carried out, not answered, sent again and refused
  (`RefusedHadNoEffect` with the constants of `unstable_access`, and with
  `MaxPolls = 0` for the DELETE; `inexact` in `ProviderCalls`). The
  comments at `executor.rs:512-530` and `hosting.rs:372-375` say otherwise.
* A manifest committed between the two reads of the output directory: the site shows
  a manifest of another generation than its files (`BundleShowsDesired`,
  one photo, `PrepareBeside = TRUE`, stable access).
* A read of the base that is not answered leaves the batch Unknown before the update of the
  reference was sent (`UnknownIsIndeterminate` of `SharedBranch`;
  `repository.rs` reserves Unknown for updates whose outcome is open).
* A client or a request that cannot be built leaves the entry Unknown without any
  request (the exception in `UnknownMeansARequest`): the SDK's construction failure
  becomes `Other` (`provider-r2/src/lib.rs:140`), the client of Vercel `Other`, and a
  deployment whose request cannot be built `Network` (`provider-vercel/src/lib.rs:158-160`),
  as with a token that has a control character in it, which `credentials.rs:104` accepts.

Before a publication:

* A provisioning that the page has abandoned, by an edit of the path and back, leaves
  Publish enabled on the dry run before it (`ProvisioningDisablesPublish`).
* The supported providers are checked on another reading of `project.json` than the one
  the providers are built from (`OnlySupportedProviders`).
* The other way round, a publish accepts what the preflight objects to: an account or a
  bucket whose name is white space, a repository whose name is (`"owner/ "`), an empty
  path as the source, a domain that is none (`Overlooked`).
* Preflight is ready for a project without a source folder, which no publish accepts
  (`ReadyIsPublishable`; `preflight.rs:127-130`, `config_validation.rs:111`).
* `configReady` is written by the page and read by nothing; a failed publish keeps the
  dry run on offer; a changed credential does not withdraw the preflight; prepare,
  dry run and recover of the command layer pass no gate.

The definitions named here that no run lists are kept beside the properties as the
statements that do not hold; each is an invariant but `BusyMeansActive` and
`DecodableCatchesUp`. `ControlOK` and
the type invariants that no run lists are what the proofs rest on.

What the passing runs say beside this: none of the interruptions damages the active
files as long as `recover` is not run beside a publish: what fails is the way on,
not safety. With one publisher and stable access the ledger is always true, and
without stable access it is still warned of every effect.

## 6. Plan

What the order of the modules above started from is done. What would extend it, the most
telling first:

1. `Publisher`: the composition of the local and the remote machine with the gates of
   `Desktop` and a command line beside it, so that `Solo` and the atomic `BuildLocal`
   become consequences of the gates or counterexamples. The size of the two machines makes
   it a matter for proofs rather than for TLC.
2. `ProviderCalls` and `SharedBranch` as direct refinements of the calls of
   `RemotePublication`, answer for answer; today they meet in `AnnouncedEffects`.
3. What `provision` asks of the names in `project.json`
   (`provisioning/src/repository.rs`, `storage.rs`, `hosting.rs`, `domain.rs`), as a further
   judge in `ProjectDocument`.
4. `LocalRepositoryProvider`, if a binary comes to use it.

## 7. Not modelled

* `LocalRepositoryProvider`: it changes files at once, lists them when asked to commit,
  and no binary uses it. `head` of R2 and `exists` and `read` of GitHub: called by
  nothing that publishes.
* `inspect`, the events of workflow steps and of repository batches, transfer objects, messages, logging, and the credential panel and
  the setup form of the page: they only show. Parsing of command line arguments.
* The gallery schema: the pipeline writes what it checks. The parts of `project.json`
  that nothing judges.
* Decoding, resizing and hashing: a content stands for its digest, which is taken to
  be free of collisions.
* Waiting (rate limits, delays between retries): it changes no state.
* The provisioner of domains does nothing but refuse: it is a branch of `Finish` in
  `Provisioning`.
