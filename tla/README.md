# TfRun operator: a verification project

The repository is a Kubernetes operator. A user submits a `TfRun`; the
operator runs OpenTofu or Terraform on it in a Kubernetes Job, keeps a
workspace for it in Scalr, and tears everything down when the run is deleted.
This directory holds TLA+ modules that model the operator in its cluster, the
TLC configurations that check them, and proofs for TLAPS.

    tlc -config edits.cfg MCTfRun.tla      # any .cfg here, always on MCTfRun
    tlapm TfRunTypeProofs.tla              # and TfRunSafetyProofs, TfRunStatusProofs,
                                           # TfRunMemoryProofs, TfRunLastProofs,
                                           # TfRunWakeProofs, TfRunLimitProofs,
                                           # TfRunClaimProofs

`PROJECT.json` lists for every definition the source lines it models, for
every run the question it asks, and for every property a mutant of the code
that breaks it.

## Inventory

| component | code | state it keeps | operations |
|---|---|---|---|
| TfRun controller | `internal/controller/*.go` | none of its own between reconciles; the TfRun's status and finalizer in the API server | `Reconcile` and what it calls |
| API types | `api/v1alpha1/tfrun_types.go` | spec and status | - |
| validating webhook | `api/v1alpha1/tfrun_webhook.go` | none | `ValidateCreate`, `ValidateUpdate` |
| bootstrap job builder | `internal/bootstrapjob/` | none | `ForEngine`, `BuildJob`: engine, backend, git secret, TTL, pod template |
| engines | `internal/engine/` | none | the shell command of a job |
| backend dispatch | `internal/backend/` | none | ensure, get, delete a workspace |
| Scalr client | `internal/scalr/` | none; workspaces in Scalr | create, list, delete over HTTP |
| manager | `cmd/main.go` | informers, work queue, timers | start, leader election |

The parts meet in these places.

* *User to controller*: a write of the TfRun, which reaches the controller
  through the informer, some time later.
* *Schema to spec*: the defaults of the custom resource definition apply to
  objects that are there. A user who leaves `engine` or `backend` out gets none;
  the controller's first update of the whole object sends both as empty objects
  and so brings the defaults in, as a new generation of the spec.
* *Controller to API server*: reads go to the informers' copies, writes to the
  API server. A write with a resourceVersion that is not the stored one is
  refused. `Reconcile` reads once at the start, and twice more reads again:
  when a job exists already, and before it removes the finalizer.
* *Controller to jobs*: it creates a Job owned by the run, and learns of its
  end from the Job informer, a different one from the TfRun informer.
* *Controller to Scalr*: synchronous calls in the middle of a reconcile, the
  result of which is remembered only in the status.
* *Controller to itself*: a reconcile's result puts the key back in the queue,
  sets a timer, or does neither. An error and `Requeue` do the first,
  `RequeueAfter` the second; `updateStatus` that succeeds does neither.

What is hard here: two informers that lag separately; a status that is the
only memory and is written by compare-and-swap, so that an effect (a job, a
workspace) can outlive the failed write that was to record it; jobs found by
name and not by owner; counters of a job that are all zero before its first
pod and between two pods; sleeping between events, so that a missing requeue
is a run that hangs; deletion racing with edits, with restarts and with a
second object of the same name; names that are cut, or not, at the 63
characters a Job may have; a workspace id that outlives the place it was made
for; and a process that may stop at any call.
`PROJECT.json` has the list, line by line, under `hazards`.

What makes the components correct:

* controller, running: the last spec submitted is started in the end, stale
  copies never take the status back, a hash or a job in the status is one that
  was started, and the controller never sleeps with something left to do;
* controller, deleting: no apply after the destroy job, no finalizer removed
  and no workspace deleted before there is a destroy job, no finalizer taken
  from a run that lives, and deletion ends;
* workspace handling: a workspace called ready was given out by Scalr; only
  workspaces the run made or imported are deleted, however the spec moves, and
  none that a living run's status names; one that was made is remembered,
  verified and deleted (the code does not keep this, see the findings);
* webhook: an interval below 45 minutes is refused;
* job builder: whatever the operator's environment says, the job's TTL is one
  the API server takes;
* engines, backend dispatch: pure functions of the spec.

## The modules

| module | what it holds |
|---|---|
| `TfRunTypes` | the run, its status, jobs and their names; the schema's defaults; hashing, naming with the cut, and the counters' predicates |
| `TfRunJobs` | the job builder: which specs it can build a job from, the TTL with its width, which jobs the API server takes |
| `TfRunController` | the variables and `Reconcile`, one action for each of its steps |
| `TfRunSystem` | users, informers, queue and timers, restart, the cluster's controllers, Scalr, time; `Spec`, fairness, properties, the refinement |
| `TfRunPromise` | the abstract specification: in which order the object of one name, its apply jobs and its destroy jobs may come |
| `TfRunInvariant` | the inductive invariant |
| `TfRunClaims` | what documents and comments say and the code does not do |
| `MCTfRun` | constants for TLC |
| `TfRunTypeProofs` | the lemmas on types: every action keeps the type invariant |
| `TfRunSafetyProofs` | the invariant of the identities and the jobs' history, the order of deletion and the refinement, proved |
| `TfRunStatusProofs` | the invariant of the statuses and what it gives, proved |
| `TfRunMemoryProofs` | what a worker knows of the recorded workspace, that its id is kept, and that a living run's workspace is, proved |
| `TfRunLastProofs` | what the status of every copy says of the last job, and that the recorded hash is its, proved |
| `TfRunWakeProofs` | the invariant of the wakeups and when the controller rests, proved |
| `TfRunLimitProofs` | what names and TTLs the API server takes, and that a run without a destroy job never goes, proved |
| `TfRunClaimProofs` | how far two of the claims of `TfRunClaims` are true, proved |

### How state and actions correspond to the code

One namespaced name is modelled, since reconciles of different names share
only the client. `obj` is the TfRun in the API server, `cache` the informer's,
`my` the one the running reconcile holds. A resourceVersion appears as the
question it answers: `cacheFresh` and `fresh` say that the copy has the stored
one. An update of a copy that is not fresh is refused; one that changes
nothing keeps the resourceVersion. Fields of the status that nothing reads are
left out, and so an accepted update may have changed one of them (`bump` in
`StatusStored`).

A spec is its hash, its interval (`none`, `short` for below 45 minutes,
`valid`), its engine and backend (`none` where the user left them out) and the
place of its workspace, an environment and a name; the git secret is a flag.
`Defaulted` is what the schema makes of a spec; the values it fills in are the
constant `Defaults`. A job is its owner's uid, the spec hash its pod runs and
the three counters. `uid` tells incarnations of the object apart.

A job's name is what is left of its run id (generation and 8 digits of the
hash) once `apply-<run>-gen-<generation>-<hash>` is cut at 63 characters:
`buildJobName` keeps the hash, a prefix of the generation, or nothing of
either, depending on `RunNameLength`. `HashDigits` says how many leading digits
tell all the hashes in use apart; a name that keeps fewer tells none apart. `Valid` is the API server's part: the destroy job's name,
which nothing cuts, and the owner label must fit, and the TTL must not be
negative. `ToInt32` wraps at `Int32Half`, which is a constant so that small
instances can reach it.

`remote` is the set of workspaces in Scalr, each with its id and place. Some
are there before the run (`Existing`). A lookup needs the environment and the
id, a creation needs the environment and, with `UniqueNames`, a name that is
free in it; a deletion needs the id alone.

`pc` is the call `Reconcile` makes next. It is cut where it leaves the
process, because everything else may happen there and the process may stop
there:

| step | actions | code |
|---|---|---|
| `idle` | `Begin` | `Reconcile` to line 99 |
| `addFinalizer` | `EnsureFinalizer` | `ensureFinalizer` |
| `workspace` | `SkipWorkspace`, `VerifyWorkspace`, `ReconcileWorkspace` | `ensureWorkspaceIfNeeded`, the Scalr calls |
| `workspaceSave`, `workspaceLost` | `SaveWorkspace`, `WorkspaceLost` | the status updates that follow |
| `jobs` | `DeferSpecChange`, `RunSpecChange`, `WaitForJob`, `RecordCompletion`, `RunPending`, `RunInterval`, `NoIntervalRun` | `handleSpecChange`, `updateStatusBasedOnCompletedJob`, `handlePendingExecution`, `handleIntervalRun`, with `createNewJob` |
| `record`, `adopt` | `RecordJob`, `AdoptJob` | the second half of `createJobAndUpdateStatus` |
| `deletion` | `CannotDestroy`, `AdoptDestroyJob`, `CreateDestroyJob`, `FinishDestroy`, `AwaitDestroyJob` | `handleDeletion`, `handleDestroyJob` |
| `destroyRecord` | `RecordDestroyJob` | the status update at the end of `handleDeletion` |
| `cleanup`, `removeFinalizer` | `CleanupWorkspace`, `RemoveFinalizer` | `cleanupWorkspaceAndRemoveFinalizer`, `removeFinalizer` |

Each write is one step with the read or the result that decides it. A job
creation is a step of its own, before the status update that records it, and
the same holds for every call to Scalr; `target` is the run id of the job on
the way from the one to the other. One worker runs, as
`MaxConcurrentReconciles` is left at 1.

`Faults` says which things can go wrong: `crash` (the process stops at any
call and another starts), `scalr` (a call fails, before or after it took
effect), `reject` (the API server refuses to create a job), `vanish` (someone
deletes a workspace), `secret` (the git secret is missing for a while), `pod`
(a pod fails). Lost compare-and-swaps are no fault: they happen whenever
another write came in between.

`created` and `last` are history variables that no action reads.

## The runs

Every run is of `MCTfRun`; its cfg has the bounds.

| run | shows | bounds |
|---|---|---|
| `edits` | `QuietIsSettled`, `RecordedIsLast`, `ObservedGenerationMonotone` | two modules, two edits (there and back), one failed pod, a run name of 55 characters |
| `faults` | `QuietIsSettled`, `StatusNamesCreatedJobs`, `ReadyNamesWorkspace`, `WorkspaceRemembered` | a module and one with a provider that is not supported, one edit, one fault of any kind but a missing secret |
| `edits_and_deletion` | `QuietIsSettled`, `NoApplyAfterDestroy`, `KeepsPromise`, `WorkspaceAwaitsDestroy`, `DeletesOwnWorkspaces` | a module, one in another environment where the name is taken and with an interval that is too short, one that leaves engine and backend out; one edit, deletion at any point, a run name of 55 characters |
| `deletion` | `TypeOK`, `QuietOrFailed`, `FinalizerHeldUntilDestroy`, `DestroyDoneWhereHeard`, `DeletionCompletes` | one module with an imported workspace, one fault (restart, failed pod, missing secret, refused job or failed call to Scalr), no retries of a job, `JOB_TTL_DESTROY` negative; fairness and `CacheWinsRace` |
| `recreated` | `IInv`, `LivingKeepsFinalizer`, `LivingKeepsWorkspace` | two incarnations of a run without an engine that import one workspace |
| `converges` | `QuietIsSettled`, `LastHashIsLastRun`, `LastSpecApplied` | a module and a periodic one, one edit, one interval elapses, one restart, an imported workspace, a run name of 57 characters; fairness |

In words: no wake-up is lost (`QuietIsSettled`: a controller with nothing
queued, no timer and informers up to date has a living run, with its
finalizer, the current spec of which is started and its outcome read, or a job
is still there whose end or removal will be an event; a periodic run without
its job has a timer; a deletion is never left alone); where a job cannot be
built, which `updateStatus` leaves without a timer, the run that is left alone
says so (`QuietOrFailed`); the status is a record of what happened
(`StatusNamesCreatedJobs`, `ReadyNamesWorkspace`) and is not taken back by a
stale write (`ObservedGenerationMonotone`, `WorkspaceRemembered`); the hash it
takes for run is the last job's, so that a reconcile that sees no change has
nothing to run (`RecordedIsLast`); deletion keeps its order
(`NoApplyAfterDestroy`, `FinalizerHeldUntilDestroy`, `WorkspaceAwaitsDestroy`)
and its wait for the destroy job (`DestroyDoneWhereHeard`: what goes on is never
a deletion whose job has failed or is still to run, unless the informer is
behind), its object (`LivingKeepsFinalizer`) and its workspaces
(`DeletesOwnWorkspaces`, `LivingKeepsWorkspace`); the spec of the last edit is
started and a deletion ends.

`LastSpecApplied`, `LastHashIsLastRun` and `RecordedIsLast` are claimed, and
hold, of a run that is edited once (the update that fills in the defaults counts
as an edit). An edit that is taken back can make them false: `reverted_edit`
shows how. `edits`
has a second edit, which `RecordedIsLast` does not speak of; what it asks of the
versions up to the first is that the second comes at any moment of their jobs.

`KeepsPromise` is the refinement of `TfRunPromise`, under the mapping at the
end of `TfRunSystem`: the promise's `run` is what the API server stores,
`started` the last apply job created, `torn` the incarnations a destroy job
was created for. The promise has neither informers nor statuses nor pods, and
says that applies come in the order of generations, for the object that
exists, and not after its destroy job, and that the object goes after a
destroy job or before anything was applied for it.

The bounds are chosen so that the case a run is about happens. One edit is
what every copy can be behind of; a third generation lets the first spec come
back while the hash of the second is pending (`edits`, `reverted_edit`).
`BackoffLimit = 1` gives a job a second pod, which is what tells a job between
two pods from one that has not started or has ended; `deletion` and
`adopted_destroy` have 0, as their questions are about a destroy job that has
ended or failed for good, and not about one in between. `MaxWs` is the
workspaces that are there and those the lives, moves and faults of the run can
ask for, so that creation is never refused because of the bound. `MaxLag = 1`
lets the Job informer be behind for one name at a time: a step of the cluster
waits until the informer has heard of the other names, but the controller's own
creations do not. `RunNameLength` is 12 where names are to stay whole. At 55,
the longest name of a run that can be deleted, the cut leaves nothing of
generation and hash (it does from 52 on), so that all apply jobs share one name
and a second spec meets the first one's job; at 57 the destroy job's name is
too long besides (from 56 on). One fault is enough for each of its kinds to
come at any call. The safety runs make 0.5 to 0.9 million states, the fair ones
0.3 and 0.4 million. `edits` uses the symmetry of two hashes, which its specs
and properties do not tell apart; the other runs use none. Deadlock is not
checked: users may stop, and a run that is gone leaves nothing to do.

The mutants named in `PROJECT.json` are operators beside the definitions they
replace (`AfterFinalizer_resumes` beside `AfterFinalizer`): each is a
plausible slip in that code, and each makes its property fail.

### Fairness

`Fairness` assumes that the work queue serves its key and a reconcile makes
its next call, that informers catch up, that timers fire, and that the
cluster's controllers act: client-go and Kubernetes run those as loops that
retry. Pods that do not fail end, time passes, and a missing secret comes
back. Users, faults and the resync are not assumed to act.

`CacheWinsRace` is assumed by `deletion` and `stuck_deletion` alone. The status update of
`handleDestroyJob` makes the informer's copy stale right before
`removeFinalizer` reads it ("re-fetch" at `tfrun_controller.go:642` is a read
of the informer), the update then conflicts, and the next pass writes the
status again. Deletion ends only if the informer catches up in the interval
between, at least once if it has infinitely many chances. Between the two lies
a call to Scalr against the milliseconds of a watch event, so it is likely;
nothing in the code ensures it, and without the assumption TLC finds the run
that conflicts for ever.

## Findings

Each is a run that expects a violation of what a document or a comment says.

| run | what the code does |
|---|---|
| `one_active_job` | a second job is started beside one whose pod has not started, or is not in the informer yet |
| `finalizer_waits` | a destroy job that the informer has not shown yet counts as done |
| `adopted_destroy` | the destroy job of a run's predecessor, which the garbage collector has not removed yet, passes for the run's own: what the run applied is never destroyed |
| `reverted_edit` | a job whose record was refused, because its edit was taken back meanwhile, is forgotten, and its spec stays applied |
| `workspace_leak` | a workspace whose id was lost with a status update outlives the run |
| `stuck_deletion` | a run whose name has 56 to 63 characters is applied and can never be deleted: its destroy job's name is too long |

Others are visible in the modules and have no run of their own: a job that
succeeded at its second pod is recorded as Failed (`IMPLEMENTATION.md:40`); a
job for the pending hash runs today's spec under the other one's name
(`tfrun_types.go:77`); pods are
retried (`IMPLEMENTATION.md:103` says they are not); `lastSpecHash` is set
when the job is created and not when it succeeded (`tfrun_types.go:74`); a job
adopted after a crash is run again once its TTL has removed it
(`IMPLEMENTATION.md:304`); a failure that `updateStatus` stored is left until
the ten-hour resync (`IMPLEMENTATION.md:156`); one failed lookup forgets the
workspace's id, and Scalr then refuses to make another of that name; after a
rename of the backend's workspace the old one stays the run's and is called
ready (`tfrun_types.go:65`); a run
edited to leave out its engine can be neither applied nor destroyed until it
names one; the schema's default backend is in an organization (`my-org`) that
need not exist.

The obvious repair of `workspace_leak`, to delete a workspace whose id could not
be recorded, would be wrong where workspaces are imported: the mutant
`SaveWorkspace_rollback` does so, and takes the workspace of a living run
(`LivingKeepsWorkspace`, run `recreated`).

## The proofs

TLC shows the properties on small instances; these theorems hold for every
value of the constants that meets the assumptions in `TfRunTypes`,
`TfRunJobs`, `TfRunController` and `TfRunSystem`: any sets of hashes, specs and
places, any lengths of names and any TTL variables, any number of edits,
incarnations, workspaces and faults, any lag.

| theorem | module | states |
|---|---|---|
| `TypeSafety` | `TfRunSafetyProofs` | `Spec => []TypeOK` |
| `ApplyPrecedesDestroy` | | `Spec => NoApplyAfterDestroy` |
| `FinalizerHeld` | | `Spec => FinalizerHeldUntilDestroy` |
| `LivingKept` | | `Spec => LivingKeepsFinalizer` |
| `WorkspaceKept` | | `Spec => WorkspaceAwaitsDestroy` |
| `Refinement` | | `Spec => KeepsPromise` |
| `StatusTrue` | `TfRunStatusProofs` | `Spec => []StatusNamesCreatedJobs` |
| `ReadyNamed` | | `Spec => []ReadyNamesWorkspace` |
| `DeletesOwn` | | `Spec => DeletesOwnWorkspaces` |
| `ObservedForward` | | `Spec => ObservedGenerationMonotone` |
| `IdRemembered` | `TfRunMemoryProofs` | `Spec => WorkspaceRemembered` |
| `WorkspaceOfLiving` | | `Spec => LivingKeepsWorkspace` |
| `RecordTrue` | `TfRunLastProofs` | `Spec => []RecordedIsLast` |
| `Invariance` | `TfRunWakeProofs` | `Spec => []IInv` |
| `RestExplained` | | `Spec => []QuietOrFailed` |
| `NoLostWakeup` | | `AlwaysBuilds => (Spec => []QuietIsSettled)` |
| `DestroyDone` | | `Spec => DestroyDoneWhereHeard` |
| `NeverGoes` | `TfRunLimitProofs` | `~Valid(DestroyName) => (Spec => [](obj.deleting => []obj.deleting))` |
| `CompletesInVain` | | `~Valid(DestroyName) => (Spec /\ DeletionCompletes => []~obj.deleting)` |
| `FirstOwn` | `TfRunClaimProofs` | `Spec => FirstDestroysOwn` |
| `OneLifeOwnDestroy` | | `MaxLives = 1 => (Spec => OwnDestroyFirst)` |
| `RestApplied` | | `AlwaysBuilds => (Spec => []RestIsApplied)` |
| `LastHashTrue` | | `AlwaysBuilds => (Spec => [](obj.gen <= 2 => LastHashIsLastRun))` |

*Types.* `TypeOK` is not inductive: an edit, the update that fills in the
defaults and the stamp of a deletion need room for the generation, a pod that
fails needs a job that has not finished, a worker that goes on needs a run, and
one between a job and its record needs a run id. `TypeInv` adds these. It is
proved action by action, by the parts (`StoreOK`, `JobsOK`, ...) that the
actions' frames leave alone.

*The invariant of identities* (`BaseInv`). None of the action properties
follows from types. That `removeFinalizer` hits the right object although it
reads the informer again rests on a chain: the copy a worker holds is an
earlier version of what the informer has, which is an earlier version of what
is stored (`CopyInv`); an object that is being deleted has the finalizer, one
that has it is the one the informer has seen, and a worker that applies or
tears down works on the object that has it (`FinalizerInv`); so a fresh cache
at `removeFinalizer` is the worker's own object, and as the worker's copy is
deleted, so is the stored one. The chain holds because the finalizer keeps the
name from being taken by a second incarnation while a worker is past
`ensureFinalizer`, and `UidInv` and `AbsentInv` number the incarnations.
`HistoryInv` says that an incarnation with a destroy job is deleted in every
copy and that no copy with the finalizer is older than the last apply job.
`DestroyInv` says that whatever makes the controller believe in a destroy job
(the status, the informer, its own position) is right that one was created.

*The steps.* Every step of `Next` is *calm*, in that it changes neither the
identity, generation, deletion or finalizer of a copy nor the history of the
jobs, or is one of ten others: a reconcile begins, a finalizer is added or
removed, an apply or a destroy job is created, the informer moves, the process
restarts, or a user creates, edits or deletes. `StepKinds` proves that these
are all; the invariant, the properties and the refinement are then each proved
kind by kind. The update that adds the finalizer may raise the generation,
because it brings the defaults: to the promise it is an edit.

*The invariant of statuses* (`StatusInv`). What the status says is written
from three copies, of which two may be stale, and from what a worker remembers
between a call and the update that records it. `Honest` says of every copy
that its status is true of the workspaces and jobs that were ever created; the
worker's memory (`my.status` after a call to Scalr, `target` after a job was
created or found) is held to the same. A step keeps it if what it stores is
honest (`StoreHonest`) and what it takes for its own copy is (`WorkerHonest`);
each action is one of a few ways to do so. That a write does not take
`observedGen` back needs, besides, that a copy whose resourceVersion is the
stored one has observed at least as much as the stored one.
`RunInv` is `BaseInv /\ StatusInv`; `RunInvariance` proves it.

*The invariant of the worker's memory* (`MemoryInv`). A pass on a copy that
has no workspace id yet asks Scalr for a workspace, although one may be
recorded by then. What it gets does no harm to the record because a copy whose
resourceVersion is the stored one knows the stored id, save in the two steps
between a call to Scalr and the update that records or forgets its outcome;
and there either none was recorded or the lookup has just failed. Scalr
refuses the second workspace where names are unique; where they are not, it
would stay behind, as the one of `workspace_leak` does.

*Runs without the finalizer* (`BareInv`). An object without the finalizer has
no workspace on record, in any copy: `ensureFinalizer` comes before
`ensureWorkspaceIfNeeded`, and a late status update of a reconcile that began
with the predecessor is refused, or copies a status that has no id. From it and
the chain of identities follows `LivingKeepsWorkspace`: while the stored object
has the finalizer the deletion at work is its own, and so the object is being
deleted; without the finalizer there is nothing that cleanup could take from it.

*The invariant of the last job* (`LastInv`). `RecordedIsLast` compares a hash in
the status with the job created last, and between the two lie an update that may
be refused, a job that is found by a name several specs can share, a pending
hash, and reads of a stale copy. `VersionInv` says that copies of one generation
of one incarnation have one spec, which only a user's edit or the defaults
change, and both raise the generation. `Recent` says of every copy, and of every
status on the way to be stored, what it may say given the last job: a job runs
the spec of its generation; a recorded hash means that the run's own incarnation
has had a job; while only the first generation has had one, the recorded hash is
its or none; and a run that was not edited has no pending hash but its own. Every
step either leaves the last job alone and stores a status that is `Recent` (it
*carries*), or is the creation of an apply job, after which whatever was recorded
is of an earlier job and no later generation's. That one edit is meant is where
the third clause stops: after a second one the recorded hash can be the right one
by accident, which is `reverted_edit`.

*The invariant of wakeups* (`WakeInv`). `QuietIsSettled` speaks of the moment
a reconcile returns without a requeue or a timer, and whether that is right
was decided by what it read at its start. Three parts carry it. `SeenInv`: the
Job informer has every job it does not still have to hear of as it is stored.
`AwakeInv`: a busy worker whose key is not back in the queue has missed
nothing; if the informer is up to date, the worker's copy is the stored
version and agrees with the informer's in all that decides how the reconcile
ends (`SameDecisions`), and the job it has just created or found is there or
its event is still to come. It holds because every event queues the key, so
that a worker that has been overtaken finds its key queued. `RestInv`: the
resting states are those of `QuietOrFailed`, and of `QuietIsSettled` where
`AlwaysBuilds`. A step into rest ends a reconcile, and each return without a
requeue is then looked at: a write that changed the object leaves the informer
behind, which is no rest; one that changed nothing, or no write, leaves what
`AwakeInv` says the worker saw. Two facts of `StatusInv` are needed, that a
recorded hash comes with a job's name and that the name is of a job that was
created. `IInv` is `RunInv /\ MemoryInv /\ BareInv /\ LastInv /\ WakeInv`; the
run `recreated` checks it, and `Invariance` proves it.

`NoLostWakeup` has a hypothesis on the constants, `AlwaysBuilds`: no spec
names an engine without a backend, and the git secret stays. It is what the
code needs (the hazard at `common.go:72`): where a job cannot be built,
`updateStatus` returns neither an error nor a timer, and the key rests until
the ten-hour resync with nothing started. The runs that check `QuietIsSettled`
meet it. `RestExplained` needs no hypothesis. `DestroyDone` follows from `SeenInv`:
a destroy job that exists and is not in the informer yet has an event still to
come, so the wait of `finalizer_waits` is cut short for want of that event alone.

*Limits.* `DestroyValid` and `ApplyValid` reduce what the API server takes to
the run's name (55 and 63 characters) and the TTL; `TTLRange` says what
`getTTL` makes of a number, the wrap past 31 bits included, for every width.
The lemma `OnlyValid` says that no job is there that the API server refuses, which
is how the model has the API server. With it and the
order of deletion, `NeverGoes` is the finding of `stuck_deletion` for every
schedule and every value of the constants: such a run keeps its finalizer, and
so its deletion never ends; `CompletesInVain` draws the conclusion for
`DeletionCompletes`.

*Claims.* Two findings are shown to need what their runs have. `FirstOwn`: the
first object of a name goes only after its own destroy job, since there is no
predecessor the job it found could be of; with one incarnation that is
`OwnDestroyFirst`. `LastHashTrue`: in a run that was edited once at most, and
whose jobs can be built, `lastSpecHash` is the hash of the spec run last. Both it
and `RestApplied`, the safety half of `LastSpecApplied`, put `NoLostWakeup` and
`RecordTrue` together: where the controller rests it has recorded the spec at
hand or still has a job to hear of, and what it recorded is what ran last.

*Only model-checked*: `LastSpecApplied` and `DeletionCompletes`, as liveness
under fairness is beyond the prover. That two run ids have different job names
when the name leaves room for both is so in the runs' instances and is not
proved: `Digits` is a recursive function, and no installed prover can do the
induction that says what it computes.

## What is not modelled

* The engines' command lines and the pod template: functions from a spec to a
  command and a volume list, which the controller does not read. A pod may
  succeed or fail whatever its command; that `terraform apply` runs without
  `-auto-approve` is therefore not in the model.
* Manifests, `dist/`, `hack/` and generated code. Of the manifests the model
  assumes that RBAC allows every call, and takes the schema's defaults.
* The webhook's admission of the controller's own updates, and a webhook that
  is turned on while runs are stored: the runs here have it off, as
  `ENABLE_WEBHOOKS` is by default in the deployed manager.
* Two runs of one namespace whose long names agree as far as a job's name goes:
  one run's name is modelled, and with it the cut of its own jobs' names.
* The clock between two readings of it: `handleIntervalRun` tests the time and
  then computes the timer (`tfrun_controller.go:288`), and when the interval
  elapses in between there is none. The model takes both for one reading, and
  sets a timer wherever the interval has not elapsed.
* The host in a spec's Scalr backend: one Scalr is modelled, and an edit of the
  host, to which the DELETE would then go, is not.
* Lost replies of the API server to writes that took effect, which are lost
  updates to the controller, and writes of the run's metadata alone.
* Two managers at once: leader election is taken to keep one.
* Deletion of an object by force, or edits of the status and the finalizers
  by users.

## Plan

1. *Core* (done): the controller in its cluster, the promise, the findings,
   type correctness, the order of deletion and the refinement proved.
2. *Job building* (done): which specs a job can be built from, `getTTL` with
   its width, `buildJobName` with its cut, and what the API server refuses.
3. *Scalr service* (done): workspaces with names and environments, an edited
   backend, and whose workspace is deleted.
4. *Statuses* (done): the status of every copy in the invariant, and the
   recorded workspace.
5. *Webhook* (open): runs with the webhook on, where `short` cannot be stored; the
   deployed manager has it off, so nothing above depends on it.
6. *Wakeups* (done): `QuietIsSettled` proved, and `QuietOrFailed` where it
   cannot hold.
7. *Limits* (done): the finding of `stuck_deletion` for all constants.
8. *The last job* (done): the recorded hash is the last job's, and how far the
   claims that `adopted_destroy` and `reverted_edit` refute are true.
