---------------------------- MODULE TfRunWakeProofs ----------------------------
(***************************************************************************)
(* WakeInv is inductive together with RunInv: no wakeup is lost.  A step   *)
(* that ends a reconcile without a requeue or a timer is followed from the *)
(* copy it decided on, over what the informers have heard meanwhile, to    *)
(* the stored run and jobs: whatever moved them is still to be heard of.   *)
(***************************************************************************)
EXTENDS TfRunLastProofs

(* At most one job changes, and the informer has its event to come.        *)
Told ==
  /\ jobCache' = jobCache
  /\ \/ UNCHANGED <<jobs, jobLag>>
     \/ \E name \in JobNames :
          /\ jobs' = [jobs EXCEPT ![name] = jobs'[name]]
          /\ Exists(jobs'[name]) \/ jobs'[name] = NoJob
          /\ jobLag' = jobLag \cup {name}

(* The informers have heard everything, and nothing says otherwise.        *)
CaughtUp ==
  /\ ~queued /\ jobLag = {} /\ Exists(obj)
  /\ cache = obj /\ fresh /\ SameDecisions

(* The step ends with what is stored as it was, and that is what it saved. *)
RestsWith(st) == CaughtUp /\ UNCHANGED <<obj, jobs>> /\ st = obj.status

QuietGood == QuietOrFailed /\ (AlwaysBuilds => QuietIsSettled)

-----------------------------------------------------------------------------
(* The jobs and their informer.                                            *)
LEMMA ToldKeeps ==
  ASSUME TypeInv, Told
  PROVE  /\ jobLag \subseteq jobLag'
         /\ \A name \in JobNames \ jobLag' : jobs'[name] = jobs[name]
         /\ jobLag' = {} => jobs' = jobs
<1>1. jobs \in [JobNames -> Job]
  BY DEF TypeInv, TypeOK
<1>2. CASE UNCHANGED <<jobs, jobLag>>
  BY <1>2
<1>3. ASSUME NEW name \in JobNames, jobs' = [jobs EXCEPT ![name] = jobs'[name]],
             jobLag' = jobLag \cup {name}
      PROVE  /\ jobLag \subseteq jobLag' /\ jobLag' # {}
             /\ \A n \in JobNames \ jobLag' : jobs'[n] = jobs[n]
  BY <1>1, <1>3
<1> QED
  BY <1>2, <1>3 DEF Told

LEMMA ToldSeen ==
  ASSUME TypeInv, SeenInv, Told
  PROVE  SeenInv'
<1>1. jobs \in [JobNames -> Job]
  BY DEF TypeInv, TypeOK
<1>2. ASSUME NEW name \in JobNames
      PROVE  /\ name \notin jobLag' => jobCache'[name] = jobs'[name]
             /\ ~Exists(jobs'[name]) => jobs'[name] = NoJob
  <2>1. name \notin jobLag' => jobCache'[name] = jobs'[name]
    BY ToldKeeps DEF SeenInv, Told
  <2>2. jobs'[name] = jobs[name] \/ Exists(jobs'[name]) \/ jobs'[name] = NoJob
    BY <1>1 DEF Told
  <2> QED
    BY <2>1, <2>2 DEF SeenInv
<1> QED
  BY <1>2 DEF SeenInv

LEMMA JobStepTold ==
  ASSUME TypeInv, NEW name \in JobNames, NEW job, JobStep(name, job),
         Exists(job) \/ job = NoJob
  PROVE  Told
<1>1. jobs \in [JobNames -> Job]
  BY DEF TypeInv, TypeOK
<1>2. jobs' = [jobs EXCEPT ![name] = job] /\ jobLag' = jobLag \cup {name}
        /\ jobCache' = jobCache
  BY DEF JobStep
<1>3. jobs'[name] = job
  BY <1>1, <1>2
<1> QED
  BY <1>2, <1>3 DEF Told

LEMMA StoreTold ==
  ASSUME TypeInv, pc # "idle", NEW name \in JobNames, Store(name), jobCache' = jobCache
  PROVE  Told
<1>1. jobs \in [JobNames -> Job] /\ Exists(my)
  BY DEF TypeInv, TypeOK
<1>2. jobs' = [jobs EXCEPT ![name] = NewJob(my.uid, my.spec.hash)]
        /\ jobLag' = jobLag \cup {name}
  BY DEF Store
<1>3. jobs'[name] = NewJob(my.uid, my.spec.hash)
  BY <1>1, <1>2
<1>4. Exists(NewJob(my.uid, my.spec.hash))
  BY <1>1 DEF NewJob, Exists
<1> QED
  BY <1>2, <1>3, <1>4 DEF Told

LEMMA ClusterTold ==
  ASSUME TypeInv, Cluster
  PROVE  Told
<1>1. jobs \in [JobNames -> Job]
  BY DEF TypeInv, TypeOK
<1>2. PICK name \in JobNames : \/ StartPod(name) \/ PodSucceeds(name) \/ PodFails(name)
                               \/ ExpireJob(name) \/ CollectJob(name)
  BY DEF Cluster
<1>3. Exists(jobs[name]) /\ jobs[name] \in Job
  BY <1>1, <1>2 DEF StartPod, PodSucceeds, PodFails, ExpireJob, CollectJob, JobStep
<1>4. CASE StartPod(name)
  <2>1. Exists([jobs[name] EXCEPT !.active = 1])
    BY <1>3 DEF Exists, Job
  <2> QED
    BY <1>4, <2>1, JobStepTold DEF StartPod
<1>5. CASE PodSucceeds(name)
  <2>1. Exists([jobs[name] EXCEPT !.active = 0, !.succeeded = 1])
    BY <1>3 DEF Exists, Job
  <2> QED
    BY <1>5, <2>1, JobStepTold DEF PodSucceeds
<1>6. CASE PodFails(name)
  <2>1. Exists([jobs[name] EXCEPT !.active = 0, !.failed = @ + 1])
    BY <1>3 DEF Exists, Job
  <2> QED
    BY <1>6, <2>1, JobStepTold DEF PodFails
<1>7. CASE ExpireJob(name) \/ CollectJob(name)
  BY <1>7, JobStepTold DEF ExpireJob, CollectJob
<1> QED
  BY <1>2, <1>4, <1>5, <1>6, <1>7

LEMMA ReconcileTold ==
  ASSUME TypeInv, Reconcile
  PROVE  Told
<1>1. CASE UNCHANGED <<jobs, jobLag, jobCache>>
  BY <1>1 DEF Told
<1>2. ASSUME NEW hash \in Hashes, createNewJob(hash), pc = "jobs", UNCHANGED outside
      PROVE  Told
  <2>1. buildJobName(BuildRunID(my.gen, hash)) \in JobNames
    BY <1>2, BusyTypes, RunIDTypes
  <2>2. UNCHANGED jobVars \/ Store(buildJobName(BuildRunID(my.gen, hash)))
    BY <1>2 DEF createNewJob
  <2> QED
    BY <1>1, <1>2, <2>1, <2>2, StoreTold DEF jobVars, outside
<1>3. CASE RunSpecChange \/ RunPending \/ RunInterval
  <2>1. pc = "jobs" /\ UNCHANGED outside
    BY <1>3 DEF RunSpecChange, RunPending, RunInterval
  <2>2. my.spec.hash \in Hashes /\ my.status.pendingHash \in Hashes \cup {NoHash}
    BY <2>1, BusyTypes DEF Status
  <2>3. \E hash \in Hashes : createNewJob(hash)
    BY <1>3, <2>2 DEF RunSpecChange, RunPending, RunInterval, PendingExists, computeSpecHash
  <2> QED
    BY <1>2, <2>1, <2>3
<1>4. CASE CreateDestroyJob
  <2>1. pc # "idle" /\ jobCache' = jobCache /\ DestroyName \in JobNames
    BY <1>4 DEF CreateDestroyJob, outside, JobNames
  <2>2. UNCHANGED jobVars \/ Store(DestroyName)
    BY <1>4 DEF CreateDestroyJob
  <2> QED
    BY <1>1, <2>1, <2>2, StoreTold DEF jobVars
<1>5. CASE ~(RunSpecChange \/ RunPending \/ RunInterval \/ CreateDestroyJob)
  <2>1. UNCHANGED <<jobVars, outside>>
    BY <1>5 DEF Reconcile, Begin, EnsureFinalizer, SkipWorkspace, VerifyWorkspace,
       WorkspaceLost, ReconcileWorkspace, SaveWorkspace, DeferSpecChange, WaitForJob,
       RecordCompletion, NoIntervalRun, RecordJob, AdoptJob, CannotDestroy,
       AdoptDestroyJob, RecordDestroyJob, FinishDestroy, AwaitDestroyJob,
       CleanupWorkspace, RemoveFinalizer
  <2> QED
    BY <1>1, <2>1 DEF jobVars, outside
<1> QED
  BY <1>3, <1>4, <1>5

LEMMA SeenStep ==
  ASSUME TypeInv, SeenInv, [Next]_vars
  PROVE  SeenInv'
<1>1. CASE Reconcile
  BY <1>1, ReconcileTold, ToldSeen
<1>2. CASE Cluster
  BY <1>2, ClusterTold, ToldSeen
<1>3. CASE UNCHANGED <<jobs, jobLag, jobCache>>
  BY <1>3 DEF SeenInv
<1>4. CASE Restart
  BY <1>4 DEF Restart, SeenInv
<1>5. ASSUME NEW name \in JobNames, SyncJob(name)
      PROVE  SeenInv'
  <2>1. jobCache \in [JobNames -> Job]
    BY DEF TypeInv, TypeOK
  <2>2. /\ jobCache' = [jobCache EXCEPT ![name] = jobs[name]]
        /\ jobLag' = jobLag \ {name} /\ jobs' = jobs
    BY <1>5 DEF SyncJob
  <2> QED
    BY <2>1, <2>2 DEF SeenInv
<1>6. CASE Users \/ Surroundings \/ SyncRun \/ TimerFires \/ Resync \/ UNCHANGED vars
  BY <1>3, <1>6 DEF Users, UserDelete, UserCreate, UserEdit, Surroundings,
     WorkspaceVanishes, SecretVanishes, SecretReturns, Tick, SyncRun, TimerFires, Resync,
     vars, jobVars, outside
<1> QED
  BY <1>1, <1>2, <1>4, <1>5, <1>6 DEF Next, Manager

-----------------------------------------------------------------------------
(* A busy worker whose key is not queued has missed nothing.               *)
LEMMA Waits ==
  ASSUME TypeInv, AwakeInv, Told, UNCHANGED <<pc, my, target, cache>>,
         queued => queued', cacheFresh' => cacheFresh /\ fresh' = fresh
  PROVE  AwakeInv'
<1> SUFFICES ASSUME pc # "idle", ~queued
             PROVE  AwakeInv'
  BY DEF AwakeInv
<1>1. cacheFresh' => fresh' /\ SameDecisions'
  BY DEF AwakeInv, SameDecisions
<1>2. pc = "record" => buildJobName(target) \in jobLag'
  BY ToldKeeps DEF AwakeInv
<1>3. pc = "destroyRecord" => DestroyName \in jobLag'
  BY ToldKeeps DEF AwakeInv
<1>4. ASSUME pc = "adopt", buildJobName(target) \notin jobLag'
      PROVE  /\ Exists(jobs'[buildJobName(target)])
             /\ SpecChanged \/ my.status.activeJob # buildJobName(target)
  <2>1. buildJobName(target) \in JobNames /\ buildJobName(target) \notin jobLag
    BY <1>4, NameTypes, ToldKeeps DEF TypeInv
  <2>2. jobs'[buildJobName(target)] = jobs[buildJobName(target)]
    BY <1>4, <2>1, ToldKeeps
  <2> QED
    BY <1>4, <2>1, <2>2 DEF AwakeInv
<1>5. SpecChanged' <=> SpecChanged
  BY DEF SpecChanged
<1> QED
  BY <1>1, <1>2, <1>3, <1>4, <1>5 DEF AwakeInv

(* The worker goes on with a copy that decides like the one it had.        *)
Alike ==
  /\ my'.spec = my.spec
  /\ my'.deleting = my.deleting /\ my'.finalizer = my.finalizer
  /\ my'.status.activeJob = my.status.activeJob
  /\ my'.status.lastHash = my.status.lastHash

LEMMA GoesOn ==
  ASSUME AwakeInv, pc # "idle", Alike, UNCHANGED <<cache, fresh, queued>>,
         cacheFresh' => cacheFresh,
         pc' \notin {"record", "adopt", "destroyRecord", "deletion"}
  PROVE  AwakeInv'
BY DEF AwakeInv, SameDecisions, Alike

LEMMA SavesAwake ==
  ASSUME NEW st, StatusStored(st) \/ UNCHANGED store
  PROVE  cacheFresh' => cacheFresh
BY DEF StatusStored, store

LEMMA ReturnAwake ==
  ASSUME NEW requeue, NEW after, Return(requeue, after)
  PROVE  AwakeInv'
BY DEF Return, AwakeInv

LEMMA BeginAwake ==
  ASSUME BaseInv, AwakeInv, Begin \/ EnsureFinalizer
  PROVE  AwakeInv'
<1>1. CASE Begin /\ ~Exists(cache)
  BY <1>1 DEF Begin, reconcileVars, AwakeInv
<1>2. CASE Begin /\ Exists(cache)
  <2>1. /\ my' = cache /\ fresh' = cacheFresh /\ UNCHANGED <<cache, cacheFresh>>
        /\ pc' \in {"addFinalizer", "workspace", "deletion"}
    BY <1>2 DEF Begin, AfterFinalizer, outside, store
  <2> QED
    BY <2>1 DEF AwakeInv, SameDecisions
<1>3. CASE EnsureFinalizer /\ fresh
  <2>1. cacheFresh' = FALSE /\ pc' \in {"workspace", "deletion"}
    BY <1>3 DEF EnsureFinalizer, Goto, AfterFinalizer
  <2> QED
    BY <2>1 DEF AwakeInv
<1>4. CASE EnsureFinalizer /\ ~fresh
  BY <1>4, ReturnAwake DEF EnsureFinalizer
<1> QED
  BY <1>1, <1>2, <1>3, <1>4

(* The workspace's outcome changes nothing that is decided on later.       *)
LEMMA WorkspaceAlike ==
  ASSUME TypeInv,
         \/ my' = my \/ my' = WorkspaceFailed \/ my' = WorkspacePending
         \/ \E id \in 0..MaxWs : my' = WorkspaceReady(id)
         \/ my' = [my EXCEPT !.status.phase = "Failed", !.status.wsReady = FALSE,
                             !.status.wsID = 0]
         \/ my' = [my EXCEPT !.status.activeDestroy = FALSE]
  PROVE  Alike
<1>1. my \in Run /\ my.status \in Status
  BY Sizes
<1>2. CASE my' = my
  BY <1>2 DEF Alike
<1>3. CASE my' = WorkspaceFailed
  BY <1>1, <1>3 DEF WorkspaceFailed, Alike, Run, Status
<1>4. CASE my' = WorkspacePending
  BY <1>1, <1>4 DEF WorkspacePending, Alike, Run, Status
<1>5. ASSUME NEW id \in 0..MaxWs, my' = WorkspaceReady(id)
      PROVE  Alike
  BY <1>1, <1>5 DEF WorkspaceReady, Alike, Run, Status
<1>6. CASE my' = [my EXCEPT !.status.phase = "Failed", !.status.wsReady = FALSE,
                            !.status.wsID = 0]
  BY <1>1, <1>6 DEF Alike, Run, Status
<1>7. CASE my' = [my EXCEPT !.status.activeDestroy = FALSE]
  BY <1>1, <1>7 DEF Alike, Run, Status
<1> QED
  BY <1>3, <1>4, <1>5, <1>6, <1>7, <1>2

LEMMA WorkspaceAwake ==
  ASSUME BaseInv, TypeInv', AwakeInv,
         SkipWorkspace \/ VerifyWorkspace \/ WorkspaceLost \/ ReconcileWorkspace
           \/ SaveWorkspace
  PROVE  AwakeInv'
<1> USE DEF BaseInv
<1>1. CASE SkipWorkspace
  <2>1. UNCHANGED <<my, cache, cacheFresh, fresh, queued>> /\ pc # "idle" /\ pc' = "jobs"
    BY <1>1 DEF SkipWorkspace, Goto, queue, outside, store
  <2> QED
    BY <2>1, GoesOn DEF Alike
<1>2. CASE VerifyWorkspace
  <2>1. /\ UNCHANGED <<cache, cacheFresh, fresh, queued>> /\ pc # "idle"
        /\ pc' \in {"jobs", "workspaceLost"}
    BY <1>2 DEF VerifyWorkspace, Goto, queue, outside, store
  <2>2. \/ my' = my \/ my' = WorkspaceFailed
        \/ my' = [my EXCEPT !.status.phase = "Failed", !.status.wsReady = FALSE,
                            !.status.wsID = 0]
    BY <1>2 DEF VerifyWorkspace, WorkspaceFailed
  <2> QED
    BY <2>1, <2>2, WorkspaceAlike, GoesOn
<1>3. CASE WorkspaceLost
  BY <1>3, ReturnAwake DEF WorkspaceLost
<1>4. CASE ReconcileWorkspace
  <2>1. /\ UNCHANGED <<cache, cacheFresh, fresh, queued>> /\ pc # "idle"
        /\ pc' = "workspaceSave"
    BY <1>4 DEF ReconcileWorkspace, Goto, queue, outside, store
  <2>2. /\ MaxWs \in Nat /\ wsCount \in 0..MaxWs /\ wsCount' \in 0..MaxWs
        /\ ImportID \in 0..MaxWs
    <3>1. MaxWs \in Nat /\ wsCount \in 0..MaxWs /\ wsCount' \in 0..MaxWs
      BY BoundsAssumption DEF TypeInv, TypeOK
    <3>2. ImportID \in 0..Len(Existing) /\ Len(Existing) \in Nat /\ Len(Existing) <= MaxWs
      BY Sizes, WorkspaceAssumption
    <3> QED
      BY <3>1, <3>2
  <2>3. \/ my' = WorkspaceFailed \/ my' = WorkspacePending
        \/ \E id \in 0..MaxWs : my' = WorkspaceReady(id)
    BY <1>4, <2>2 DEF ReconcileWorkspace, importScalrWorkspace, CreateScalrWorkspace
  <2> QED
    BY <2>1, <2>3, WorkspaceAlike, GoesOn
<1>5. CASE SaveWorkspace
  <2>1. CASE UNCHANGED store /\ Return(TRUE, FALSE)
    BY <2>1, ReturnAwake
  <2>2. CASE StatusStored(my.status) /\ Goto("jobs") /\ UNCHANGED <<my, fresh, target>>
    <3>1. /\ cacheFresh' => cacheFresh
          /\ UNCHANGED <<my, cache, fresh, queued>> /\ pc # "idle" /\ pc' = "jobs"
      BY <1>5, <2>2, SavesAwake DEF SaveWorkspace, Goto, queue, outside
    <3> QED
      BY <3>1, GoesOn DEF Alike
  <2> QED
    BY <1>5, <2>1, <2>2 DEF SaveWorkspace
<1> QED
  BY <1>1, <1>2, <1>3, <1>4, <1>5

(* The job that createNewJob stores is still to be heard of.  The one it   *)
(* finds is there, and if its own event is not still to come the informer  *)
(* had it when it was looked for.                                          *)
LEMMA CreateNewJobAwake ==
  ASSUME BaseInv, SeenInv, AwakeInv, pc = "jobs", NEW hash \in Hashes, createNewJob(hash),
         UNCHANGED <<scalr, outside>>, SpecChanged \/ ~Exists(ActiveJob)
  PROVE  AwakeInv'
<1> USE DEF BaseInv
<1> DEFINE runID == BuildRunID(my.gen, hash)
           name == buildJobName(runID)
<1>1. name \in JobNames /\ name # NoName
  BY BusyTypes, RunIDTypes, ApplyNamed
<1> HIDE DEF name, runID
<1>2. CASE \E requeue, after \in BOOLEAN : Return(requeue, after)
  BY <1>2, ReturnAwake
<1>3. CASE /\ Exists(jobs[name]) /\ target' = runID /\ Goto("adopt")
           /\ UNCHANGED <<store, jobVars, my, fresh>>
  <2>1. pc' = "adopt" /\ buildJobName(target') = name
          /\ UNCHANGED <<cacheFresh, cache, my, fresh, queued, jobs, jobLag>>
    BY <1>3 DEF Goto, queue, store, jobVars, outside, name
  <2>2. name \notin jobLag /\ my.status.activeJob = name => Exists(ActiveJob)
    BY <1>1, <1>3 DEF SeenInv, ActiveJob
  <2>3. name \in jobLag \/ (Exists(jobs[name]) /\ (SpecChanged \/ my.status.activeJob # name))
    BY <1>3, <2>2
  <2>4. SpecChanged' <=> SpecChanged
    BY <2>1 DEF SpecChanged
  <2>5. SameDecisions => SameDecisions'
    BY <2>1 DEF SameDecisions
  <2>6. ~queued /\ cacheFresh => fresh /\ SameDecisions
    BY DEF AwakeInv
  <2> QED
    BY <2>1, <2>3, <2>4, <2>5, <2>6 DEF AwakeInv
<1>4. CASE Store(name) /\ target' = runID /\ Goto("record") /\ UNCHANGED <<store, my, fresh>>
  <2>1. pc' = "record" /\ buildJobName(target') = name /\ name \in jobLag'
          /\ UNCHANGED <<cacheFresh, cache, my, fresh, queued>>
    BY <1>4 DEF Goto, queue, store, outside, name, Store
  <2>2. SameDecisions => SameDecisions'
    BY <2>1 DEF SameDecisions
  <2>3. ~queued /\ cacheFresh => fresh /\ SameDecisions
    BY DEF AwakeInv
  <2> QED
    BY <2>1, <2>2, <2>3 DEF AwakeInv
<1> QED
  BY <1>2, <1>3, <1>4 DEF createNewJob, SaveThenReturn, name, runID

LEMMA JobsAwake ==
  ASSUME BaseInv, SeenInv, AwakeInv,
         \/ DeferSpecChange \/ WaitForJob \/ RecordCompletion
         \/ RunSpecChange \/ RunPending \/ RunInterval \/ NoIntervalRun
         \/ RecordJob \/ AdoptJob
  PROVE  AwakeInv'
<1>1. CASE RunSpecChange \/ RunPending \/ RunInterval
  <2>1. pc = "jobs" /\ UNCHANGED <<scalr, outside>>
    BY <1>1 DEF RunSpecChange, RunPending, RunInterval
  <2>2. my.spec.hash \in Hashes /\ my.status.pendingHash \in Hashes \cup {NoHash}
    BY <2>1, BusyTypes DEF BaseInv, Status
  <2>3. \E hash \in Hashes : createNewJob(hash)
    BY <1>1, <2>2 DEF RunSpecChange, RunPending, RunInterval, PendingExists, computeSpecHash
  <2>4. SpecChanged \/ ~Exists(ActiveJob)
    BY <1>1 DEF RunSpecChange, RunPending, RunInterval
  <2> QED
    BY <2>1, <2>3, <2>4, CreateNewJobAwake
<1>2. CASE DeferSpecChange \/ WaitForJob \/ RecordCompletion \/ NoIntervalRun
           \/ RecordJob \/ AdoptJob
  BY <1>2, ReturnAwake DEF DeferSpecChange, WaitForJob, RecordCompletion, NoIntervalRun,
     RecordJob, AdoptJob, SaveThenReturn
<1> QED
  BY <1>1, <1>2

LEMMA DeletionAwake ==
  ASSUME BaseInv, AwakeInv,
         \/ CannotDestroy \/ AdoptDestroyJob \/ CreateDestroyJob \/ RecordDestroyJob
         \/ FinishDestroy \/ AwaitDestroyJob \/ CleanupWorkspace \/ RemoveFinalizer
  PROVE  AwakeInv'
<1> USE DEF BaseInv
<1>1. CASE \E requeue, after \in BOOLEAN : Return(requeue, after)
  BY <1>1, ReturnAwake
<1>2. CASE CannotDestroy \/ AdoptDestroyJob \/ RecordDestroyJob \/ AwaitDestroyJob
           \/ RemoveFinalizer
  BY <1>1, <1>2, ReturnAwake DEF CannotDestroy, AdoptDestroyJob, RecordDestroyJob,
     AwaitDestroyJob, RemoveFinalizer, SaveThenReturn
<1>3. CASE CreateDestroyJob
  <2>1. CASE Store(DestroyName) /\ Goto("destroyRecord")
               /\ UNCHANGED <<store, last, my, fresh, target>>
    <3>1. /\ pc' = "destroyRecord" /\ DestroyName \in jobLag' /\ pc # "idle"
          /\ UNCHANGED <<cacheFresh, cache, my, fresh, queued>>
      BY <1>3, <2>1 DEF CreateDestroyJob, Goto, queue, store, outside, Store
    <3>2. SameDecisions => SameDecisions'
      BY <3>1 DEF SameDecisions
    <3>3. ~queued /\ cacheFresh => fresh /\ SameDecisions
      BY <3>1 DEF AwakeInv
    <3> QED
      BY <3>1, <3>2, <3>3 DEF AwakeInv
  <2> QED
    BY <1>1, <1>3, <2>1 DEF CreateDestroyJob
<1>4. CASE FinishDestroy
  <2>1. /\ my' = [my EXCEPT !.status.activeDestroy = FALSE]
        /\ UNCHANGED <<cache, fresh, queued>> /\ pc # "idle" /\ pc' = "cleanup"
    BY <1>4 DEF FinishDestroy, Goto, queue, outside
  <2>2. cacheFresh' => cacheFresh
    BY <1>4, SavesAwake DEF FinishDestroy, SaveIgnoringError
  <2> QED
    BY <2>1, <2>2, WorkspaceAlike, GoesOn
<1>5. CASE CleanupWorkspace
  <2>1. CASE Goto("removeFinalizer") /\ UNCHANGED <<my, fresh>>
    <3>1. /\ pc # "idle" /\ pc' = "removeFinalizer"
          /\ UNCHANGED <<cacheFresh, cache, my, fresh, queued>>
      BY <1>5, <2>1 DEF CleanupWorkspace, Goto, queue, store, outside
    <3> QED
      BY <3>1, GoesOn DEF Alike
  <2> QED
    BY <1>1, <1>5, <2>1 DEF CleanupWorkspace, deleteRemoteWorkspace
<1> QED
  BY <1>2, <1>3, <1>4, <1>5

LEMMA OthersAwake ==
  ASSUME TypeInv, AwakeInv, Users \/ Manager \/ Cluster \/ Surroundings \/ UNCHANGED vars
  PROVE  AwakeInv'
<1>1. CASE Users
  <2>1. /\ UNCHANGED <<pc, my, target, cache, queued>> /\ cacheFresh' = FALSE
        /\ UNCHANGED <<jobs, jobLag, jobCache>>
    BY <1>1 DEF Users, UserDelete, UserCreate, UserEdit, Written, jobVars, outside, queue
  <2> QED
    BY <2>1, Waits DEF Told
<1>2. CASE Cluster
  <2>1. UNCHANGED <<pc, my, target, cache, queued, cacheFresh, fresh>>
    BY <1>2 DEF Cluster, StartPod, PodSucceeds, PodFails, ExpireJob, CollectJob, JobStep,
       reconcileVars, queue, store
  <2> QED
    BY <1>2, <2>1, ClusterTold, Waits
<1>3. CASE Surroundings \/ UNCHANGED vars
  <2>1. /\ UNCHANGED <<pc, my, target, cache, queued, cacheFresh, fresh>>
        /\ UNCHANGED <<jobs, jobLag, jobCache>>
    BY <1>3 DEF Surroundings, WorkspaceVanishes, SecretVanishes, SecretReturns, Tick,
       vars, reconcileVars, queue, store, jobVars, outside
  <2> QED
    BY <2>1, Waits DEF Told
<1>4. CASE Manager
  BY <1>4 DEF Manager, SyncRun, SyncJob, TimerFires, Resync, Restart, AwakeInv
<1> QED
  BY <1>1, <1>2, <1>3, <1>4

LEMMA AwakeStep ==
  ASSUME BaseInv, TypeInv', SeenInv, AwakeInv, [Next]_vars
  PROVE  AwakeInv'
BY BeginAwake, WorkspaceAwake, JobsAwake, DeletionAwake, OthersAwake
   DEF BaseInv, Next, Reconcile

-----------------------------------------------------------------------------
(* What is at rest is settled.                                             *)
LEMMA StillGood ==
  ASSUME QuietGood, UNCHANGED <<obj, jobs>>, Quiet' => Quiet
  PROVE  QuietGood'
BY DEF QuietGood, QuietOrFailed, QuietIsSettled, UpToDate

(* A reconcile that rests after it has returned had caught up, and wrote   *)
(* nothing new.                                                            *)
LEMMA ReturnQuiet ==
  ASSUME TypeInv, CoreInv, AwakeInv, pc # "idle", UNCHANGED <<jobs, jobLag>>,
         NEW requeue \in BOOLEAN, NEW after \in BOOLEAN, Return(requeue, after),
         NEW st, StatusStored(st) \/ UNCHANGED store, Quiet'
  PROVE  /\ ~requeue /\ ~after /\ CaughtUp
         /\ UNCHANGED <<obj, jobs>> /\ (StatusStored(st) => st = obj.status)
<1>1. ~requeue /\ ~after /\ ~queued /\ jobLag = {} /\ cacheFresh' /\ Exists(obj')
  BY DEF Return, Quiet
<1>2. cacheFresh
  BY <1>1, SavesAwake
<1>3. fresh /\ SameDecisions /\ cache = obj
  BY <1>1, <1>2 DEF AwakeInv, CoreInv, CopyInv
<1>4. StatusStored(st) => st = obj.status
  BY <1>1 DEF StatusStored
<1>5. obj \in Run
  BY Sizes
<1>6. obj' = obj
  BY <1>4, <1>5 DEF StatusStored, store, Run
<1> QED
  BY <1>1, <1>3, <1>4, <1>6 DEF CaughtUp

LEMMA SaveReturnQuiet ==
  ASSUME TypeInv, CoreInv, AwakeInv, pc # "idle", UNCHANGED <<jobs, jobLag>>,
         NEW current, NEW st, NEW after \in BOOLEAN,
         SaveThenReturn(current, st, after), Quiet'
  PROVE  ~after /\ RestsWith(st)
BY ReturnQuiet DEF SaveThenReturn, RestsWith

LEMMA SavedQuiet ==
  ASSUME TypeInv, CoreInv, AwakeInv, pc # "idle", UNCHANGED <<jobs, jobLag>>,
         NEW current, NEW st, SaveIgnoringError(current, st),
         NEW requeue \in BOOLEAN, NEW after \in BOOLEAN, Return(requeue, after), Quiet'
  PROVE  /\ ~requeue /\ ~after /\ CaughtUp
         /\ UNCHANGED <<obj, jobs>> /\ (current => st = obj.status)
BY ReturnQuiet DEF SaveIgnoringError

(* At rest after a reconcile of a run that was not being deleted.          *)
LEMMA RestsLiving ==
  ASSUME TypeInv, CoreInv, pc \in ApplySteps, CaughtUp, UNCHANGED <<obj, jobs>>,
         \/ UpToDate
         \/ ~AlwaysBuilds /\ obj.status.phase = "Failed"
  PROVE  QuietGood'
<1>1. obj.finalizer /\ ~obj.deleting
  BY DEF CaughtUp, SameDecisions, CoreInv, FinalizerInv
<1>2. UpToDate' <=> UpToDate
  BY DEF UpToDate
<1> QED
  BY <1>1, <1>2 DEF QuietGood, QuietOrFailed, QuietIsSettled

LEMMA BeginRest ==
  ASSUME BaseInv, QuietGood,
         Begin \/ EnsureFinalizer
  PROVE  QuietGood'
<1>1. CASE Begin
  <2>1. CASE Exists(cache)
    BY <1>1, <2>1 DEF Begin, AfterFinalizer, Quiet, QuietGood, QuietOrFailed, QuietIsSettled
  <2>2. CASE ~Exists(cache)
    <3>1. UNCHANGED <<obj, cacheFresh, cache>>
      BY <1>1 DEF Begin, store, outside
    <3>2. ~Quiet'
      BY <2>2, <3>1 DEF Quiet, BaseInv, CoreInv, CopyInv
    <3> QED
      BY <3>2 DEF QuietGood, QuietOrFailed, QuietIsSettled
  <2> QED
    BY <2>1, <2>2
<1>2. CASE EnsureFinalizer
  <2>1. ~Quiet'
    BY <1>2 DEF EnsureFinalizer, Quiet, Return, Goto, AfterFinalizer
  <2> QED
    BY <2>1 DEF QuietGood, QuietOrFailed, QuietIsSettled
<1> QED
  BY <1>1, <1>2

LEMMA Busy ==
  ASSUME ~Quiet'
  PROVE  QuietGood'
BY DEF QuietGood, QuietOrFailed, QuietIsSettled

LEMMA WorkspaceRest ==
  ASSUME SkipWorkspace \/ VerifyWorkspace \/ WorkspaceLost \/ ReconcileWorkspace
           \/ SaveWorkspace
  PROVE  QuietGood'
<1>1. pc' # "idle" \/ Return(TRUE, FALSE)
  BY DEF SkipWorkspace, VerifyWorkspace, WorkspaceLost, ReconcileWorkspace,
         SaveWorkspace, Goto
<1> QED
  BY <1>1, Busy DEF Return, Quiet

(* A job can be built from every stored spec if it can from every one the  *)
(* users submit.                                                           *)
LEMMA Builds ==
  ASSUME AlwaysBuilds, NEW s \in StoredSpecs, ForEngine(s)
  PROVE  BuildJob(s, TRUE)
<1>1. s.engine # "none"
  BY DEF ForEngine
<1>2. CASE s \in Specs
  BY <1>1, <1>2 DEF AlwaysBuilds, BuildJob
<1>3. CASE s \notin Specs
  <2>1. PICK t \in Specs : s = Defaulted(t)
    BY <1>3 DEF StoredSpecs
  <2>2. t \in StoredSpecs
    BY <2>1 DEF StoredSpecs
  <2> QED
    BY <2>1, <2>2, DefaultedTypes DEF BuildJob, Complete
<1> QED
  BY <1>2, <1>3

LEMMA CreateNewJobRest ==
  ASSUME BaseInv, AwakeInv, AlwaysBuilds => gitSecret, pc = "jobs", NEW hash \in Hashes,
         createNewJob(hash)
  PROVE  QuietGood'
<1>1. CASE ~Quiet'
  BY <1>1, Busy
<1>2. CASE Quiet'
  <2> DEFINE st == AsFailed(my.status)
  <2>1. /\ ForEngine(my.spec) /\ ~BuildJob(my.spec, gitSecret)
        /\ SaveThenReturn(fresh, st, FALSE) /\ UNCHANGED <<jobs, jobLag>>
    BY <1>2 DEF createNewJob, Return, Goto, Quiet, jobVars
  <2>2. RestsWith(st)
    BY <1>2, <2>1, SaveReturnQuiet DEF BaseInv
  <2>3. obj.status.phase = "Failed"
    <3>1. my.status \in Status
      BY BusyTypes DEF BaseInv
    <3> QED
      BY <2>2, <3>1 DEF AsFailed, Status, RestsWith
  <2>4. ~AlwaysBuilds
    <3>1. my.spec \in StoredSpecs
      BY DEF BaseInv, TypeInv, TypeOK
    <3> QED
      BY <2>1, <3>1, Builds DEF BuildJob
  <2> QED
    BY <2>2, <2>3, <2>4, RestsLiving DEF BaseInv, ApplySteps, RestsWith
<1> QED
  BY <1>1, <1>2

(* The name the status gives is that of a job, or none.                    *)
LEMMA ActiveName ==
  ASSUME TypeInv, NEW run \in {obj, cache, my}
  PROVE  run.status.activeJob \in JobNames \cup {NoName}
BY Sizes DEF Status

(* handleIntervalRun without anything to do: the job of the last run is    *)
(* recorded and gone.                                                      *)
LEMMA NoIntervalRunRest ==
  ASSUME RunInv, SeenInv, AwakeInv, NoIntervalRun
  PROVE  QuietGood'
<1> USE DEF RunInv, BaseInv
<1>1. CASE ~Quiet'
  BY <1>1, Busy
<1>2. CASE Quiet'
  <2>1. /\ pc = "jobs" /\ ~SpecChanged /\ ~Exists(ActiveJob) /\ UNCHANGED <<jobs, jobLag>>
        /\ \/ SaveThenReturn(fresh, [my.status EXCEPT !.nextRun = 0], FALSE)
           \/ SaveIgnoringError(fresh, AsFailed(my.status)) /\ Return(FALSE, FALSE)
           \/ UNCHANGED store /\ Return(FALSE, my.spec.interval = "valid")
        /\ my.spec.interval = "valid" =>
             UNCHANGED store /\ Return(FALSE, TRUE)
    BY DEF NoIntervalRun, jobVars
  <2>2. CaughtUp /\ UNCHANGED <<obj, jobs>>
    <3>1. CASE SaveThenReturn(fresh, [my.status EXCEPT !.nextRun = 0], FALSE)
      BY <1>2, <2>1, <3>1, SaveReturnQuiet DEF RestsWith
    <3>2. CASE SaveIgnoringError(fresh, AsFailed(my.status)) /\ Return(FALSE, FALSE)
      BY <1>2, <2>1, <3>2, SavedQuiet
    <3>3. CASE UNCHANGED store /\ Return(FALSE, my.spec.interval = "valid")
      BY <1>2, <2>1, <3>3, ReturnQuiet
    <3> QED
      BY <2>1, <3>1, <3>2, <3>3
  <2>3. my.spec.interval # "valid"
    BY <1>2, <2>1 DEF Return, Quiet
  <2>4. /\ obj.spec = my.spec /\ obj.status.lastHash = my.status.lastHash
        /\ obj.status.activeJob = my.status.activeJob
    BY <2>2 DEF CaughtUp, SameDecisions
  <2>5. obj.status.lastHash = computeSpecHash(obj.spec) /\ obj.status.lastHash # NoHash
    <3>1. my.spec.hash \in Hashes
      BY <2>1, BusyTypes
    <3> QED
      BY <2>1, <2>4, <3>1, HashAssumption DEF SpecChanged, computeSpecHash
  <2>6. obj.status.activeJob \in JobNames /\ obj.status.activeJob # NoName
    BY <2>5, ActiveName DEF StatusInv, Honest
  <2>7. jobs[obj.status.activeJob] = NoJob
    <3>1. ~Exists(jobCache[obj.status.activeJob])
      BY <2>1, <2>4, <2>6 DEF ActiveJob
    <3> QED
      BY <2>2, <2>6, <3>1 DEF CaughtUp, SeenInv
  <2>8. UpToDate
    BY <2>3, <2>4, <2>5, <2>6, <2>7, BoundsAssumption DEF UpToDate, Finished, NoJob
  <2> QED
    BY <2>1, <2>2, <2>8, RestsLiving DEF ApplySteps
<1> QED
  BY <1>1, <1>2

(* A job that was found is there; it was looked for because none of that   *)
(* name was seen for the spec, or because the spec had changed.            *)
LEMMA AdoptJobRest ==
  ASSUME BaseInv, AwakeInv, AdoptJob
  PROVE  QuietGood'
<1> USE DEF BaseInv
<1>1. CASE ~Quiet'
  BY <1>1, Busy
<1>2. CASE Quiet'
  <2> DEFINE name == buildJobName(target)
             st == [cache.status EXCEPT !.activeJob = name, !.phase = "Running",
                                        !.observedGen = cache.gen]
  <2>1. pc = "adopt" /\ UNCHANGED <<jobs, jobLag>> /\ SaveThenReturn(cacheFresh, st, FALSE)
    BY <1>2 DEF AdoptJob, jobVars, Return, Quiet
  <2> HIDE DEF name
  <2>2. RestsWith(st)
    BY <1>2, <2>1, SaveReturnQuiet
  <2>3. obj.status.activeJob = name
    <3>1. cache.status \in Status
      BY Sizes
    <3> QED
      BY <2>2, <3>1 DEF Status, RestsWith
  <2>4. name # NoName
    BY <2>1, ApplyNamed DEF name, TypeInv
  <2>5. Exists(jobs[name]) /\ (SpecChanged \/ my.status.activeJob # name)
    BY <2>1, <2>2 DEF AwakeInv, CaughtUp, RestsWith, name
  <2>6. /\ my.status.activeJob = name /\ obj.spec = my.spec
        /\ obj.status.lastHash = my.status.lastHash
    BY <2>2, <2>3 DEF CaughtUp, RestsWith, SameDecisions
  <2>7. UpToDate
    BY <2>3, <2>4, <2>5, <2>6 DEF UpToDate, SpecChanged
  <2> QED
    BY <2>1, <2>2, <2>7, RestsLiving DEF ApplySteps, RestsWith
<1> QED
  BY <1>1, <1>2

LEMMA JobsRest ==
  ASSUME RunInv, SeenInv, AwakeInv, AlwaysBuilds => gitSecret,
         \/ DeferSpecChange \/ WaitForJob \/ RecordCompletion
         \/ RunSpecChange \/ RunPending \/ RunInterval \/ NoIntervalRun
         \/ RecordJob \/ AdoptJob
  PROVE  QuietGood'
<1> USE DEF RunInv
<1>1. CASE RunSpecChange \/ RunPending \/ RunInterval
  <2>1. pc = "jobs"
    BY <1>1 DEF RunSpecChange, RunPending, RunInterval
  <2>2. my.spec.hash \in Hashes /\ my.status.pendingHash \in Hashes \cup {NoHash}
    BY <2>1, BusyTypes DEF BaseInv, Status
  <2>3. \E hash \in Hashes : createNewJob(hash)
    BY <1>1, <2>2 DEF RunSpecChange, RunPending, RunInterval, PendingExists, computeSpecHash
  <2> QED
    BY <2>1, <2>3, CreateNewJobRest
<1>2. CASE DeferSpecChange \/ WaitForJob \/ RecordCompletion
  <2>1. ~Quiet'
    BY <1>2 DEF DeferSpecChange, WaitForJob, RecordCompletion, SaveThenReturn, Return, Quiet
  <2> QED
    BY <2>1, Busy
<1>3. CASE RecordJob
  <2>1. pc = "record" /\ jobLag' = jobLag /\ pc' = "idle" /\ (queued => queued')
    BY <1>3 DEF RecordJob, SaveThenReturn, Return, jobVars
  <2>2. ~Quiet'
    BY <2>1 DEF AwakeInv, Quiet
  <2> QED
    BY <2>2, Busy
<1> QED
  BY <1>1, <1>2, <1>3, NoIntervalRunRest, AdoptJobRest

(* No reconcile of a run that is being deleted rests.                      *)
LEMMA DeletionRest ==
  ASSUME BaseInv, AwakeInv,
         \/ CannotDestroy \/ AdoptDestroyJob \/ CreateDestroyJob \/ RecordDestroyJob
         \/ FinishDestroy \/ AwaitDestroyJob \/ CleanupWorkspace \/ RemoveFinalizer
  PROVE  QuietGood'
<1> USE DEF BaseInv
<1>1. SUFFICES ~Quiet'
  BY Busy
<1>2. CASE CannotDestroy \/ AdoptDestroyJob \/ CreateDestroyJob \/ CleanupWorkspace
           \/ FinishDestroy
  BY <1>2 DEF CannotDestroy, AdoptDestroyJob, CreateDestroyJob, CleanupWorkspace,
     FinishDestroy, deleteRemoteWorkspace, SaveThenReturn, Return, Goto, Quiet
<1>3. CASE RecordDestroyJob
  <2>1. pc = "destroyRecord" /\ jobLag' = jobLag /\ (queued => queued')
    BY <1>3 DEF RecordDestroyJob, SaveThenReturn, Return, jobVars
  <2> QED
    BY <2>1 DEF AwakeInv, Quiet
<1>4. CASE AwaitDestroyJob
  <2> DEFINE st == [my.status EXCEPT !.phase = "Failed", !.activeDestroy = FALSE]
  <2>1. SUFFICES ASSUME Quiet' PROVE FALSE
    OBVIOUS
  <2>2. /\ pc = "deletion" /\ my.status.activeDestroy /\ UNCHANGED <<jobs, jobLag>>
        /\ SaveIgnoringError(fresh, st) /\ Return(FALSE, FALSE)
    BY <1>4, <2>1 DEF AwaitDestroyJob, jobVars, Return, Quiet
  <2>3. my.status \in Status
    BY Sizes
  <2>4. st.activeDestroy = FALSE
    BY <2>3 DEF Status
  <2> HIDE DEF st
  <2>5. CaughtUp /\ (fresh => st = obj.status)
    BY <2>1, <2>2, SavedQuiet
  <2> QED
    BY <2>2, <2>4, <2>5 DEF CaughtUp, SameDecisions
<1>5. CASE RemoveFinalizer
  <2>1. SUFFICES ASSUME Quiet' PROVE FALSE
    OBVIOUS
  <2>2. pc = "removeFinalizer" /\ UNCHANGED <<jobs, jobLag>>
    BY <1>5 DEF RemoveFinalizer, jobVars
  <2>3. CASE ~cache.finalizer /\ UNCHANGED store /\ Return(FALSE, FALSE)
    <3>1. CaughtUp
      BY <2>1, <2>2, <2>3, ReturnQuiet
    <3> QED
      BY <2>2, <2>3, <3>1
         DEF CaughtUp, SameDecisions, CoreInv, FinalizerInv, DeletionSteps
  <2>4. CASE cacheFresh' = FALSE
    BY <2>1, <2>4 DEF Quiet
  <2>5. CASE ~cacheFresh /\ UNCHANGED store
    BY <2>1, <2>5 DEF Quiet, store
  <2> QED
    BY <1>5, <2>3, <2>4, <2>5 DEF RemoveFinalizer
<1> QED
  BY <1>2, <1>3, <1>4, <1>5

LEMMA OthersRest ==
  ASSUME TypeInv, QuietGood, Users \/ Manager \/ Cluster \/ Surroundings \/ UNCHANGED vars
  PROVE  QuietGood'
<1>1. CASE Users
  BY <1>1, Busy DEF Users, UserDelete, UserCreate, UserEdit, Written, Quiet
<1>2. CASE Cluster
  <2>1. jobLag' # {}
    BY <1>2 DEF Cluster, StartPod, PodSucceeds, PodFails, ExpireJob, CollectJob, JobStep
  <2> QED
    BY <2>1, Busy DEF Quiet
<1>3. CASE Manager
  BY <1>3, Busy DEF Manager, SyncRun, SyncJob, TimerFires, Resync, Restart, Quiet
<1>4. CASE Surroundings \/ UNCHANGED vars
  <2>1. UNCHANGED <<obj, jobs, pc, queued, delayed, cacheFresh, jobLag>>
    BY <1>4 DEF Surroundings, WorkspaceVanishes, SecretVanishes, SecretReturns, Tick,
       vars, reconcileVars, queue, store, jobVars
  <2> QED
    BY <2>1, StillGood DEF Quiet
<1> QED
  BY <1>1, <1>2, <1>3, <1>4

LEMMA SecretStep ==
  ASSUME AlwaysBuilds, gitSecret, [Next]_vars
  PROVE  gitSecret'
<1>1. CASE Reconcile
  BY <1>1 DEF Reconcile, Begin, EnsureFinalizer, SkipWorkspace, VerifyWorkspace,
     WorkspaceLost, ReconcileWorkspace, SaveWorkspace, DeferSpecChange, WaitForJob,
     RecordCompletion, RunSpecChange, RunPending, RunInterval, NoIntervalRun, RecordJob,
     AdoptJob, CannotDestroy, AdoptDestroyJob, CreateDestroyJob, RecordDestroyJob,
     FinishDestroy, AwaitDestroyJob, CleanupWorkspace, RemoveFinalizer, outside
<1>2. CASE Users \/ Manager \/ Cluster
  BY <1>2 DEF Users, UserDelete, UserCreate, UserEdit, Manager, SyncRun, SyncJob,
     TimerFires, Resync, Restart, Cluster, StartPod, PodSucceeds, PodFails, ExpireJob,
     CollectJob, JobStep, outside
<1>3. CASE Surroundings
  BY <1>3 DEF Surroundings, WorkspaceVanishes, SecretVanishes, SecretReturns, Tick,
     Fault, AlwaysBuilds, outside
<1>4. CASE UNCHANGED vars
  BY <1>4 DEF vars, outside
<1> QED
  BY <1>1, <1>2, <1>3, <1>4 DEF Next

LEMMA RestStep ==
  ASSUME RunInv, SeenInv, AwakeInv, RestInv, [Next]_vars
  PROVE  RestInv'
<1>1. QuietGood /\ (AlwaysBuilds => gitSecret) /\ BaseInv /\ TypeInv
  BY DEF RestInv, QuietGood, RunInv, BaseInv
<1>2. QuietGood'
  BY <1>1, BeginRest, WorkspaceRest, JobsRest, DeletionRest, OthersRest
     DEF Next, Reconcile
<1>3. AlwaysBuilds => gitSecret'
  BY <1>1, SecretStep
<1> QED
  BY <1>2, <1>3 DEF RestInv, QuietGood
-----------------------------------------------------------------------------
(* The inductive invariant.                                                *)
LEMMA InitWake == Init => WakeInv
<1> SUFFICES ASSUME Init PROVE WakeInv
  OBVIOUS
<1>1. SeenInv
  BY DEF Init, SeenInv, NoJob, Exists
<1>2. AwakeInv /\ ~Quiet /\ gitSecret
  BY NoRunFacts DEF Init, AwakeInv, Quiet
<1> QED
  BY <1>1, <1>2 DEF WakeInv, RestInv, QuietOrFailed, QuietIsSettled

LEMMA NextWake == IInv /\ [Next]_vars => IInv'
<1> SUFFICES ASSUME IInv, [Next]_vars PROVE IInv'
  OBVIOUS
<1>1. /\ RunInv /\ BaseInv /\ TypeInv /\ MemoryInv /\ BareInv /\ LastInv
      /\ SeenInv /\ AwakeInv /\ RestInv
  BY DEF IInv, WakeInv, RunInv, BaseInv
<1>2. RunInv' /\ TypeInv' /\ MemoryInv' /\ BareInv' /\ LastInv'
  BY <1>1, NextStatus, NextMemory, NextBare, NextLast DEF RunInv, BaseInv
<1>3. SeenInv' /\ AwakeInv' /\ RestInv'
  BY <1>1, <1>2, SeenStep, AwakeStep, RestStep
<1> QED
  BY <1>2, <1>3 DEF IInv, WakeInv

(* The copies, the statuses, what they say of the last job and of the      *)
(* workspace, and the worker's knowledge of what is still to be heard of   *)
(* agree as IInv says, at every step.                                      *)
THEOREM Invariance == Spec => []IInv
<1>1. Init => IInv
  BY InitInv, InitStatus, InitMemory, InitBare, InitLast, InitWake
     DEF IInv, RunInv
<1> QED
  BY <1>1, NextWake, PTL DEF Spec

(* No reconcile is the last one before its time: no deletion is left alone *)
(* half way, and no living run but one that is up to date or Failed.       *)
THEOREM RestExplained == Spec => []QuietOrFailed
<1>1. IInv => QuietOrFailed
  BY DEF IInv, WakeInv, RestInv
<1> QED
  BY <1>1, Invariance, PTL

(* Where updateStatus's failure to build a job cannot come, a living run   *)
(* that is left alone is up to date.                                       *)
THEOREM NoLostWakeup == AlwaysBuilds => (Spec => []QuietIsSettled)
<1> SUFFICES ASSUME AlwaysBuilds PROVE Spec => []QuietIsSettled
  OBVIOUS
<1>1. IInv => QuietIsSettled
  BY DEF IInv, WakeInv, RestInv
<1> QED
  BY <1>1, Invariance, PTL

(* handleDestroyJob goes on to the workspace and the finalizer only when   *)
(* the destroy job succeeded or is gone, where the informer has heard all  *)
(* of it: what it takes for the job is then the job (SeenInv).             *)
THEOREM DestroyDone == Spec => DestroyDoneWhereHeard
<1>1. ASSUME SeenInv, Next, pc = "deletion", pc' = "cleanup",
             DestroyName \notin jobLag, Exists(jobs[DestroyName])
      PROVE  isJobSucceeded(jobs[DestroyName]) /\ ~isJobActive(jobs[DestroyName])
  <2>1. FinishDestroy
    <3>1. Reconcile
      BY <1>1 DEF Next, Users, UserDelete, UserCreate, UserEdit, Manager, SyncRun, SyncJob,
         TimerFires, Resync, Restart, Cluster, StartPod, PodSucceeds, PodFails, ExpireJob,
         CollectJob, JobStep, Surroundings, WorkspaceVanishes, SecretVanishes,
         SecretReturns, Tick, reconcileVars
    <3> QED
      BY <1>1, <3>1 DEF Reconcile, Begin, EnsureFinalizer, SkipWorkspace, VerifyWorkspace,
         WorkspaceLost, ReconcileWorkspace, SaveWorkspace, DeferSpecChange, WaitForJob,
         RecordCompletion, RunSpecChange, RunPending, RunInterval, NoIntervalRun, RecordJob,
         AdoptJob, CannotDestroy, AdoptDestroyJob, CreateDestroyJob, RecordDestroyJob,
         AwaitDestroyJob, CleanupWorkspace, RemoveFinalizer, SaveThenReturn, Return, Goto
  <2>2. DestroyName \in JobNames
    BY DEF JobNames, DestroyName
  <2>3. jobCache[DestroyName] = jobs[DestroyName]
    BY <1>1, <2>2 DEF SeenInv
  <2> QED
    BY <1>1, <2>1, <2>3 DEF FinishDestroy, DestroyJobDone
<1>2. IInv /\ [Next]_vars =>
        [pc = "deletion" /\ pc' = "cleanup"
           /\ DestroyName \notin jobLag /\ Exists(jobs[DestroyName]) =>
             isJobSucceeded(jobs[DestroyName]) /\ ~isJobActive(jobs[DestroyName])]_vars
  BY <1>1 DEF IInv, WakeInv
<1> QED
  BY <1>2, Invariance, PTL DEF Spec, DestroyDoneWhereHeard
=============================================================================
