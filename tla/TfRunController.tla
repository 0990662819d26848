--------------------------- MODULE TfRunController ---------------------------
(***************************************************************************)
(* TfRunReconciler: one worker takes the run's key from the work queue and *)
(* runs Reconcile on it.  Reconcile is cut at the calls that leave the     *)
(* process (the API server, the Scalr service, a second read of the        *)
(* informer), because everything else in the cluster may move there and    *)
(* the process may stop there.                                             *)
(*                                                                         *)
(* The manager's client reads TfRuns and Jobs from informer copies and     *)
(* writes to the API server, which refuses a write whose resourceVersion   *)
(* is not the stored one.  A resourceVersion is modelled by whether it is  *)
(* the stored one: cacheFresh for the informer's copy, fresh for the copy  *)
(* the running reconcile holds.                                            *)
(***************************************************************************)
EXTENDS TfRunJobs

CONSTANTS
  UniqueNames,    \* Scalr refuses a second workspace of the same name
  Faults,         \* the kinds of fault that can happen
  MaxFaults       \* bound: how many faults happen

FaultKinds == {"crash", "scalr", "reject", "secret", "vanish", "pod"}

ASSUME FaultAssumption ==
  /\ UniqueNames \in BOOLEAN
  /\ Faults \subseteq FaultKinds
  /\ MaxFaults \in Nat

VARIABLES
  \* the API server, the Job objects, Scalr
  obj,         \* the stored TfRun
  jobs,        \* the stored Job of each name
  remote,      \* the workspaces that exist in Scalr
  gitSecret,   \* the git credentials secret exists
  now,         \* run intervals elapsed
  \* the manager's informers and work queue
  cache,       \* the informer's TfRun
  cacheFresh,  \* its resourceVersion is the stored one
  jobCache,    \* the informer's Jobs
  jobLag,      \* the names whose job has changed since the informer heard
  queued,      \* the key is in the work queue
  delayed,     \* a RequeueAfter timer is running
  \* the running reconcile
  pc,          \* the call it makes next
  my,          \* its tfRun
  fresh,       \* the resourceVersion of my is the stored one
  target,      \* the run id of the job it has just created or found
  \* bounds
  faults, lives, wsCount,
  \* history
  created,     \* every <<uid, name>> of a job that was created
  last         \* the last apply job created: its owner, generation and content

store    == <<obj, cacheFresh>>
jobVars  == <<jobs, jobLag, created, last>>
scalr    == <<remote, wsCount>>
outside  == <<cache, jobCache, gitSecret, now, lives>>
reconcileVars == <<pc, my, fresh, target>>
queue    == <<queued, delayed>>

vars == <<store, jobVars, scalr, outside, reconcileVars, queue, faults>>

Steps == {"idle", "addFinalizer", "workspace", "workspaceSave", "workspaceLost",
          "jobs", "record", "adopt", "deletion", "destroyRecord", "cleanup",
          "removeFinalizer"}

Fault(kind) == kind \in Faults /\ faults < MaxFaults /\ faults' = faults + 1

NoFault == faults' = faults

-----------------------------------------------------------------------------
(* How a reconcile goes on and ends.                                       *)

Goto(step) == pc' = step /\ UNCHANGED queue

(* requeue: an error or Requeue.  after: RequeueAfter.  The rate limit and *)
(* the length of a delay are abstracted.                                   *)
Return(requeue, after) ==
  /\ pc' = "idle" /\ my' = NoRun /\ fresh' = FALSE /\ target' = NoRunID
  /\ queued' = (queued \/ requeue)
  /\ delayed' = (delayed \/ after)

(* A status update the API server accepts.  It may change only the message *)
(* or another abstracted field, hence bump; an update that changes nothing *)
(* keeps the resourceVersion and raises no event.                          *)
StatusStored(st) ==
  /\ obj' = [obj EXCEPT !.status = st]
  /\ \E bump \in BOOLEAN : cacheFresh' = (cacheFresh /\ st = obj.status /\ ~bump)

(* Status().Update of a copy.  A lost compare-and-swap changes nothing.    *)
SaveIgnoringError(current, st) ==
  \/ current /\ StatusStored(st)
  \/ ~current /\ UNCHANGED store

(* Mutant of SaveThenReturn: a patch without a resourceVersion.            *)
SaveThenReturn_patch(current, st, after) == StatusStored(st) /\ Return(FALSE, after)

(* r.updateStatus and the blocks like it: an error is returned, and so the *)
(* key goes back to the queue; success returns without any requeue, or     *)
(* with RequeueAfter where the caller says so.                             *)
SaveThenReturn(current, st, after) ==
  \/ current /\ StatusStored(st) /\ Return(FALSE, after)
  \/ ~current /\ UNCHANGED store /\ Return(TRUE, FALSE)

(* Mutant of AsFailed: the reason is recorded and the phase is not.        *)
AsFailed_unmarked(st) == st

AsFailed(st) == [st EXCEPT !.phase = "Failed"]

(* getCloudBackend, ForProvider: there is an implementation to return.     *)
ForProvider(spec) == spec.backend = "scalr"

-----------------------------------------------------------------------------
(* Reconcile, first part: read the informer's copy, and where it leads.    *)

(* Mutants of AfterFinalizer: a run that is being destroyed goes on as a   *)
(* live one; a live run with a destroy job is taken for a deleted one; a   *)
(* deleted run without an apply job is taken for one with nothing to tear  *)
(* down.                                                                   *)
AfterFinalizer_resumes(run) ==
  IF run.deleting /\ ~run.status.activeDestroy THEN "deletion" ELSE "workspace"

AfterFinalizer_destroying(run) ==
  IF run.deleting \/ run.status.activeDestroy THEN "deletion" ELSE "workspace"

AfterFinalizer_unapplied(run) ==
  IF ~run.deleting THEN "workspace"
  ELSE IF run.status.activeJob = NoName THEN "cleanup" ELSE "deletion"

AfterFinalizer(run) == IF run.deleting THEN "deletion" ELSE "workspace"

Begin ==
  /\ pc = "idle" /\ queued
  /\ queued' = FALSE
  /\ \/ /\ ~Exists(cache)
        /\ UNCHANGED reconcileVars
     \/ /\ Exists(cache)
        /\ my' = cache /\ fresh' = cacheFresh /\ target' = NoRunID
        /\ pc' = IF cache.finalizer THEN AfterFinalizer(cache) ELSE "addFinalizer"
  /\ UNCHANGED <<store, jobVars, scalr, outside, delayed, faults>>

(* What an update of the whole object makes of the stored one.             *)
WithFinalizer(run) ==
  [run EXCEPT !.finalizer = TRUE, !.spec = Defaulted(@),
              !.gen = IF Defaulted(run.spec) = run.spec THEN @ ELSE @ + 1]

(* ensureFinalizer: the update's response is the copy that Reconcile goes  *)
(* on with.  An update adding a finalizer to an object that is being       *)
(* deleted is invalid, but such an object always has ours.                 *)
EnsureFinalizer ==
  /\ pc = "addFinalizer"
  /\ \/ /\ fresh
        /\ obj' = WithFinalizer(obj)
        /\ my' = obj'
        /\ cacheFresh' = FALSE
        /\ Goto(AfterFinalizer(my)) /\ UNCHANGED <<fresh, target>>
     \/ /\ ~fresh
        /\ UNCHANGED store /\ Return(TRUE, FALSE)
  /\ UNCHANGED <<jobVars, scalr, outside, faults>>

-----------------------------------------------------------------------------
(* The Scalr service's calls.                                              *)

(* getEnvironmentId: looked up by name unless the spec has its id.         *)
EnvironmentFound(place) == place.env \in Environments

(* The list of the environment's workspaces, filtered by id, has one.  The *)
(* workspace's name is not looked at.                                      *)
GetWorkspace(place, id) ==
  /\ EnvironmentFound(place)
  /\ \E w \in remote : w.id = id /\ w.place.env = place.env

NameTaken(place) == UniqueNames /\ \E w \in remote : w.place = place

(* By its id, in whatever environment it is.  One that is already gone is  *)
(* no error.                                                               *)
DeleteScalrWorkspace(id) ==
  /\ remote' = {w \in remote : w.id # id}
  /\ wsCount' = wsCount

-----------------------------------------------------------------------------
(* ensureWorkspaceIfNeeded: the calls to Scalr, then the update that       *)
(* records what they returned.                                             *)

SkipWorkspace ==
  /\ pc = "workspace" /\ my.spec.backend = "none"
  /\ Goto("jobs")
  /\ UNCHANGED <<store, jobVars, scalr, outside, my, fresh, target, faults>>

(* Mutant of VerifyWorkspace: the id is cleared and not the ready flag.    *)
VerifyWorkspace_stillReady ==
  /\ pc = "workspace" /\ my.spec.backend # "none" /\ my.status.wsID # 0
  /\ \/ /\ GetWorkspace(my.spec.place, my.status.wsID) /\ NoFault
        /\ my' = my /\ Goto("jobs")
     \/ /\ ~GetWorkspace(my.spec.place, my.status.wsID) /\ NoFault
        /\ my' = [my EXCEPT !.status.phase = "Failed", !.status.wsID = 0]
        /\ Goto("workspaceLost")
  /\ UNCHANGED <<store, jobVars, scalr, outside, fresh, target>>

(* A workspace id is recorded: it is looked up.  Every error, a transient  *)
(* one too, forgets the id.                                                *)
VerifyWorkspace ==
  /\ pc = "workspace" /\ my.spec.backend # "none" /\ my.status.wsID # 0
  /\ \/ /\ ~ForProvider(my.spec) /\ NoFault
        /\ my' = [my EXCEPT !.status.phase = "Failed", !.status.wsReady = FALSE]
        /\ Goto("workspaceLost")
     \/ /\ ForProvider(my.spec) /\ NoFault
        /\ GetWorkspace(my.spec.place, my.status.wsID)
        /\ my' = my
        /\ Goto("jobs")
     \/ /\ ForProvider(my.spec)
        /\ IF GetWorkspace(my.spec.place, my.status.wsID) THEN Fault("scalr") ELSE NoFault
        /\ my' = [my EXCEPT !.status.phase = "Failed", !.status.wsReady = FALSE,
                            !.status.wsID = 0]
        /\ Goto("workspaceLost")
  /\ UNCHANGED <<store, jobVars, scalr, outside, fresh, target>>

WorkspaceLost ==
  /\ pc = "workspaceLost"
  /\ SaveIgnoringError(fresh, my.status)
  /\ Return(TRUE, FALSE)
  /\ UNCHANGED <<jobVars, scalr, outside, faults>>

WorkspaceFailed == [my EXCEPT !.status.phase = "Failed", !.status.wsReady = FALSE]

WorkspaceReady(id) ==
  [my EXCEPT !.status.phase = "Pending", !.status.wsReady = TRUE,
             !.status.wsID = id, !.status.observedGen = my.gen]

WorkspacePending ==
  [my EXCEPT !.status.phase = "Pending", !.status.wsReady = FALSE,
             !.status.observedGen = my.gen]

(* Mutant of CreateScalrWorkspace: the workspace that has the name is      *)
(* taken for the run's own.                                                *)
CreateScalrWorkspace_adopts ==
  \/ /\ NameTaken(my.spec.place) /\ NoFault
     /\ \E w \in remote : w.place = my.spec.place /\ my' = WorkspaceReady(w.id)
     /\ UNCHANGED scalr
  \/ /\ ~NameTaken(my.spec.place) /\ wsCount < MaxWs /\ NoFault
     /\ wsCount' = wsCount + 1
     /\ remote' = remote \cup {[id |-> wsCount', place |-> my.spec.place]}
     /\ my' = WorkspaceReady(wsCount')

(* The POST that creates a workspace, and what may become of it: refused   *)
(* for its environment or its name, created, failed before or after it     *)
(* took effect, or created with a reply that carries no id.                *)
CreateScalrWorkspace ==
  LET possible == EnvironmentFound(my.spec.place) /\ ~NameTaken(my.spec.place) IN
  \/ /\ IF possible THEN Fault("scalr") ELSE NoFault
     /\ my' = WorkspaceFailed /\ UNCHANGED scalr
  \/ /\ possible /\ wsCount < MaxWs
     /\ wsCount' = wsCount + 1
     /\ remote' = remote \cup {[id |-> wsCount', place |-> my.spec.place]}
     /\ \/ NoFault /\ my' = WorkspaceReady(wsCount')
        \/ Fault("scalr") /\ my' \in {WorkspaceFailed, WorkspacePending}

importScalrWorkspace ==
  /\ UNCHANGED scalr
  /\ \/ GetWorkspace(my.spec.place, ImportID) /\ NoFault /\ my' = WorkspaceReady(ImportID)
     \/ /\ IF GetWorkspace(my.spec.place, ImportID) THEN Fault("scalr") ELSE NoFault
        /\ my' = WorkspaceFailed

ReconcileWorkspace ==
  /\ pc = "workspace" /\ my.spec.backend # "none" /\ my.status.wsID = 0
  /\ \/ ~ForProvider(my.spec) /\ NoFault /\ my' = WorkspaceFailed /\ UNCHANGED scalr
     \/ ForProvider(my.spec) /\ ImportID # 0 /\ importScalrWorkspace
     \/ ForProvider(my.spec) /\ ImportID = 0 /\ CreateScalrWorkspace
  /\ Goto("workspaceSave")
  /\ UNCHANGED <<store, jobVars, outside, fresh, target>>

(* Mutant of SaveWorkspace: a patch without a resourceVersion.             *)
SaveWorkspace_patch ==
  /\ pc = "workspaceSave"
  /\ StatusStored(my.status) /\ Goto("jobs") /\ UNCHANGED <<my, fresh, target>>
  /\ UNCHANGED <<jobVars, scalr, outside, faults>>

(* Mutant of SaveWorkspace: what could not be recorded is deleted again.   *)
SaveWorkspace_rollback ==
  /\ pc = "workspaceSave"
  /\ \/ /\ fresh /\ StatusStored(my.status)
        /\ Goto("jobs") /\ UNCHANGED <<my, fresh, target, scalr>>
     \/ /\ ~fresh /\ UNCHANGED store /\ Return(TRUE, FALSE)
        /\ DeleteScalrWorkspace(my.status.wsID)
  /\ UNCHANGED <<jobVars, outside, faults>>

(* r.updateStatus returns no requeue, so Reconcile goes on to the jobs     *)
(* whatever became of the workspace.                                       *)
SaveWorkspace ==
  /\ pc = "workspaceSave"
  /\ \/ /\ fresh /\ StatusStored(my.status)
        /\ Goto("jobs") /\ UNCHANGED <<my, fresh, target>>
     \/ ~fresh /\ UNCHANGED store /\ Return(TRUE, FALSE)
  /\ UNCHANGED <<jobVars, scalr, outside, faults>>

-----------------------------------------------------------------------------
(* The apply job.                                                          *)

(* A job is stored under a name that is free.                              *)
Store(name) ==
  /\ ~Exists(jobs[name])
  /\ jobs' = [jobs EXCEPT ![name] = NewJob(my.uid, my.spec.hash)]
  /\ jobLag' = jobLag \cup {name}
  /\ created' = created \cup {<<my.uid, name>>}

(* createNewJob and the first half of createJobAndUpdateStatus.  An        *)
(* invalid job is refused whether or not its name is taken.                *)
createNewJob(hash) ==
  LET runID == BuildRunID(my.gen, hash)
      name  == buildJobName(runID) IN
  \/ /\ ~ForEngine(my.spec)
     /\ UNCHANGED store /\ Return(TRUE, FALSE)
     /\ NoFault /\ UNCHANGED jobVars
  \/ /\ ForEngine(my.spec) /\ ~BuildJob(my.spec, gitSecret)
     /\ SaveThenReturn(fresh, AsFailed(my.status), FALSE)
     /\ NoFault /\ UNCHANGED jobVars
  \/ /\ ForEngine(my.spec) /\ BuildJob(my.spec, gitSecret)
     /\ Valid(name) /\ Exists(jobs[name])
     /\ target' = runID /\ Goto("adopt")
     /\ NoFault /\ UNCHANGED <<store, jobVars, my, fresh>>
  \/ /\ ForEngine(my.spec) /\ BuildJob(my.spec, gitSecret)
     /\ \/ ~Valid(name) /\ NoFault
        \/ Valid(name) /\ ~Exists(jobs[name]) /\ Fault("reject")
     /\ SaveIgnoringError(fresh, AsFailed(my.status)) /\ Return(TRUE, FALSE)
     /\ UNCHANGED jobVars
  \/ /\ ForEngine(my.spec) /\ BuildJob(my.spec, gitSecret)
     /\ Valid(name) /\ Store(name)
     /\ last' = [uid |-> my.uid, gen |-> my.gen, content |-> my.spec.hash]
     /\ target' = runID /\ Goto("record")
     /\ NoFault /\ UNCHANGED <<store, my, fresh>>

(* The second half: the status that says the job exists.                   *)
RecordJob ==
  /\ pc = "record"
  /\ SaveThenReturn(fresh,
       [my.status EXCEPT !.activeJob = buildJobName(target), !.lastHash = target.hash,
                         !.phase = "Running", !.observedGen = my.gen,
                         !.pendingHash = NoHash,
                         !.nextRun = IF my.spec.interval = "none" THEN 0 ELSE now + 1],
       my.spec.interval # "none")
  /\ UNCHANGED <<jobVars, scalr, outside, faults>>

(* Mutant of AdoptJob: the job found is taken for one of this spec.        *)
AdoptJob_recorded ==
  /\ pc = "adopt"
  /\ \/ ~Exists(cache) /\ UNCHANGED store /\ Return(TRUE, FALSE)
     \/ /\ Exists(cache)
        /\ SaveThenReturn(cacheFresh,
             [cache.status EXCEPT !.activeJob = buildJobName(target), !.phase = "Running",
                                  !.lastHash = target.hash, !.observedGen = cache.gen],
             FALSE)
  /\ UNCHANGED <<jobVars, scalr, outside, faults>>

(* AlreadyExists: the informer's copy is read again, and only the job's    *)
(* name, the phase and the generation are written to it.                   *)
AdoptJob ==
  /\ pc = "adopt"
  /\ \/ ~Exists(cache) /\ UNCHANGED store /\ Return(TRUE, FALSE)
     \/ /\ Exists(cache)
        /\ SaveThenReturn(cacheFresh,
             [cache.status EXCEPT !.activeJob = buildJobName(target), !.phase = "Running",
                                  !.observedGen = cache.gen],
             FALSE)
  /\ UNCHANGED <<jobVars, scalr, outside, faults>>

-----------------------------------------------------------------------------
(* Reconcile, second part: the job the status names, as the informer has   *)
(* it, decides between waiting, recording a result and starting a run.     *)

ActiveJob == IF my.status.activeJob = NoName THEN NoJob ELSE jobCache[my.status.activeJob]

SpecChanged == my.status.lastHash # computeSpecHash(my.spec)

PendingExists == my.status.pendingHash \notin {NoHash, my.status.lastHash}

(* Mutant of DeferSpecChange: the hash is stored as the last one run.      *)
DeferSpecChange_asRun ==
  /\ pc = "jobs" /\ SpecChanged /\ isJobActive(ActiveJob)
  /\ SaveThenReturn(fresh,
       [my.status EXCEPT !.lastHash = computeSpecHash(my.spec)], TRUE)
  /\ UNCHANGED <<jobVars, scalr, outside, faults>>

(* handleSpecChange while the job runs: remember the hash and wait.        *)
DeferSpecChange ==
  /\ pc = "jobs" /\ SpecChanged /\ isJobActive(ActiveJob)
  /\ SaveThenReturn(fresh,
       [my.status EXCEPT !.pendingHash = computeSpecHash(my.spec)], TRUE)
  /\ UNCHANGED <<jobVars, scalr, outside, faults>>

WaitForJob ==
  /\ pc = "jobs" /\ ~SpecChanged /\ isJobActive(ActiveJob)
  /\ Return(FALSE, TRUE)
  /\ UNCHANGED <<store, jobVars, scalr, outside, faults>>

(* updateStatusBasedOnCompletedJob: two ifs, the failure after the success *)
CompletedPhase(job, phase) ==
  CASE isJobFailed(job)    -> "Failed"
    [] isJobSucceeded(job) /\ ~isJobFailed(job) -> "Succeeded"
    [] OTHER -> phase

(* Mutant of RecordCompletion: no RequeueAfter.                            *)
RecordCompletion_once ==
  /\ pc = "jobs" /\ ~SpecChanged
  /\ Exists(ActiveJob) /\ ~isJobActive(ActiveJob)
  /\ SaveThenReturn(fresh,
       [my.status EXCEPT !.phase = CompletedPhase(ActiveJob, my.status.phase)], FALSE)
  /\ UNCHANGED <<jobVars, scalr, outside, faults>>

RecordCompletion ==
  /\ pc = "jobs" /\ ~SpecChanged
  /\ Exists(ActiveJob) /\ ~isJobActive(ActiveJob)
  /\ SaveThenReturn(fresh,
       [my.status EXCEPT !.phase = CompletedPhase(ActiveJob, my.status.phase)], TRUE)
  /\ UNCHANGED <<jobVars, scalr, outside, faults>>

RunSpecChange ==
  /\ pc = "jobs" /\ SpecChanged /\ ~isJobActive(ActiveJob)
  /\ createNewJob(computeSpecHash(my.spec))
  /\ UNCHANGED <<scalr, outside>>

(* handlePendingExecution: the job is named and recorded with the pending  *)
(* hash, and built from the spec at hand.                                  *)
RunPending ==
  /\ pc = "jobs" /\ ~SpecChanged /\ ~Exists(ActiveJob) /\ PendingExists
  /\ createNewJob(my.status.pendingHash)
  /\ UNCHANGED <<scalr, outside>>

(* handleIntervalRun *)
IntervalDue == my.spec.interval = "valid" /\ now >= my.status.nextRun

RunInterval ==
  /\ pc = "jobs" /\ ~SpecChanged /\ ~Exists(ActiveJob) /\ ~PendingExists
  /\ IntervalDue
  /\ createNewJob(computeSpecHash(my.spec))
  /\ UNCHANGED <<scalr, outside>>

(* Mutant of NoIntervalRun: an interval that is not due sets no timer.     *)
NoIntervalRun_asleep ==
  /\ pc = "jobs" /\ ~SpecChanged /\ ~Exists(ActiveJob) /\ ~PendingExists
  /\ ~IntervalDue
  /\ UNCHANGED store /\ Return(FALSE, FALSE)
  /\ UNCHANGED <<jobVars, scalr, outside, faults>>

NoIntervalRun ==
  /\ pc = "jobs" /\ ~SpecChanged /\ ~Exists(ActiveJob) /\ ~PendingExists
  /\ ~IntervalDue
  /\ CASE my.spec.interval = "none" /\ my.status.nextRun # 0 ->
            SaveThenReturn(fresh, [my.status EXCEPT !.nextRun = 0], FALSE)
       [] my.spec.interval = "short" ->
            SaveIgnoringError(fresh, AsFailed(my.status)) /\ Return(FALSE, FALSE)
       [] OTHER -> UNCHANGED store /\ Return(FALSE, my.spec.interval = "valid")
  /\ UNCHANGED <<jobVars, scalr, outside, faults>>

-----------------------------------------------------------------------------
(* handleDeletion without a destroy job in the status.                     *)

AdoptDestroyJob ==
  /\ pc = "deletion" /\ ~my.status.activeDestroy
  /\ ForEngine(my.spec) /\ Exists(jobCache[DestroyName])
  /\ \/ ~Exists(cache) /\ UNCHANGED store /\ Return(TRUE, FALSE)
     \/ /\ Exists(cache)
        /\ SaveThenReturn(cacheFresh,
             [cache.status EXCEPT !.activeDestroy = TRUE, !.phase = "Pending"], TRUE)
  /\ UNCHANGED <<jobVars, scalr, outside, faults>>

DestroyStatus ==
  [my.status EXCEPT !.activeDestroy = TRUE, !.phase = "Pending",
                    !.observedGen = my.gen]

(* No engine named: no builder, and the error is tried again.               *)
CannotDestroy ==
  /\ pc = "deletion" /\ ~my.status.activeDestroy /\ ~ForEngine(my.spec)
  /\ UNCHANGED store /\ Return(TRUE, FALSE)
  /\ UNCHANGED <<jobVars, scalr, outside, faults>>

CreateDestroyJob ==
  /\ pc = "deletion" /\ ~my.status.activeDestroy
  /\ ForEngine(my.spec) /\ ~Exists(jobCache[DestroyName])
  /\ \/ /\ ~BuildJob(my.spec, gitSecret)
        /\ SaveIgnoringError(fresh, AsFailed(my.status)) /\ Return(TRUE, FALSE)
        /\ NoFault /\ UNCHANGED jobVars
     \/ /\ BuildJob(my.spec, gitSecret) /\ Valid(DestroyName) /\ Exists(jobs[DestroyName])
        /\ SaveIgnoringError(fresh, DestroyStatus) /\ Return(FALSE, TRUE)
        /\ NoFault /\ UNCHANGED jobVars
     \/ /\ BuildJob(my.spec, gitSecret)
        /\ \/ ~Valid(DestroyName) /\ NoFault
           \/ Valid(DestroyName) /\ ~Exists(jobs[DestroyName]) /\ Fault("reject")
        /\ Return(TRUE, FALSE)
        /\ UNCHANGED <<store, jobVars>>
     \/ /\ BuildJob(my.spec, gitSecret) /\ Valid(DestroyName) /\ Store(DestroyName)
        /\ Goto("destroyRecord")
        /\ NoFault /\ UNCHANGED <<store, last, my, fresh, target>>
  /\ UNCHANGED <<scalr, outside>>

RecordDestroyJob ==
  /\ pc = "destroyRecord"
  /\ SaveThenReturn(fresh, DestroyStatus, FALSE)
  /\ UNCHANGED <<jobVars, scalr, outside, faults>>

(* Mutant of DestroyJobDone: a job without a pod counts as done, whatever  *)
(* became of its pods.                                                     *)
DestroyJobDone_idle == ~isJobActive(jobCache[DestroyName])

(* handleDestroyJob: the destroy job the status names, as the informer has *)
(* it.  A job that is not found counts as done.                            *)
DestroyJobDone ==
  LET job == jobCache[DestroyName] IN
  ~Exists(job) \/ (~isJobActive(job) /\ isJobSucceeded(job))

(* Mutant of FinishDestroy: "not found" counts as done also when no        *)
(* destroy job was ever named.                                             *)
FinishDestroy_unnamed ==
  /\ pc = "deletion" /\ DestroyJobDone
  /\ my' = [my EXCEPT !.status.activeDestroy = FALSE]
  /\ SaveIgnoringError(fresh, my'.status)
  /\ Goto("cleanup")
  /\ UNCHANGED <<jobVars, scalr, outside, fresh, target, faults>>

FinishDestroy ==
  /\ pc = "deletion" /\ my.status.activeDestroy /\ DestroyJobDone
  /\ my' = [my EXCEPT !.status.activeDestroy = FALSE]
  /\ SaveIgnoringError(fresh, my'.status)
  /\ Goto("cleanup")
  /\ UNCHANGED <<jobVars, scalr, outside, fresh, target, faults>>

(* Mutant of AwaitDestroyJob: the phase it sets in memory is saved.        *)
AwaitDestroyJob_destroying ==
  /\ pc = "deletion" /\ my.status.activeDestroy /\ ~DestroyJobDone
  /\ SaveThenReturn(fresh, [my.status EXCEPT !.phase = "Destroying"], TRUE)
  /\ UNCHANGED <<jobVars, scalr, outside, faults>>

(* Mutant of AwaitDestroyJob: a wait for the job's event, without a timer. *)
AwaitDestroyJob_once ==
  /\ pc = "deletion" /\ my.status.activeDestroy /\ ~DestroyJobDone
  /\ LET job == jobCache[DestroyName] IN
     IF ~isJobActive(job) /\ isJobFailed(job)
     THEN /\ SaveIgnoringError(fresh,
               [my.status EXCEPT !.phase = "Failed", !.activeDestroy = FALSE])
          /\ Return(FALSE, FALSE)
     ELSE UNCHANGED store /\ Return(FALSE, FALSE)
  /\ UNCHANGED <<jobVars, scalr, outside, faults>>

AwaitDestroyJob ==
  /\ pc = "deletion" /\ my.status.activeDestroy /\ ~DestroyJobDone
  /\ LET job == jobCache[DestroyName] IN
     IF ~isJobActive(job) /\ isJobFailed(job)
     THEN /\ SaveIgnoringError(fresh,
               [my.status EXCEPT !.phase = "Failed", !.activeDestroy = FALSE])
          /\ Return(FALSE, FALSE)
     ELSE UNCHANGED store /\ Return(FALSE, TRUE)
  /\ UNCHANGED <<jobVars, scalr, outside, faults>>

(* An error, also one that follows a DELETE that took effect, is returned. *)
deleteRemoteWorkspace ==
  \/ /\ ForProvider(my.spec) /\ NoFault
     /\ DeleteScalrWorkspace(my.status.wsID)
     /\ Goto("removeFinalizer") /\ UNCHANGED <<my, fresh, target>>
  \/ /\ ~ForProvider(my.spec) /\ NoFault
     /\ UNCHANGED scalr /\ Return(TRUE, FALSE)
  \/ /\ ForProvider(my.spec) /\ Fault("scalr")
     /\ UNCHANGED scalr \/ DeleteScalrWorkspace(my.status.wsID)
     /\ Return(TRUE, FALSE)

(* cleanupWorkspaceAndRemoveFinalizer: the workspace goes first, when the  *)
(* copy at hand says there is one that is ready.                           *)
CleanupWorkspace ==
  /\ pc = "cleanup"
  /\ \/ my.status.wsReady /\ my.status.wsID # 0 /\ deleteRemoteWorkspace
     \/ /\ ~(my.status.wsReady /\ my.status.wsID # 0)
        /\ Goto("removeFinalizer") /\ NoFault
        /\ UNCHANGED <<scalr, my, fresh, target>>
  /\ UNCHANGED <<store, jobVars, outside>>

(* removeFinalizer: "re-fetch the resource to get the latest version" is a *)
(* read of the informer's copy.  The object goes with its last finalizer   *)
(* when it is being deleted.                                               *)
RemoveFinalizer ==
  /\ pc = "removeFinalizer"
  /\ \/ /\ ~cache.finalizer
        /\ UNCHANGED store /\ Return(FALSE, FALSE)
     \/ /\ cache.finalizer /\ cacheFresh
        /\ obj' = IF obj.deleting THEN NoRun ELSE [obj EXCEPT !.finalizer = FALSE]
        /\ cacheFresh' = FALSE
        /\ Return(FALSE, FALSE)
     \/ /\ cache.finalizer /\ ~cacheFresh
        /\ UNCHANGED store
        /\ Return(Exists(obj), FALSE)    \* a conflict, or already deleted
  /\ UNCHANGED <<jobVars, scalr, outside, faults>>

-----------------------------------------------------------------------------
Reconcile ==
  \/ Begin \/ EnsureFinalizer
  \/ SkipWorkspace \/ VerifyWorkspace \/ WorkspaceLost
  \/ ReconcileWorkspace \/ SaveWorkspace
  \/ DeferSpecChange \/ WaitForJob \/ RecordCompletion
  \/ RunSpecChange \/ RunPending \/ RunInterval \/ NoIntervalRun
  \/ RecordJob \/ AdoptJob
  \/ CannotDestroy \/ AdoptDestroyJob \/ CreateDestroyJob \/ RecordDestroyJob
  \/ FinishDestroy \/ AwaitDestroyJob \/ CleanupWorkspace \/ RemoveFinalizer
=============================================================================
