----------------------------- MODULE TfRunSystem -----------------------------
(***************************************************************************)
(* The controller in its cluster: users who create, edit and delete the    *)
(* run, the informers that bring the API server's state to the manager     *)
(* late, the Kubernetes job controller with its retries, TTL and garbage   *)
(* collection, the Scalr service, the git secret, the passing of time, and *)
(* the manager's process, which may stop at any call and start again.      *)
(***************************************************************************)
EXTENDS TfRunController

CONSTANTS
  WebhookOn,    \* the validating webhook is served (ENABLE_WEBHOOKS)
  MayDelete,    \* bound: users delete the run
  MaxLag        \* bound: for how many names at once the Job informer lags

ASSUME SystemAssumption ==
  /\ WebhookOn \in BOOLEAN
  /\ MayDelete \in BOOLEAN
  /\ MaxLag \in Nat \ {0}

Init ==
  /\ obj = NoRun /\ cache = NoRun /\ cacheFresh = TRUE
  /\ jobs = [n \in JobNames |-> NoJob] /\ jobCache = jobs /\ jobLag = {}
  /\ remote = {[id |-> n, place |-> Existing[n]] : n \in 1..Len(Existing)}
  /\ wsCount = Len(Existing)
  /\ gitSecret = TRUE /\ now = 0
  /\ pc = "idle" /\ my = NoRun /\ fresh = FALSE /\ target = NoRunID
  /\ queued = FALSE /\ delayed = FALSE
  /\ faults = 0 /\ lives = 0
  /\ created = {}
  /\ last = [uid |-> 0, gen |-> 0, content |-> NoHash]

-----------------------------------------------------------------------------
(* Users.  Any write of the object makes every other copy of it stale.     *)

Accepted(spec) == spec \in Specs /\ (WebhookOn => Admitted(spec))

Written(run) == obj' = run /\ cacheFresh' = FALSE /\ fresh' = FALSE

UserCreate(spec) ==
  /\ ~Exists(obj) /\ lives < MaxLives /\ Accepted(spec)
  /\ lives' = lives + 1
  /\ Written([NoRun EXCEPT !.uid = lives', !.gen = 1, !.spec = spec])
  /\ UNCHANGED <<jobVars, scalr, cache, jobCache, gitSecret, now, pc, my,
                 target, queue, faults>>

UserEdit(spec) ==
  /\ Exists(obj) /\ obj.gen < MaxGen /\ Accepted(spec) /\ spec # obj.spec
  /\ Written([obj EXCEPT !.spec = spec, !.gen = @ + 1])
  /\ UNCHANGED <<jobVars, scalr, outside, pc, my, target, queue, faults>>

(* With a finalizer the API server only stamps the deletion.               *)
UserDelete ==
  /\ MayDelete /\ Exists(obj) /\ ~obj.deleting
  /\ Written(IF obj.finalizer THEN [obj EXCEPT !.deleting = TRUE, !.gen = @ + 1]
                              ELSE NoRun)
  /\ UNCHANGED <<jobVars, scalr, outside, pc, my, target, queue, faults>>

-----------------------------------------------------------------------------
(* The manager: informers, timers, the periodic resync, a restart.         *)

(* A copy that moves moves to the stored version; the versions in between  *)
(* were moved to before they were overwritten, or are skipped.             *)
SyncRun ==
  /\ ~cacheFresh
  /\ cache' = obj /\ cacheFresh' = TRUE /\ queued' = TRUE
  /\ UNCHANGED <<obj, jobVars, scalr, jobCache, gitSecret, now, lives,
                 reconcileVars, delayed, faults>>

(* Owns(&batchv1.Job{}): the event of a job enqueues its owner.            *)
SyncJob(name) ==
  /\ name \in jobLag
  /\ jobCache' = [jobCache EXCEPT ![name] = jobs[name]]
  /\ jobLag' = jobLag \ {name} /\ queued' = TRUE
  /\ UNCHANGED <<store, jobs, created, last, scalr, cache, gitSecret, now, lives,
                 reconcileVars, delayed, faults>>

TimerFires ==
  /\ delayed
  /\ delayed' = FALSE /\ queued' = TRUE
  /\ UNCHANGED <<store, jobVars, scalr, outside, reconcileVars, faults>>

(* Every ten hours, or when the informer is relisted.                      *)
Resync ==
  /\ Exists(cache) /\ ~queued
  /\ queued' = TRUE
  /\ UNCHANGED <<store, jobVars, scalr, outside, reconcileVars, delayed, faults>>

(* Mutant of Restart: the first list of objects raises no event.           *)
Restart_idle ==
  /\ Fault("crash")
  /\ pc' = "idle" /\ my' = NoRun /\ fresh' = FALSE /\ target' = NoRunID
  /\ cache' = obj /\ cacheFresh' = TRUE /\ jobCache' = jobs /\ jobLag' = {}
  /\ queued' = FALSE /\ delayed' = FALSE
  /\ UNCHANGED <<obj, jobs, created, last, scalr, gitSecret, now, lives>>

(* The next process lists the stored objects and enqueues each.            *)
Restart ==
  /\ Fault("crash")
  /\ pc' = "idle" /\ my' = NoRun /\ fresh' = FALSE /\ target' = NoRunID
  /\ cache' = obj /\ cacheFresh' = TRUE /\ jobCache' = jobs /\ jobLag' = {}
  /\ queued' = Exists(obj) /\ delayed' = FALSE
  /\ UNCHANGED <<obj, jobs, created, last, scalr, gitSecret, now, lives>>

-----------------------------------------------------------------------------
(* The job controller, the TTL controller and the garbage collector.       *)

JobStep(name, job) ==
  /\ Exists(jobs[name]) /\ Cardinality(jobLag \ {name}) < MaxLag
  /\ jobs' = [jobs EXCEPT ![name] = job] /\ jobLag' = jobLag \cup {name}
  /\ UNCHANGED <<store, created, last, scalr, cache, jobCache, gitSecret, now,
                 lives, reconcileVars, queue>>

(* Retries are delayed, so a job between two pods has none active.         *)
StartPod(name) ==
  /\ ~isJobActive(jobs[name]) /\ ~Finished(jobs[name])
  /\ JobStep(name, [jobs[name] EXCEPT !.active = 1])
  /\ NoFault

PodSucceeds(name) ==
  /\ isJobActive(jobs[name]) /\ NoFault
  /\ JobStep(name, [jobs[name] EXCEPT !.active = 0, !.succeeded = 1])

PodFails(name) ==
  /\ isJobActive(jobs[name]) /\ Fault("pod")
  /\ JobStep(name, [jobs[name] EXCEPT !.active = 0, !.failed = @ + 1])

ExpireJob(name) ==
  /\ Finished(jobs[name])
  /\ JobStep(name, NoJob)
  /\ NoFault

(* The owner reference names a uid that is gone.                           *)
CollectJob(name) ==
  /\ jobs[name].uid # obj.uid
  /\ JobStep(name, NoJob)
  /\ NoFault

-----------------------------------------------------------------------------
(* The rest of the world.                                                  *)

WorkspaceVanishes(w) ==
  /\ w \in remote /\ Fault("vanish")
  /\ remote' = remote \ {w}
  /\ UNCHANGED <<store, jobVars, wsCount, outside, reconcileVars, queue>>

SecretVanishes ==
  /\ gitSecret /\ Fault("secret")
  /\ gitSecret' = FALSE
  /\ UNCHANGED <<store, jobVars, scalr, cache, jobCache, now, lives,
                 reconcileVars, queue>>

SecretReturns ==
  /\ ~gitSecret
  /\ gitSecret' = TRUE
  /\ UNCHANGED <<store, jobVars, scalr, cache, jobCache, now, lives,
                 reconcileVars, queue, faults>>

Tick ==
  /\ now < MaxTicks
  /\ now' = now + 1
  /\ UNCHANGED <<store, jobVars, scalr, cache, jobCache, gitSecret, lives,
                 reconcileVars, queue, faults>>

-----------------------------------------------------------------------------
Users == UserDelete \/ \E spec \in Specs : UserCreate(spec) \/ UserEdit(spec)

Manager == SyncRun \/ TimerFires \/ Resync \/ Restart
             \/ \E name \in JobNames : SyncJob(name)

Cluster == \E name \in JobNames :
             \/ StartPod(name) \/ PodSucceeds(name) \/ PodFails(name)
             \/ ExpireJob(name) \/ CollectJob(name)

Surroundings == SecretVanishes \/ SecretReturns \/ Tick
                  \/ \E w \in remote : WorkspaceVanishes(w)

Next == Reconcile \/ Users \/ Manager \/ Cluster \/ Surroundings

Spec == Init /\ [][Next]_vars

-----------------------------------------------------------------------------
(* Fairness.  A queued key is worked on and a reconcile makes its next     *)
(* call; informers catch up; timers fire; the cluster's controllers act    *)
(* and a pod that does not fail ends.  Nothing is assumed of users, of     *)
(* faults or of the ten-hour resync.                                       *)
Fairness ==
  /\ WF_vars(Reconcile)
  /\ WF_vars(SyncRun)
  /\ WF_vars(\E name \in JobNames : SyncJob(name))
  /\ WF_vars(TimerFires)
  /\ WF_vars(\E name \in JobNames : StartPod(name))
  /\ WF_vars(\E name \in JobNames : PodSucceeds(name))
  /\ WF_vars(\E name \in JobNames : ExpireJob(name) \/ CollectJob(name))
  /\ WF_vars(SecretReturns)
  /\ WF_vars(Tick)

FairSpec == Spec /\ Fairness

(* The informer catches up, every so often, between the status write that  *)
(* ends a deletion and the read in removeFinalizer.                        *)
CacheWinsRace == SF_vars(SyncRun /\ pc \in {"cleanup", "removeFinalizer"})

RacingSpec == FairSpec /\ CacheWinsRace

-----------------------------------------------------------------------------
(* Properties.                                                             *)

(* Every variable keeps the type of what it stands for: objects, jobs and  *)
(* copies are well-formed and the bounds are kept.                         *)
TypeOK ==
  /\ \A run \in {obj, cache, my} : run \in Run /\ (Exists(run) => run.spec \in StoredSpecs)
  /\ cacheFresh \in BOOLEAN /\ fresh \in BOOLEAN
  /\ jobs \in [JobNames -> Job] /\ jobCache \in [JobNames -> Job]
  /\ jobLag \subseteq JobNames
  /\ remote \subseteq [id : 1..MaxWs, place : Places] /\ wsCount \in 0..MaxWs
  /\ gitSecret \in BOOLEAN /\ now \in 0..MaxTicks
  /\ queued \in BOOLEAN /\ delayed \in BOOLEAN
  /\ pc \in Steps /\ target \in RunIDs \cup {NoRunID}
  /\ faults \in 0..MaxFaults /\ lives \in Uids
  /\ created \subseteq Uids \X JobNames
  /\ last \in [uid : Uids, gen : Generations, content : Hashes \cup {NoHash}]

JobCreated(name) == ~Exists(jobs[name]) /\ Exists(jobs'[name])

DestroyStarted == \E u \in Uids : <<u, DestroyName>> \in created

(* Once the destroy job of an incarnation has been created, no apply job   *)
(* of it is, however stale the copy a reconcile works from: handleDeletion *)
(* is entered before anything that starts a run.                           *)
NoApplyAfterDestroy ==
  [][\A name \in JobNames \ {DestroyName} :
       JobCreated(name) => <<jobs'[name].uid, DestroyName>> \notin created]_vars

(* A run being deleted keeps its finalizer until a destroy job of its name *)
(* has been created.                                                       *)
FinalizerHeldUntilDestroy ==
  [][obj.deleting /\ obj.finalizer /\ ~obj'.finalizer => DestroyStarted]_vars

(* The controller goes on from the destroy job to the workspace and the    *)
(* finalizer only when that job succeeded or is gone, wherever its         *)
(* informer has heard all of it: not before its first pod, not between two *)
(* and not after the last has failed.  Where the informer lags, the code   *)
(* may (TfRunClaims, FinalizerWaitsForDestroy).                            *)
DestroyDoneWhereHeard ==
  [][pc = "deletion" /\ pc' = "cleanup"
       /\ DestroyName \notin jobLag /\ Exists(jobs[DestroyName]) =>
         isJobSucceeded(jobs[DestroyName]) /\ ~isJobActive(jobs[DestroyName])]_vars

(* The controller deletes a workspace in Scalr only after a destroy job of *)
(* the run's name has been created.                                        *)
WorkspaceAwaitsDestroy ==
  [][pc = "cleanup" /\ remote' # remote => DestroyStarted]_vars

(* A status that calls the workspace ready names one that Scalr gave out:  *)
(* cleanup trusts the pair.                                                *)
ReadyNamesWorkspace ==
  obj.status.wsReady => obj.status.wsID \in 1..wsCount

(* The controller deletes no workspace but those it created and the one    *)
(* the annotation gave it, whatever place the spec names: DELETE takes the *)
(* id in the status, and nothing else checks whose workspace that is.      *)
Given(id) == id = ImportID \/ id > Len(Existing)

DeletesOwnWorkspaces ==
  [][pc = "cleanup" /\ pc' # pc => \A w \in remote \ remote' : Given(w.id)]_vars

(* The controller never deletes the workspace that the status of a living  *)
(* run names: not for an earlier incarnation that had imported the same    *)
(* one, and not because an update that names it was refused.               *)
LivingKeepsWorkspace ==
  [][pc' # pc /\ ~obj.deleting =>
       \A w \in remote \ remote' : w.id # obj.status.wsID]_vars

(* A workspace's id, once recorded, stays in the status: no write of a     *)
(* stale copy takes it back, none replaces it by a second workspace's, and *)
(* only the write that follows a failed lookup forgets it.                 *)
WorkspaceRemembered ==
  [][obj'.uid = obj.uid /\ obj.status.wsID # 0 /\ obj'.status.wsID # obj.status.wsID
       => pc = "workspaceLost" /\ obj'.status.wsID = 0]_vars

(* A run that is not being deleted keeps its finalizer, even when a late   *)
(* reconcile of an earlier incarnation reaches removeFinalizer and finds   *)
(* the next one under the same name.                                       *)
LivingKeepsFinalizer ==
  [][obj.finalizer /\ ~obj.deleting /\ obj'.uid = obj.uid => obj'.finalizer]_vars

(* status.observedGeneration never goes back while the object lives,       *)
(* whichever stale copy a reconcile writes from.                           *)
ObservedGenerationMonotone ==
  [][obj'.uid = obj.uid =>
       obj'.status.observedGen >= obj.status.observedGen]_vars

(* The status is a record of things that happened: lastSpecHash is the     *)
(* hash of a job created for this object, activeJobName and                *)
(* activeDestroyJobName are names of jobs that were created.               *)
StatusNamesCreatedJobs ==
  /\ obj.status.lastHash # NoHash =>
       \E g \in Generations :
         <<obj.uid, buildJobName(BuildRunID(g, obj.status.lastHash))>> \in created
  /\ obj.status.activeJob # NoName =>
       \E u \in Uids : <<u, obj.status.activeJob>> \in created
  /\ obj.status.activeDestroy => DestroyStarted

(* Nothing is queued, no timer runs, the informers are up to date.         *)
Quiet ==
  /\ pc = "idle" /\ ~queued /\ ~delayed
  /\ cacheFresh /\ jobLag = {} /\ Exists(obj)

(* The current spec is recorded as started and no outcome is unread, or a  *)
(* job the status names is still there, whose end or removal will be an    *)
(* event.  A periodic run has no timer only while its job is there.        *)
UpToDate ==
  /\ obj.status.activeJob # NoName
  /\ IF obj.status.lastHash = computeSpecHash(obj.spec)
     THEN ~Finished(jobs[obj.status.activeJob])
     ELSE Exists(jobs[obj.status.activeJob])
  /\ obj.spec.interval = "valid" => Exists(jobs[obj.status.activeJob])

(* No lost wakeup.  The controller rests only when it has nothing left to  *)
(* do: never in the middle of a deletion, whatever is stored, fails or     *)
(* comes late, and with a living run only when it is up to date.           *)
QuietIsSettled == Quiet => obj.finalizer /\ ~obj.deleting /\ UpToDate

(* Where a job cannot be built, the git secret missing or the spec without *)
(* a backend, updateStatus leaves the run alone without a timer, and then  *)
(* the status says so: rest is settled or Failed.                          *)
QuietOrFailed ==
  Quiet => /\ obj.finalizer /\ ~obj.deleting
           /\ UpToDate \/ obj.status.phase = "Failed"

(* The edit of a run that stays is the last thing applied: whatever order  *)
(* jobs, conflicts and restarts come in, the new spec is not forgotten in  *)
(* favour of a pending or an older one.  One edit is meant: one that is    *)
(* taken back can break this (TfRunClaims, LastHashIsLastRun).             *)
LastSpecStarted ==
  Exists(obj) /\ ~obj.deleting =>
    last.uid = obj.uid /\ last.content = computeSpecHash(obj.spec)

LastSpecApplied == <>[]LastSpecStarted

(* What the controller takes for run was run last: where the status has    *)
(* the hash of the spec at hand, so that a reconcile sees no change, the   *)
(* last job was started for this object with this spec, whichever update   *)
(* was lost or came late.  A run that was edited once at most is meant: an *)
(* edit that is taken back can break this too.                             *)
RecordedIsLast ==
  Exists(obj) /\ obj.gen <= 2 /\ obj.status.lastHash = computeSpecHash(obj.spec) =>
    last.uid = obj.uid /\ last.content = computeSpecHash(obj.spec)

(* A deleted run goes away.                                                *)
DeletionCompletes == obj.deleting ~> ~obj.deleting

-----------------------------------------------------------------------------
(* What all of it amounts to, for the object and the jobs: TfRunPromise.   *)
Promise == INSTANCE TfRunPromise WITH
  born    <- lives,
  run     <- [uid |-> obj.uid, gen |-> obj.gen, deleting |-> obj.deleting],
  started <- [uid |-> last.uid, gen |-> last.gen],
  torn    <- {u \in Uids : <<u, DestroyName>> \in created}

(* The reconciler, in its cluster, implements the promise.                 *)
KeepsPromise == Promise!Spec
=============================================================================
