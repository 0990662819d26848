--------------------------- MODULE TfRunMemoryProofs ---------------------------
(***************************************************************************)
(* What the status remembers of the workspace.  MemoryInv is inductive     *)
(* together with RunInv, and the status never loses the id of a workspace  *)
(* but to a failed lookup: a step either leaves the recorded id as it is   *)
(* (SameId), records one where there was none, or forgets one; in between, *)
(* what a worker that may still write knows of it is right.  BareInv is    *)
(* inductive together with RunInv too, and with it no living run loses the *)
(* workspace its status names.                                             *)
(***************************************************************************)
EXTENDS TfRunStatusProofs

SameId == obj'.status.wsID = obj.status.wsID

Remembers ==
  obj'.uid = obj.uid /\ obj.status.wsID # 0 /\ ~SameId
    => pc = "workspaceLost" /\ obj'.status.wsID = 0

Remembered == Remembers /\ MemoryInv'

(* A status that a current copy may write without touching the id.         *)
Plain(st, current) ==
  st \in Status /\ (current => st.wsID = obj.status.wsID)

(* Where the id at hand is neither to be recorded nor to be forgotten.     *)
Settled == pc \notin {"workspaceSave", "workspaceLost"}

LEMMA KnownId ==
  ASSUME MemoryInv, Settled, fresh
  PROVE  my.status.wsID = obj.status.wsID
BY DEF MemoryInv, Settled

-----------------------------------------------------------------------------
(* The ways in which a reconcile goes on and ends.                         *)
LEMMA StaleRemembers ==
  ASSUME SameId, fresh' = FALSE
  PROVE  Remembered
BY DEF Remembered, Remembers, MemoryInv

LEMMA ReturnRemembers ==
  ASSUME SameId, NEW requeue, NEW after, Return(requeue, after)
  PROVE  Remembered
BY StaleRemembers DEF Return

LEMMA WritesId ==
  ASSUME TypeInv, NEW st \in Status, StatusStored(st)
  PROVE  obj'.status = st
<1>1. obj' = [obj EXCEPT !.status = st]
  BY DEF StatusStored
<1> QED
  BY <1>1, WrittenFields

LEMMA SavesPlain ==
  ASSUME TypeInv, NEW current, NEW st, Plain(st, current), SaveIgnoringError(current, st)
  PROVE  SameId
<1>1. CASE current /\ StatusStored(st)
  BY <1>1, WritesId DEF Plain, SameId
<1>2. CASE UNCHANGED store
  BY <1>2 DEF store, SameId
<1> QED
  BY <1>1, <1>2 DEF SaveIgnoringError

LEMMA SaveReturnRemembers ==
  ASSUME TypeInv, NEW current, NEW st, NEW after, Plain(st, current),
         SaveThenReturn(current, st, after)
  PROVE  Remembered
<1>1. SameId
  BY SavesPlain DEF SaveThenReturn, SaveIgnoringError
<1> QED
  BY <1>1, ReturnRemembers DEF SaveThenReturn

(* The copy at hand stays, and the step is none that records or forgets.   *)
LEMMA GoesOnRemembers ==
  ASSUME MemoryInv, Settled, SameId, my'.status.wsID = my.status.wsID,
         fresh' => fresh, pc' # "workspaceSave"
  PROVE  Remembered
BY KnownId DEF Remembered, Remembers, MemoryInv, SameId

(* Nothing of it moves.                                                    *)
LEMMA StillRemembers ==
  ASSUME MemoryInv, UNCHANGED <<obj, pc, my, fresh>>
  PROVE  Remembered
BY DEF Remembered, Remembers, SameId, MemoryInv

(* The handlers' updates that leave the id alone.                          *)
LEMMA PlainWrites ==
  ASSUME TypeInv, MemoryInv, Settled, NEW st \in Status, st.wsID = my.status.wsID
  PROVE  Plain(st, fresh)
BY KnownId DEF Plain

LEMMA PlainUpdates ==
  ASSUME TypeInv, MemoryInv, Settled
  PROVE  /\ Plain(AsFailed(my.status), fresh)
         /\ Plain([my.status EXCEPT !.nextRun = 0], fresh)
         /\ Plain([my.status EXCEPT !.activeDestroy = FALSE], fresh)
         /\ Plain([my.status EXCEPT !.phase = "Failed", !.activeDestroy = FALSE], fresh)
<1>1. my.status \in Status
  BY Numbers
<1>2. /\ AsFailed(my.status) \in Status
      /\ AsFailed(my.status).wsID = my.status.wsID
  BY <1>1 DEF AsFailed, Status, Phases
<1>3. /\ [my.status EXCEPT !.nextRun = 0] \in Status
      /\ [my.status EXCEPT !.nextRun = 0].wsID = my.status.wsID
  BY <1>1, BoundsAssumption DEF Status
<1>4. /\ [my.status EXCEPT !.activeDestroy = FALSE] \in Status
      /\ [my.status EXCEPT !.activeDestroy = FALSE].wsID = my.status.wsID
  BY <1>1 DEF Status
<1>5. /\ [my.status EXCEPT !.phase = "Failed", !.activeDestroy = FALSE] \in Status
      /\ [my.status EXCEPT !.phase = "Failed", !.activeDestroy = FALSE].wsID
           = my.status.wsID
  BY <1>1 DEF Status, Phases
<1> QED
  BY <1>2, <1>3, <1>4, <1>5, PlainWrites
-----------------------------------------------------------------------------
(* The actions, a group at a time.                                         *)
LEMMA BeginRemembers ==
  ASSUME BaseInv, MemoryInv, Begin \/ EnsureFinalizer
  PROVE  Remembered
<1> USE DEF BaseInv
<1>1. CASE Begin /\ ~Exists(cache)
  BY <1>1, StillRemembers DEF Begin, reconcileVars, store
<1>2. CASE Begin /\ Exists(cache)
  <2>1. /\ obj' = obj /\ my' = cache /\ fresh' = cacheFresh
        /\ pc' \in {"addFinalizer", "deletion", "workspace"}
    BY <1>2 DEF Begin, store, AfterFinalizer
  <2>2. cacheFresh => cache = obj
    BY DEF CoreInv, CopyInv
  <2> QED
    BY <2>1, <2>2 DEF Remembered, Remembers, SameId, MemoryInv
<1>3. CASE EnsureFinalizer /\ fresh
  <2>1. Adds
    BY <1>3 DEF EnsureFinalizer, Goto, Adds
  <2>2. obj'.status = obj.status /\ my' = obj' /\ pc' \in {"deletion", "workspace"}
    BY <2>1, AddsFacts DEF Adds, AfterFinalizer
  <2> QED
    BY <2>2 DEF Remembered, Remembers, SameId, MemoryInv
<1>4. CASE EnsureFinalizer /\ ~fresh
  BY <1>4, ReturnRemembers DEF EnsureFinalizer, store, SameId
<1> QED
  BY <1>1, <1>2, <1>3, <1>4

(* The lookup may find the id gone, and its update forgets it.             *)
LEMMA VerifyRemembers ==
  ASSUME BaseInv, MemoryInv, VerifyWorkspace \/ WorkspaceLost
  PROVE  Remembered
<1> USE DEF BaseInv
<1>1. my \in Run /\ my.status \in Status
  BY Numbers
<1>2. CASE VerifyWorkspace
  <2>1. obj' = obj /\ fresh' = fresh /\ Settled /\ pc' \in {"jobs", "workspaceLost"}
    BY <1>2 DEF VerifyWorkspace, Goto, store, Settled
  <2>2. CASE my'.status.wsID = my.status.wsID
    BY <2>1, <2>2, GoesOnRemembers DEF SameId
  <2>3. CASE pc' = "workspaceLost" /\ my'.status.wsID = 0
    BY <2>1, <2>3 DEF Remembered, Remembers, SameId, MemoryInv
  <2>4. \/ my' = my
        \/ my' = [my EXCEPT !.status.phase = "Failed", !.status.wsReady = FALSE]
        \/ /\ my' = [my EXCEPT !.status.phase = "Failed", !.status.wsReady = FALSE,
                               !.status.wsID = 0]
           /\ pc' = "workspaceLost"
    BY <1>2 DEF VerifyWorkspace, Goto
  <2>5. ASSUME my' = [my EXCEPT !.status.phase = "Failed", !.status.wsReady = FALSE]
        PROVE  my'.status.wsID = my.status.wsID
    BY <1>1, <2>5 DEF Run, Status
  <2>6. ASSUME my' = [my EXCEPT !.status.phase = "Failed", !.status.wsReady = FALSE,
                                !.status.wsID = 0]
        PROVE  my'.status.wsID = 0
    BY <1>1, <2>6 DEF Run, Status
  <2> QED
    BY <2>2, <2>3, <2>4, <2>5, <2>6
<1>3. CASE WorkspaceLost
  <2>1. pc = "workspaceLost" /\ SaveIgnoringError(fresh, my.status) /\ Return(TRUE, FALSE)
    BY <1>3 DEF WorkspaceLost
  <2>2. CASE fresh /\ StatusStored(my.status)
    <3>1. obj'.status = my.status
      BY <1>1, <2>2, WritesId
    <3>2. my.status.wsID \in {0, obj.status.wsID}
      BY <2>1, <2>2 DEF MemoryInv
    <3> QED
      BY <2>1, <3>1, <3>2 DEF Remembered, Remembers, SameId, MemoryInv, Return
  <2>3. CASE UNCHANGED store
    BY <2>1, <2>3, ReturnRemembers DEF store, SameId
  <2> QED
    BY <2>1, <2>2, <2>3 DEF SaveIgnoringError
<1> QED
  BY <1>2, <1>3

(* An id is made only where none is recorded, as far as the copy at hand   *)
(* knows, and its update is refused where the copy does not know.          *)
LEMMA EnsureRemembers ==
  ASSUME BaseInv, MemoryInv, SkipWorkspace \/ ReconcileWorkspace \/ SaveWorkspace
  PROVE  Remembered
<1> USE DEF BaseInv
<1>1. CASE SkipWorkspace
  BY <1>1, GoesOnRemembers DEF SkipWorkspace, Goto, store, SameId, Settled
<1>2. CASE ReconcileWorkspace
  <2>1. /\ obj' = obj /\ fresh' = fresh /\ Settled /\ pc' = "workspaceSave"
        /\ my.status.wsID = 0
    BY <1>2 DEF ReconcileWorkspace, Goto, store, Settled
  <2> QED
    BY <2>1, KnownId DEF Remembered, Remembers, SameId, MemoryInv
<1>3. CASE SaveWorkspace
  <2>1. my.status \in Status /\ pc = "workspaceSave"
    BY <1>3, Numbers DEF SaveWorkspace
  <2>2. CASE fresh /\ StatusStored(my.status) /\ Goto("jobs") /\ UNCHANGED <<my, fresh>>
    <3>1. obj'.status = my.status /\ obj.status.wsID = 0
      BY <2>1, <2>2, WritesId DEF MemoryInv
    <3> QED
      BY <2>2, <3>1 DEF Remembered, Remembers, MemoryInv, Goto
  <2>3. CASE UNCHANGED store /\ Return(TRUE, FALSE)
    BY <2>3, ReturnRemembers DEF store, SameId
  <2> QED
    BY <1>3, <2>2, <2>3 DEF SaveWorkspace
<1> QED
  BY <1>1, <1>2, <1>3

LEMMA CreateNewJobRemembers ==
  ASSUME BaseInv, MemoryInv, pc = "jobs", NEW hash, createNewJob(hash)
  PROVE  Remembered
<1> USE DEF BaseInv
<1>1. Settled
  BY DEF Settled
<1>2. CASE UNCHANGED <<store, my, fresh>> /\ pc' \in {"adopt", "record"}
  BY <1>1, <1>2, GoesOnRemembers DEF store, SameId
<1>3. CASE UNCHANGED store /\ Return(TRUE, FALSE)
  BY <1>3, ReturnRemembers DEF store, SameId
<1>4. CASE SaveThenReturn(fresh, AsFailed(my.status), FALSE)
  BY <1>1, <1>4, PlainUpdates, SaveReturnRemembers
<1>5. CASE SaveIgnoringError(fresh, AsFailed(my.status)) /\ Return(TRUE, FALSE)
  BY <1>1, <1>5, PlainUpdates, SavesPlain, ReturnRemembers
<1> QED
  BY <1>2, <1>3, <1>4, <1>5 DEF createNewJob, Goto

LEMMA JobsRemember ==
  ASSUME BaseInv, MemoryInv,
         \/ DeferSpecChange \/ WaitForJob \/ RecordCompletion
         \/ RunSpecChange \/ RunPending \/ RunInterval \/ NoIntervalRun
  PROVE  Remembered
<1> USE DEF BaseInv
<1>1. pc = "jobs" /\ Settled
  BY DEF DeferSpecChange, WaitForJob, RecordCompletion, RunSpecChange, RunPending,
         RunInterval, NoIntervalRun, Settled
<1>2. my.status \in Status /\ my.spec.hash \in Hashes
  BY <1>1, BusyTypes
<1>3. CASE RunSpecChange \/ RunPending \/ RunInterval
  BY <1>1, <1>3, CreateNewJobRemembers DEF RunSpecChange, RunPending, RunInterval
<1>4. CASE DeferSpecChange
  <2> DEFINE st == [my.status EXCEPT !.pendingHash = computeSpecHash(my.spec)]
  <2>1. st \in Status /\ st.wsID = my.status.wsID
    BY <1>2 DEF Status, computeSpecHash
  <2>2. SaveThenReturn(fresh, st, TRUE)
    BY <1>4 DEF DeferSpecChange
  <2> HIDE DEF st
  <2> QED
    BY <1>1, <2>1, <2>2, PlainWrites, SaveReturnRemembers
<1>5. CASE WaitForJob
  BY <1>5, ReturnRemembers DEF WaitForJob, store, SameId
<1>6. CASE RecordCompletion
  <2> DEFINE st == [my.status EXCEPT !.phase = CompletedPhase(ActiveJob, my.status.phase)]
  <2>1. st \in Status /\ st.wsID = my.status.wsID
    <3>1. CompletedPhase(ActiveJob, my.status.phase) \in Phases
      BY <1>2 DEF CompletedPhase, Phases, Status
    <3> QED
      BY <1>2, <3>1 DEF Status
  <2>2. SaveThenReturn(fresh, st, TRUE)
    BY <1>6 DEF RecordCompletion
  <2> HIDE DEF st
  <2> QED
    BY <1>1, <2>1, <2>2, PlainWrites, SaveReturnRemembers
<1>7. CASE NoIntervalRun
  <2>1. \/ SaveThenReturn(fresh, [my.status EXCEPT !.nextRun = 0], FALSE)
        \/ SaveIgnoringError(fresh, AsFailed(my.status)) /\ Return(FALSE, FALSE)
        \/ UNCHANGED store /\ Return(FALSE, my.spec.interval = "valid")
    BY <1>7 DEF NoIntervalRun
  <2>2. CASE SaveThenReturn(fresh, [my.status EXCEPT !.nextRun = 0], FALSE)
    BY <1>1, <2>2, PlainUpdates, SaveReturnRemembers
  <2>3. CASE SaveIgnoringError(fresh, AsFailed(my.status)) /\ Return(FALSE, FALSE)
    BY <1>1, <2>3, PlainUpdates, SavesPlain, ReturnRemembers
  <2>4. CASE UNCHANGED store /\ Return(FALSE, my.spec.interval = "valid")
    BY <2>4, ReturnRemembers DEF store, SameId
  <2> QED
    BY <2>1, <2>2, <2>3, <2>4
<1> QED
  BY <1>3, <1>4, <1>5, <1>6, <1>7

(* The updates that name a job: from the worker's copy, or from the        *)
(* informer's if that is the stored one.                                   *)
LEMMA RecordsRemember ==
  ASSUME BaseInv, StatusInv, MemoryInv,
         RecordJob \/ AdoptJob \/ AdoptDestroyJob \/ RecordDestroyJob
  PROVE  Remembered
<1> USE DEF BaseInv
<1>1. my.status \in Status /\ cache.status \in Status /\ my.gen \in Generations
  BY Numbers DEF TypeInv, TypeOK, Run
<1>2. cacheFresh => cache.status.wsID = obj.status.wsID
  BY DEF CoreInv, CopyInv
<1>3. CASE RecordJob
  <2> DEFINE st == [my.status EXCEPT !.activeJob = buildJobName(target),
                         !.lastHash = target.hash, !.phase = "Running",
                         !.observedGen = my.gen, !.pendingHash = NoHash,
                         !.nextRun = IF my.spec.interval = "none" THEN 0 ELSE now + 1]
  <2>1. SaveThenReturn(fresh, st, my.spec.interval # "none") /\ pc = "record"
    BY <1>3 DEF RecordJob
  <2>2. st \in Status
    <3>1. now \in 0..MaxTicks /\ MaxTicks \in Nat
      BY BoundsAssumption DEF TypeInv, TypeOK
    <3>2. (IF my.spec.interval = "none" THEN 0 ELSE now + 1) \in 0..(MaxTicks + 1)
      BY <3>1
    <3> QED
      BY <2>1, <3>2, FineRecord DEF Fine
  <2>3. st.wsID = my.status.wsID
    BY <1>1 DEF Status
  <2> HIDE DEF st
  <2> QED
    BY <2>1, <2>2, <2>3, PlainWrites, SaveReturnRemembers DEF Settled
<1>4. CASE AdoptJob
  <2> DEFINE st == [cache.status EXCEPT !.activeJob = buildJobName(target),
                                        !.phase = "Running", !.observedGen = cache.gen]
  <2>1. /\ pc = "adopt"
        /\ \/ UNCHANGED store /\ Return(TRUE, FALSE)
           \/ SaveThenReturn(cacheFresh, st, FALSE)
    BY <1>4 DEF AdoptJob
  <2>2. st \in Status
    BY <2>1, FineAdopt DEF Fine
  <2>3. st.wsID = cache.status.wsID
    BY <1>1 DEF Status
  <2> HIDE DEF st
  <2>4. Plain(st, cacheFresh)
    BY <1>2, <2>2, <2>3 DEF Plain
  <2> QED
    BY <2>1, <2>4, SaveReturnRemembers, ReturnRemembers DEF store, SameId
<1>5. CASE AdoptDestroyJob
  <2> DEFINE st == [cache.status EXCEPT !.activeDestroy = TRUE, !.phase = "Pending"]
  <2>1. \/ UNCHANGED store /\ Return(TRUE, FALSE)
        \/ SaveThenReturn(cacheFresh, st, TRUE)
    BY <1>5 DEF AdoptDestroyJob
  <2>2. st \in Status /\ st.wsID = cache.status.wsID
    BY <1>1 DEF Status, Phases
  <2> HIDE DEF st
  <2>3. Plain(st, cacheFresh)
    BY <1>2, <2>2 DEF Plain
  <2> QED
    BY <2>1, <2>3, SaveReturnRemembers, ReturnRemembers DEF store, SameId
<1>6. CASE RecordDestroyJob
  <2>1. DestroyStatus \in Status /\ DestroyStatus.wsID = my.status.wsID
    BY <1>1 DEF DestroyStatus, Status, Phases
  <2>2. Settled /\ SaveThenReturn(fresh, DestroyStatus, FALSE)
    BY <1>6 DEF RecordDestroyJob, Settled
  <2> QED
    BY <2>1, <2>2, PlainWrites, SaveReturnRemembers
<1> QED
  BY <1>3, <1>4, <1>5, <1>6

LEMMA DeletionRemembers ==
  ASSUME BaseInv, MemoryInv,
         CannotDestroy \/ CreateDestroyJob \/ FinishDestroy \/ AwaitDestroyJob
           \/ CleanupWorkspace \/ RemoveFinalizer
  PROVE  Remembered
<1> USE DEF BaseInv
<1>1. /\ my \in Run /\ my.status \in Status /\ my.gen \in Generations
      /\ Settled
  BY Numbers DEF TypeInv, TypeOK, Run, Settled, CannotDestroy, CreateDestroyJob,
     FinishDestroy, AwaitDestroyJob, CleanupWorkspace, RemoveFinalizer
<1>2. ASSUME UNCHANGED store, NEW requeue, NEW after, Return(requeue, after)
      PROVE  Remembered
  BY <1>2, ReturnRemembers DEF store, SameId
<1>3. CASE CannotDestroy
  BY <1>2, <1>3 DEF CannotDestroy
<1>4. CASE CreateDestroyJob
  <2>1. CASE SaveIgnoringError(fresh, AsFailed(my.status)) /\ Return(TRUE, FALSE)
    BY <1>1, <2>1, PlainUpdates, SavesPlain, ReturnRemembers
  <2>2. CASE SaveIgnoringError(fresh, DestroyStatus) /\ Return(FALSE, TRUE)
    <3>1. DestroyStatus \in Status /\ DestroyStatus.wsID = my.status.wsID
      BY <1>1 DEF DestroyStatus, Status, Phases
    <3> QED
      BY <1>1, <2>2, <3>1, PlainWrites, SavesPlain, ReturnRemembers
  <2>3. CASE Return(TRUE, FALSE) /\ UNCHANGED store
    BY <1>2, <2>3
  <2>4. CASE Goto("destroyRecord") /\ UNCHANGED <<store, my, fresh>>
    BY <1>1, <2>4, GoesOnRemembers DEF Goto, store, SameId
  <2> QED
    BY <1>4, <2>1, <2>2, <2>3, <2>4 DEF CreateDestroyJob
<1>5. CASE FinishDestroy
  <2> DEFINE done == [my.status EXCEPT !.activeDestroy = FALSE]
  <2>1. /\ my' = [my EXCEPT !.status.activeDestroy = FALSE]
        /\ SaveIgnoringError(fresh, my'.status)
        /\ pc' = "cleanup" /\ fresh' = fresh
    BY <1>5 DEF FinishDestroy, Goto
  <2>2. my'.status = done /\ done.wsID = my.status.wsID
    BY <1>1, <2>1 DEF Run, Status
  <2>3. Plain(done, fresh)
    BY <1>1, PlainUpdates
  <2> HIDE DEF done
  <2>4. SameId
    BY <2>1, <2>2, <2>3, SavesPlain
  <2> QED
    BY <1>1, <2>1, <2>2, <2>4, GoesOnRemembers
<1>6. CASE AwaitDestroyJob
  <2>1. \/ /\ SaveIgnoringError(fresh,
                 [my.status EXCEPT !.phase = "Failed", !.activeDestroy = FALSE])
           /\ Return(FALSE, FALSE)
        \/ UNCHANGED store /\ Return(FALSE, TRUE)
    BY <1>6 DEF AwaitDestroyJob
  <2> QED
    BY <1>1, <1>2, <2>1, PlainUpdates, SavesPlain, ReturnRemembers
<1>7. CASE CleanupWorkspace
  <2>1. UNCHANGED store
    BY <1>7 DEF CleanupWorkspace
  <2>2. \/ Return(TRUE, FALSE)
        \/ Goto("removeFinalizer") /\ UNCHANGED <<my, fresh>>
    BY <1>7 DEF CleanupWorkspace, deleteRemoteWorkspace
  <2>3. CASE Goto("removeFinalizer") /\ UNCHANGED <<my, fresh>>
    BY <1>1, <2>1, <2>3, GoesOnRemembers DEF Goto, store, SameId
  <2> QED
    BY <1>2, <2>1, <2>2, <2>3
<1>8. CASE RemoveFinalizer
  <2>1. CASE cache.finalizer /\ cacheFresh
    <3>1. Removes
      BY <1>8, <2>1 DEF RemoveFinalizer, Return, Removes
    <3>2. obj' = NoRun /\ Exists(obj)
      BY <3>1, RemovesDeleted
    <3> QED
      BY <3>1, <3>2, NoRunFacts DEF Removes, Remembered, Remembers, MemoryInv, Exists
  <2>2. CASE UNCHANGED store /\ \E requeue : Return(requeue, FALSE)
    BY <1>2, <2>2
  <2> QED
    BY <1>8, <2>1, <2>2 DEF RemoveFinalizer
<1> QED
  BY <1>3, <1>4, <1>5, <1>6, <1>7, <1>8

(* Users write no status, and what they write makes every copy stale.      *)
LEMMA UsersRemember ==
  ASSUME BaseInv, UserDelete \/ \E spec \in Specs : UserCreate(spec) \/ UserEdit(spec)
  PROVE  Remembered
<1> USE DEF BaseInv
<1>1. fresh' = FALSE
  BY UserFrame
<1>2. obj'.uid # obj.uid \/ obj'.status = obj.status
  <2>1. ASSUME NEW spec \in Specs, UserCreate(spec)
        PROVE  obj'.uid # obj.uid
    <3>1. obj.uid = 0 /\ obj'.uid = lives + 1 /\ lives \in Nat
      BY <2>1, UserRuns, Numbers DEF Exists
    <3> QED
      BY <3>1
  <2>2. ASSUME NEW spec \in Specs, UserEdit(spec)
        PROVE  obj'.status = obj.status
    BY <2>2, UserRuns
  <2>3. CASE UserDelete
    BY <2>3, UserRuns, NoRunFacts DEF Exists
  <2> QED
    BY <2>1, <2>2, <2>3
<1> QED
  BY <1>1, <1>2 DEF Remembered, Remembers, SameId, MemoryInv

LEMMA OthersRemember ==
  ASSUME MemoryInv, Manager \/ Cluster \/ Surroundings \/ UNCHANGED vars
  PROVE  Remembered
<1>1. CASE Restart
  BY <1>1, StaleRemembers DEF Restart, SameId
<1>2. CASE ~Restart
  <2>1. UNCHANGED <<obj, reconcileVars>>
    BY <1>2 DEF Manager, SyncRun, TimerFires, Resync, SyncJob, Cluster, StartPod,
       PodSucceeds, PodFails, ExpireJob, CollectJob, JobStep, Surroundings,
       WorkspaceVanishes, SecretVanishes, SecretReturns, Tick, vars, store
  <2> QED
    BY <2>1, StillRemembers DEF reconcileVars
<1> QED
  BY <1>1, <1>2

LEMMA StepRemembers ==
  ASSUME RunInv, MemoryInv, [Next]_vars
  PROVE  Remembered
BY BeginRemembers, VerifyRemembers, EnsureRemembers, JobsRemember, RecordsRemember,
   DeletionRemembers, UsersRemember, OthersRemember DEF RunInv, Next, Reconcile, Users
-----------------------------------------------------------------------------
LEMMA InitMemory == Init => MemoryInv
BY DEF Init, MemoryInv

LEMMA NextMemory == RunInv /\ MemoryInv /\ [Next]_vars => MemoryInv' /\ Remembers
BY StepRemembers DEF Remembered

(* The id of a workspace, once recorded, is not taken back by a stale copy *)
(* nor replaced by a second workspace's: only the update that follows a    *)
(* failed lookup forgets it.                                               *)
THEOREM IdRemembered == Spec => WorkspaceRemembered
<1>1. Init => MemoryInv
  BY InitMemory
<1>2. RunInv /\ MemoryInv /\ [Next]_vars => MemoryInv'
  BY NextMemory
<1>3. RunInv /\ MemoryInv /\ [Next]_vars =>
        [obj'.uid = obj.uid /\ obj.status.wsID # 0 /\ obj'.status.wsID # obj.status.wsID
           => pc = "workspaceLost" /\ obj'.status.wsID = 0]_vars
  BY NextMemory DEF Remembers, SameId
<1> QED
  BY <1>1, <1>2, <1>3, RunInvariance, PTL DEF Spec, WorkspaceRemembered

-----------------------------------------------------------------------------
(* BareInv, and what it is for.  A status is written while the finalizer   *)
(* is there, but for AdoptDestroyJob, which may meet the next incarnation  *)
(* and leaves the id alone.                                                *)
LEMMA BareStored ==
  ASSUME BaseInv, BareInv, Reconcile, ~obj.finalizer, ~obj'.finalizer
  PROVE  obj'.status.wsID = 0
<1> USE Numbers DEF BaseInv
<1>1. obj.status.wsID = 0
  BY DEF BareInv
<1>2. pc \notin ApplySteps
  BY DEF CoreInv, FinalizerInv
<1>3. CASE pc = "idle"
  BY <1>1, <1>3 DEF Reconcile, Begin, EnsureFinalizer, SkipWorkspace, VerifyWorkspace,
     WorkspaceLost, ReconcileWorkspace, SaveWorkspace, DeferSpecChange, WaitForJob,
     RecordCompletion, RunSpecChange, RunPending, RunInterval, NoIntervalRun, RecordJob,
     AdoptJob, CannotDestroy, AdoptDestroyJob, CreateDestroyJob, RecordDestroyJob,
     FinishDestroy, AwaitDestroyJob, CleanupWorkspace, RemoveFinalizer, store
<1>4. CASE EnsureFinalizer
  <2>1. CASE fresh
    <3>1. Adds
      BY <1>4, <2>1 DEF EnsureFinalizer, Goto, Adds
    <3> QED
      BY <3>1, AddsFacts
  <2> QED
    BY <1>1, <1>4, <2>1 DEF EnsureFinalizer, store
<1>5. CASE pc \in DeletionSteps
  <2>1. ~fresh
    BY <1>5 DEF CoreInv, CopyInv, FinalizerInv
  <2>2. CASE AdoptDestroyJob
    <3> DEFINE st == [cache.status EXCEPT !.activeDestroy = TRUE, !.phase = "Pending"]
    <3>1. cacheFresh => cache = obj
      BY DEF CoreInv, CopyInv
    <3>2. UNCHANGED store \/ (cacheFresh /\ StatusStored(st))
      BY <2>2 DEF AdoptDestroyJob, SaveThenReturn
    <3>3. st \in Status /\ st.wsID = cache.status.wsID
      BY DEF Status, Phases
    <3> HIDE DEF st
    <3> QED
      BY <1>1, <3>1, <3>2, <3>3, WritesId DEF store
  <2>3. CASE CannotDestroy \/ CreateDestroyJob \/ RecordDestroyJob \/ FinishDestroy
               \/ AwaitDestroyJob \/ CleanupWorkspace
    <3>1. UNCHANGED store
      BY <2>1, <2>3 DEF CannotDestroy, CreateDestroyJob, RecordDestroyJob, FinishDestroy,
         AwaitDestroyJob, CleanupWorkspace, SaveThenReturn, SaveIgnoringError
    <3> QED
      BY <1>1, <3>1 DEF store
  <2>4. CASE RemoveFinalizer
    <3>1. CASE cache.finalizer /\ cacheFresh
      BY <3>1 DEF CoreInv, CopyInv
    <3> QED
      BY <1>1, <2>4, <3>1 DEF RemoveFinalizer, store
  <2> QED
    BY <1>5, <2>2, <2>3, <2>4
       DEF Reconcile, Begin, EnsureFinalizer, SkipWorkspace, VerifyWorkspace, WorkspaceLost,
           ReconcileWorkspace, SaveWorkspace, DeferSpecChange, WaitForJob, RecordCompletion,
           RunSpecChange, RunPending, RunInterval, NoIntervalRun, RecordJob, AdoptJob,
           DeletionSteps
<1>6. pc \in {"idle", "addFinalizer"} \cup ApplySteps \cup DeletionSteps
  BY DEF TypeInv, TypeOK, Steps, ApplySteps, DeletionSteps
<1>7. pc = "addFinalizer" => EnsureFinalizer
  BY DEF Reconcile, Begin, EnsureFinalizer, SkipWorkspace, VerifyWorkspace,
     WorkspaceLost, ReconcileWorkspace, SaveWorkspace, DeferSpecChange, WaitForJob,
     RecordCompletion, RunSpecChange, RunPending, RunInterval, NoIntervalRun, RecordJob,
     AdoptJob, CannotDestroy, AdoptDestroyJob, CreateDestroyJob, RecordDestroyJob,
     FinishDestroy, AwaitDestroyJob, CleanupWorkspace, RemoveFinalizer
<1> QED
  BY <1>2, <1>3, <1>4, <1>5, <1>6, <1>7

(* Only Begin takes a copy without the finalizer to work on.               *)
LEMMA BareTaken ==
  ASSUME [Next]_vars, pc' = "addFinalizer"
  PROVE  my' \in {my, cache}
<1>1. CASE Reconcile
  BY <1>1 DEF Reconcile, Begin, EnsureFinalizer, SkipWorkspace, VerifyWorkspace,
     WorkspaceLost, ReconcileWorkspace, SaveWorkspace, DeferSpecChange, WaitForJob,
     RecordCompletion, RunSpecChange, RunPending, RunInterval, NoIntervalRun, RecordJob,
     AdoptJob, CannotDestroy, AdoptDestroyJob, CreateDestroyJob, RecordDestroyJob,
     FinishDestroy, AwaitDestroyJob, CleanupWorkspace, RemoveFinalizer, createNewJob,
     deleteRemoteWorkspace, SaveThenReturn, Return, Goto, AfterFinalizer, reconcileVars
<1>2. CASE Users \/ Manager \/ Cluster \/ Surroundings \/ UNCHANGED vars
  BY <1>2 DEF Users, UserDelete, UserCreate, UserEdit, Manager, SyncRun, SyncJob,
     TimerFires, Resync, Restart, Cluster, StartPod, PodSucceeds, PodFails, ExpireJob,
     CollectJob, JobStep, Surroundings, WorkspaceVanishes, SecretVanishes, SecretReturns,
     Tick, vars, reconcileVars
<1> QED
  BY <1>1, <1>2 DEF Next

LEMMA NextBare == RunInv /\ BareInv /\ [Next]_vars => BareInv'
<1> SUFFICES ASSUME RunInv, BareInv, [Next]_vars PROVE BareInv'
  OBVIOUS
<1> USE Numbers DEF RunInv, BaseInv
<1>1. Kind /\ TypeInv' /\ CoreInv' /\ Frame
  BY StepKinds, NextStatus, StepHonest
<1>2. NoRun.status.wsID = 0
  BY DEF NoRun, EmptyStatus
<1>3. ASSUME ~obj'.finalizer
      PROVE  obj'.status.wsID = 0
  <2>1. CASE obj.finalizer
    BY <1>1, <1>2, <1>3, <2>1, LostFinalizer
  <2>2. CASE ~obj.finalizer /\ Reconcile
    BY <1>3, <2>2, BareStored
  <2>3. CASE ~obj.finalizer /\ Users
    <3>1. ASSUME NEW spec \in Specs, UserCreate(spec)
          PROVE  obj'.status = NoRun.status
      BY <3>1, NoRunFacts DEF UserCreate, Written, Run
    <3>2. ASSUME NEW spec \in Specs, UserEdit(spec)
          PROVE  obj'.status = obj.status
      BY <3>2, UserRuns
    <3>3. CASE UserDelete
      <4>1. obj' = NoRun
        BY <2>3, <3>3, UserRuns
      <4> QED
        BY <1>2, <4>1
    <3> QED
      BY <1>2, <2>3, <3>1, <3>2, <3>3 DEF Users, BareInv
  <2>4. CASE ~obj.finalizer /\ (Manager \/ Cluster \/ Surroundings \/ UNCHANGED vars)
    <3>1. obj' = obj
      BY <2>4 DEF Manager, SyncRun, TimerFires, Resync, SyncJob, Restart, Cluster, StartPod,
         PodSucceeds, PodFails, ExpireJob, CollectJob, JobStep, Surroundings,
         WorkspaceVanishes, SecretVanishes, SecretReturns, Tick, vars, store
    <3> QED
      BY <2>4, <3>1 DEF BareInv
  <2> QED
    BY <2>1, <2>2, <2>3, <2>4 DEF Next
<1>4. ~cache'.finalizer => cache'.status.wsID = 0
  BY <1>1 DEF Frame, BareInv
<1>5. ASSUME ~my'.finalizer
      PROVE  my'.status.wsID = 0
  <2>1. pc' \notin ApplySteps \cup DeletionSteps
    BY <1>1, <1>5 DEF CoreInv, FinalizerInv
  <2>2. pc' \in {"idle", "addFinalizer"}
    BY <1>1, <2>1 DEF TypeInv, TypeOK, Steps, ApplySteps, DeletionSteps
  <2>3. CASE pc' = "idle"
    BY <1>1, <1>2, <2>3 DEF CoreInv, AbsentInv
  <2>4. CASE pc' = "addFinalizer"
    BY <1>5, <2>4, BareTaken DEF BareInv
  <2> QED
    BY <2>2, <2>3, <2>4
<1> QED
  BY <1>3, <1>4, <1>5 DEF BareInv

LEMMA InitBare == Init => BareInv
BY DEF Init, BareInv, NoRun, EmptyStatus

(* What a reconcile deletes in Scalr is the workspace of the copy it tears *)
(* down; others than CleanupWorkspace delete none.                         *)
LEMMA Deletes ==
  ASSUME TypeInv, Next, pc' # pc, NEW w \in remote \ remote'
  PROVE  CleanupWorkspace /\ w.id # 0
<1>1. w.id # 0
  BY Numbers DEF TypeInv, TypeOK
<1>2. ~Users /\ ~Cluster /\ ~Surroundings
  BY DEF Users, UserDelete, UserCreate, UserEdit, Cluster, StartPod, PodSucceeds, PodFails,
     ExpireJob, CollectJob, JobStep, Surroundings, WorkspaceVanishes, SecretVanishes,
     SecretReturns, Tick, reconcileVars
<1>3. ~Manager
  BY DEF Manager, SyncRun, TimerFires, Resync, Restart, SyncJob, scalr
<1>4. ~ReconcileWorkspace
  BY DEF ReconcileWorkspace, importScalrWorkspace, CreateScalrWorkspace, scalr
<1>5. Reconcile => CleanupWorkspace
  BY <1>4 DEF Reconcile, Begin, EnsureFinalizer, SkipWorkspace, VerifyWorkspace,
     WorkspaceLost, SaveWorkspace, DeferSpecChange, WaitForJob, RecordCompletion,
     RunSpecChange, RunPending, RunInterval, NoIntervalRun, RecordJob, AdoptJob,
     CannotDestroy, AdoptDestroyJob, CreateDestroyJob, RecordDestroyJob, FinishDestroy,
     AwaitDestroyJob, RemoveFinalizer, createNewJob, scalr
<1> QED
  BY <1>1, <1>2, <1>3, <1>5 DEF Next

(* While the object has the finalizer the deletion at work is its own, and *)
(* without it the object names no workspace that cleanup could take away.  *)
THEOREM WorkspaceOfLiving == Spec => LivingKeepsWorkspace
<1>1. ASSUME RunInv, BareInv, Next, pc' # pc, ~obj.deleting, NEW w \in remote \ remote'
      PROVE  w.id # obj.status.wsID
  <2>1. CleanupWorkspace /\ w.id # 0
    BY <1>1, Deletes DEF RunInv, BaseInv
  <2>2. pc \in DeletionSteps /\ pc # "idle"
    BY <2>1 DEF CleanupWorkspace, DeletionSteps
  <2>3. my.deleting /\ Exists(my)
    BY <1>1, <2>2 DEF RunInv, BaseInv, TypeInv, CoreInv, FinalizerInv
  <2>4. ~obj.finalizer
    BY <1>1, <2>2, <2>3 DEF RunInv, BaseInv, CoreInv, CopyInv, Behind, FinalizerInv
  <2> QED
    BY <1>1, <2>1, <2>4 DEF BareInv
<1>2. RunInv /\ BareInv /\ [Next]_vars =>
        [pc' # pc /\ ~obj.deleting =>
           \A w \in remote \ remote' : w.id # obj.status.wsID]_vars
  BY <1>1
<1> QED
  BY <1>2, InitBare, NextBare, RunInvariance, PTL DEF Spec, LivingKeepsWorkspace
=============================================================================
