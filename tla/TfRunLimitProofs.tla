---------------------------- MODULE TfRunLimitProofs ----------------------------
(***************************************************************************)
(* What the limits of the API server come to for a run's name and the two  *)
(* TTL variables of the environment, and what becomes of a run they leave  *)
(* without a destroy job: nothing takes its finalizer, and a deletion of   *)
(* it never ends, whatever the schedule.                                   *)
(***************************************************************************)
EXTENDS TfRunSafetyProofs

-----------------------------------------------------------------------------
(* The conversion of a TTL to 32 bits and back into a range.               *)
LEMMA Wraps ==
  ASSUME NEW size \in Nat \ {0}, NEW rest \in 0..(size - 1)
  PROVE  rest % size = rest /\ (rest + size) % size = rest
<1>1. /\ rest = size * 0 + rest /\ rest + size = size * 1 + rest
  OBVIOUS
<1> QED
  OBVIOUS

(* What getTTL makes of the number in the variable: below ten minutes the  *)
(* default, from there on the number itself as far as 31 bits go, and a    *)
(* negative number up to the next turn.                                    *)
LEMMA TTLRange ==
  ASSUME NEW ttl \in Int
  PROVE  /\ ttl < MinTTL => getTTL(ttl) = TTLDefault
         /\ ttl >= MinTTL /\ ttl < Int32Half => getTTL(ttl) = ttl
         /\ ttl >= MinTTL /\ ttl >= Int32Half /\ ttl < 2 * Int32Half => getTTL(ttl) < 0
<1> USE TTLAssumption
<1>1. ttl < MinTTL => getTTL(ttl) = TTLDefault
  BY DEF getTTL, MinTTL
<1>2. ASSUME ttl >= MinTTL, ttl < Int32Half
      PROVE  getTTL(ttl) = ttl
  <2>1. ttl + Int32Half \in 0..(2 * Int32Half - 1) /\ 2 * Int32Half \in Nat \ {0}
    BY <1>2 DEF MinTTL
  <2>2. (ttl + Int32Half) % (2 * Int32Half) = ttl + Int32Half
    BY <2>1, Wraps
  <2> QED
    BY <1>2, <2>2 DEF getTTL, ToInt32
<1>3. ASSUME ttl >= MinTTL, ttl >= Int32Half, ttl < 2 * Int32Half
      PROVE  getTTL(ttl) < 0
  <2> DEFINE rest == ttl - Int32Half
  <2>1. rest \in 0..(2 * Int32Half - 1) /\ 2 * Int32Half \in Nat \ {0}
    BY <1>3
  <2>2. (rest + 2 * Int32Half) % (2 * Int32Half) = rest
    BY <2>1, Wraps
  <2>3. ttl + Int32Half = rest + 2 * Int32Half
    OBVIOUS
  <2>4. getTTL(ttl) = rest - Int32Half
    BY <1>3, <2>2, <2>3 DEF getTTL, ToInt32
  <2> QED
    BY <1>3, <2>4
<1> QED
  BY <1>1, <1>2, <1>3

(* A run can have a destroy job exactly if its name leaves room for the    *)
(* suffix "-destroy" and the TTL of destroy jobs is one 31 bits hold.      *)
LEMMA DestroyValid ==
  Valid(DestroyName) <=> RunNameLength <= 55 /\ getTTL(JobTTLDestroy) >= 0
BY NameAssumption DEF Valid, NameLength, MaxNameLength, TTLOf

(* An apply job of it, if its name fits the owner's label.                 *)
LEMMA ApplyValid ==
  ASSUME NEW runID \in RunIDs
  PROVE  Valid(buildJobName(runID)) <=>
           RunNameLength <= 63 /\ getTTL(JobTTLSuccess) >= 0
<1>1. buildJobName(runID) # DestroyName
  BY DEF buildJobName, DestroyName
<1> QED
  BY <1>1 DEF Valid, NameLength, MaxNameLength, TTLOf

-----------------------------------------------------------------------------
(* Every job that is created is one the API server takes.                  *)
AllValid == \A e \in created : Valid(e[2])

LEMMA ReconcileValid ==
  ASSUME AllValid, Reconcile
  PROVE  AllValid'
<1>1. ASSUME NEW name, Store(name), Valid(name)
      PROVE  AllValid'
  BY <1>1 DEF Store, AllValid
<1>2. CASE created' = created
  BY <1>2 DEF AllValid
<1>3. ASSUME NEW hash, createNewJob(hash)
      PROVE  AllValid'
  <2>1. \/ created' = created
        \/ \E name : Store(name) /\ Valid(name)
    BY <1>3 DEF createNewJob, jobVars
  <2> QED
    BY <1>1, <1>2, <2>1
<1>4. CASE RunSpecChange \/ RunPending \/ RunInterval
  BY <1>3, <1>4 DEF RunSpecChange, RunPending, RunInterval
<1>5. CASE CreateDestroyJob
  <2>1. created' = created \/ (Store(DestroyName) /\ Valid(DestroyName))
    BY <1>5 DEF CreateDestroyJob, jobVars
  <2> QED
    BY <1>1, <1>2, <2>1
<1>6. CASE ~(RunSpecChange \/ RunPending \/ RunInterval \/ CreateDestroyJob)
  <2>1. UNCHANGED jobVars
    BY <1>6 DEF Reconcile, Begin, EnsureFinalizer, SkipWorkspace, VerifyWorkspace,
       WorkspaceLost, ReconcileWorkspace, SaveWorkspace, DeferSpecChange, WaitForJob,
       RecordCompletion, NoIntervalRun, RecordJob, AdoptJob, CannotDestroy,
       AdoptDestroyJob, RecordDestroyJob, FinishDestroy, AwaitDestroyJob,
       CleanupWorkspace, RemoveFinalizer
  <2> QED
    BY <1>2, <2>1 DEF jobVars
<1> QED
  BY <1>4, <1>5, <1>6

LEMMA NextValid == AllValid /\ [Next]_vars => AllValid'
<1> SUFFICES ASSUME AllValid, [Next]_vars
             PROVE  AllValid'
  OBVIOUS
<1>1. CASE created' = created
  BY <1>1 DEF AllValid
<1>2. CASE Cluster
  BY <1>1, <1>2 DEF Cluster, StartPod, PodSucceeds, PodFails, ExpireJob, CollectJob, JobStep
<1>3. CASE Users \/ Manager \/ Surroundings \/ UNCHANGED vars
  BY <1>1, <1>3 DEF Users, UserDelete, UserCreate, UserEdit, Manager, SyncRun, TimerFires,
     Resync, Restart, SyncJob, Surroundings, WorkspaceVanishes, SecretVanishes,
     SecretReturns, Tick, vars, jobVars
<1> QED
  BY <1>2, <1>3, ReconcileValid DEF Next

(* No job is ever created whose name, owner's label or TTL the API server  *)
(* refuses: what a run's limits rule out is never started, by any path.    *)
LEMMA OnlyValid == Spec => []AllValid
<1>1. Init => AllValid
  BY DEF Init, AllValid
<1> QED
  BY <1>1, NextValid, PTL DEF Spec

-----------------------------------------------------------------------------
(* A step that ends a deletion removes the finalizer, and so comes after a *)
(* destroy job.                                                            *)
LEMMA EndsAfterDestroy ==
  ASSUME BaseInv, [Next]_vars, obj.deleting, ~obj'.deleting
  PROVE  DestroyStarted
<1> USE Numbers, NoRunFacts DEF BaseInv
<1>1. Kind
  BY StepKinds
<1>2. obj.finalizer /\ Exists(obj)
  BY DEF CoreInv, FinalizerInv, AbsentInv
<1>3. ~Calm /\ ~Adds
  BY AddsFacts DEF Calm, StoreCalm, SameRun
<1>4. ~Starts /\ ~StartsApply /\ ~StartsDestroy /\ ~SyncRun /\ ~Restart
  BY DEF Starts, Begin, StartsApply, StartsDestroy, SyncRun, Restart, store
<1>5. ~(UserDelete \/ \E spec \in Specs : UserCreate(spec) \/ UserEdit(spec))
  BY <1>2, UserRuns
<1>6. Removes
  BY <1>1, <1>3, <1>4, <1>5 DEF Kind
<1>7. ~obj'.finalizer
  BY <1>6 DEF Removes
<1> QED
  BY <1>1, <1>2, <1>7, LostFinalizer

(* A run that cannot have a destroy job, for its name or for the TTL, is   *)
(* never rid of its finalizer: once its deletion is asked for it is being  *)
(* deleted for ever, under every schedule and every fault.                 *)
THEOREM NeverGoes == ~Valid(DestroyName) => (Spec => [](obj.deleting => []obj.deleting))
<1> SUFFICES ASSUME ~Valid(DestroyName)
             PROVE  Spec => [](obj.deleting => []obj.deleting)
  OBVIOUS
<1>1. AllValid => ~DestroyStarted
  BY DEF AllValid, DestroyStarted
<1>2. BaseInv /\ AllValid /\ [Next]_vars => (obj.deleting => obj'.deleting)
  BY <1>1, EndsAfterDestroy
<1> DEFINE Going == obj.deleting
<1>3. BaseInv /\ AllValid /\ Going /\ [Next]_vars => Going'
  BY <1>2
<1>4. Spec => [](Going => []Going)
  <2> HIDE DEF Going
  <2> QED
    BY <1>3, BaseInvariance, OnlyValid, PTL DEF Spec
<1> QED
  BY <1>4

(* DeletionCompletes holds of such a run only if nobody ever deletes it.   *)
THEOREM CompletesInVain ==
  ~Valid(DestroyName) => (Spec /\ DeletionCompletes => []~obj.deleting)
<1> SUFFICES ASSUME ~Valid(DestroyName)
             PROVE  Spec /\ DeletionCompletes => []~obj.deleting
  OBVIOUS
<1> DEFINE Going == obj.deleting
<1>1. Spec => [](Going => []Going)
  BY NeverGoes
<1>2. DeletionCompletes => (Going ~> ~Going)
  BY DEF DeletionCompletes
<1>3. Spec /\ DeletionCompletes => []~Going
  <2> HIDE DEF Going
  <2> QED
    BY <1>1, <1>2, PTL
<1> QED
  BY <1>3
=============================================================================
