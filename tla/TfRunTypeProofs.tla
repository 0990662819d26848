---------------------------- MODULE TfRunTypeProofs ----------------------------
(***************************************************************************)
(* TypeInv, step by step, for every value of the constants: the lemmas for *)
(* the operators the actions share, then one for each group of actions.    *)
(***************************************************************************)
EXTENDS TfRunInvariant, TLAPS

-----------------------------------------------------------------------------
(* The names and jobs the controller makes are names and jobs.             *)
LEMMA NameTypes ==
  ASSUME NEW runID \in RunIDs
  PROVE  buildJobName(runID) \in JobNames /\ buildJobName(runID) # DestroyName
BY DEF buildJobName, JobNames, DestroyName

LEMMA RunIDTypes ==
  ASSUME NEW g \in Generations, NEW h \in Hashes
  PROVE  /\ BuildRunID(g, h) \in RunIDs
         /\ buildJobName(BuildRunID(g, h)) \in JobNames
         /\ buildJobName(BuildRunID(g, h)) # DestroyName
<1>1. BuildRunID(g, h) \in RunIDs
  BY DEF BuildRunID, RunIDs
<1> QED
  BY <1>1, NameTypes

(* The schema's defaults complete a spec, and leave a complete one alone.  *)
LEMMA DefaultedTypes ==
  ASSUME NEW s \in StoredSpecs
  PROVE  /\ s \in SpecType /\ Defaulted(s) \in StoredSpecs
         /\ Complete(Defaulted(s)) /\ (Complete(s) <=> Defaulted(s) = s)
<1>1. ASSUME NEW t \in Specs
      PROVE  Defaulted(t) \in StoredSpecs /\ Complete(Defaulted(t))
  <2>1. t \in StoredSpecs /\ Defaulted(t) \in StoredSpecs
    BY DEF StoredSpecs
  <2>2. CASE Complete(t)
    BY <2>1, <2>2 DEF Defaulted
  <2>3. CASE ~Complete(t)
    <3>1. Defaulted(t) = Defaults[t]
      BY <2>3 DEF Defaulted
    <3>2. Defaults[t].engine # "none"
      BY <2>3, SpecsAssumption
    <3>3. Defaults[t].backend # "none"
      BY <2>1, <2>3, <3>1, SpecsAssumption
    <3> QED
      BY <2>1, <3>1, <3>2, <3>3 DEF Complete
  <2> QED
    BY <2>2, <2>3
<1>2. CASE s \in Specs
  <2>1. Defaulted(s) \in StoredSpecs /\ Complete(Defaulted(s))
    BY <1>1, <1>2
  <2> QED
    BY <2>1, SpecsAssumption DEF Defaulted
<1>3. CASE s \notin Specs
  <2>1. PICK t \in Specs : s = Defaulted(t)
    BY <1>3 DEF StoredSpecs
  <2>2. Complete(s)
    BY <1>1, <2>1
  <2> QED
    BY <2>2, SpecsAssumption DEF Defaulted
<1> QED
  BY <1>2, <1>3

LEMMA JobTypes ==
  /\ NoJob \in Job
  /\ \A uid \in Uids, h \in Hashes \cup {NoHash} :
        NewJob(uid, h) \in Job /\ NewJob(uid, h).uid = uid /\ NewJob(uid, h).active = 0
<1>1. 0 \in Uids /\ 0 \in 0..(BackoffLimit + 1)
  BY BoundsAssumption DEF Uids
<1>2. NoJob \in Job
  BY <1>1 DEF NoJob, Job
<1>3. ASSUME NEW uid \in Uids, NEW h \in Hashes \cup {NoHash}
      PROVE  /\ NewJob(uid, h) \in Job
             /\ NewJob(uid, h).uid = uid /\ NewJob(uid, h).active = 0
  BY <1>1 DEF NewJob, Job
<1> QED
  BY <1>2, <1>3

LEMMA RunTypes ==
  /\ NoRun \in Run /\ ~Exists(NoRun)
  /\ \A run \in Run, st \in Status : [run EXCEPT !.status = st] \in Run
<1>1. 0 \in Uids /\ 0 \in Generations /\ 0 \in 0..MaxWs /\ 0 \in 0..(MaxTicks + 1)
  BY BoundsAssumption DEF Uids, Generations
<1>2. EmptyStatus \in Status
  BY <1>1 DEF EmptyStatus, Status, Phases
<1> QED
  BY <1>1, <1>2 DEF NoRun, Run, Exists

(* A status keeps its type under every assignment the controller makes.    *)
LEMMA StatusTypes ==
  ASSUME NEW st \in Status
  PROVE  /\ \A p \in Phases : [st EXCEPT !.phase = p] \in Status
         /\ \A h \in Hashes \cup {NoHash} : [st EXCEPT !.pendingHash = h] \in Status
         /\ [st EXCEPT !.nextRun = 0] \in Status
         /\ [st EXCEPT !.activeDestroy = FALSE] \in Status
         /\ [st EXCEPT !.phase = "Failed", !.activeDestroy = FALSE] \in Status
         /\ [st EXCEPT !.activeDestroy = TRUE, !.phase = "Pending"] \in Status
         /\ \A g \in Generations :
              [st EXCEPT !.activeDestroy = TRUE, !.phase = "Pending",
                         !.observedGen = g] \in Status
         /\ \A g \in Generations, n \in JobNames \cup {NoName} :
              [st EXCEPT !.activeJob = n, !.phase = "Running",
                         !.observedGen = g] \in Status
         /\ AsFailed(st) \in Status
<1>1. \A p \in Phases : [st EXCEPT !.phase = p] \in Status
  BY DEF Status
<1>2. \A h \in Hashes \cup {NoHash} : [st EXCEPT !.pendingHash = h] \in Status
  BY DEF Status
<1>3. [st EXCEPT !.nextRun = 0] \in Status
  <2>1. 0 \in 0..(MaxTicks + 1)
    BY BoundsAssumption
  <2> QED
    BY <2>1 DEF Status
<1>8. [st EXCEPT !.activeDestroy = FALSE] \in Status
  BY DEF Status
<1>4. /\ [st EXCEPT !.phase = "Failed", !.activeDestroy = FALSE] \in Status
      /\ [st EXCEPT !.activeDestroy = TRUE, !.phase = "Pending"] \in Status
  BY DEF Status, Phases
<1>5. ASSUME NEW g \in Generations
      PROVE  [st EXCEPT !.activeDestroy = TRUE, !.phase = "Pending",
                        !.observedGen = g] \in Status
  BY DEF Status, Phases
<1>6. ASSUME NEW g \in Generations, NEW n \in JobNames \cup {NoName}
      PROVE  [st EXCEPT !.activeJob = n, !.phase = "Running",
                        !.observedGen = g] \in Status
  BY DEF Status, Phases
<1>7. AsFailed(st) \in Status
  BY DEF Status, Phases, AsFailed
<1> QED
  BY <1>1, <1>2, <1>3, <1>4, <1>5, <1>6, <1>7, <1>8

LEMMA RunningTypes ==
  ASSUME NEW st \in Status, NEW n \in JobNames \cup {NoName},
         NEW h \in Hashes \cup {NoHash}, NEW g \in Generations,
         NEW t \in 0..(MaxTicks + 1)
  PROVE  [st EXCEPT !.activeJob = n, !.lastHash = h, !.phase = "Running",
                    !.observedGen = g, !.pendingHash = NoHash, !.nextRun = t] \in Status
BY DEF Status, Phases
-----------------------------------------------------------------------------
(* TypeInv by the variables that the actions' frames keep together.        *)
RunOK(run) == run \in Run /\ (Exists(run) => run.spec \in StoredSpecs)

StoreOK == RunOK(obj) /\ GenBounded(obj) /\ cacheFresh \in BOOLEAN

JobsOK ==
  /\ jobs \in [JobNames -> Job] /\ jobLag \subseteq JobNames
  /\ created \subseteq Uids \X JobNames
  /\ last \in [uid : Uids, gen : Generations, content : Hashes \cup {NoHash}]
  /\ \A name \in JobNames : isJobActive(jobs[name]) => ~Finished(jobs[name])

ScalrOK == remote \subseteq [id : 1..MaxWs, place : Places] /\ wsCount \in 0..MaxWs

OutsideOK ==
  /\ RunOK(cache) /\ jobCache \in [JobNames -> Job]
  /\ gitSecret \in BOOLEAN /\ now \in 0..MaxTicks /\ lives \in Uids

WorkerOK ==
  /\ RunOK(my) /\ fresh \in BOOLEAN
  /\ pc \in Steps /\ target \in RunIDs \cup {NoRunID}
  /\ pc # "idle" => Exists(my)
  /\ pc \in {"record", "adopt"} => target \in RunIDs

QueueOK == queued \in BOOLEAN /\ delayed \in BOOLEAN /\ faults \in 0..MaxFaults

LEMMA TypeParts ==
  TypeInv <=> StoreOK /\ JobsOK /\ ScalrOK /\ OutsideOK /\ WorkerOK /\ QueueOK
BY DEF TypeInv, TypeOK, StoreOK, JobsOK, ScalrOK, OutsideOK, WorkerOK, QueueOK, RunOK

LEMMA TypePartsPrime ==
  (StoreOK /\ JobsOK /\ ScalrOK /\ OutsideOK /\ WorkerOK /\ QueueOK)' => TypeInv'
BY DEF TypeInv, TypeOK, StoreOK, JobsOK, ScalrOK, OutsideOK, WorkerOK, QueueOK, RunOK

(* A frame that is left alone keeps its part.                              *)
LEMMA StoreKept == StoreOK /\ UNCHANGED store => StoreOK'
BY DEF StoreOK, store, RunOK, GenBounded, Exists

LEMMA JobsKept == JobsOK /\ UNCHANGED jobVars => JobsOK'
BY DEF JobsOK, jobVars, isJobActive, Finished

LEMMA ScalrKept == ScalrOK /\ UNCHANGED scalr => ScalrOK'
BY DEF ScalrOK, scalr

LEMMA OutsideKept == OutsideOK /\ UNCHANGED outside => OutsideOK'
BY DEF OutsideOK, outside, RunOK, Exists

LEMMA WorkerKept == WorkerOK /\ UNCHANGED reconcileVars => WorkerOK'
BY DEF WorkerOK, reconcileVars, RunOK, Exists

LEMMA QueueKept == QueueOK /\ UNCHANGED <<queue, faults>> => QueueOK'
BY DEF QueueOK, queue

LEMMA FaultCount ==
  ASSUME faults \in 0..MaxFaults, NEW kind, NoFault \/ Fault(kind)
  PROVE  faults' \in 0..MaxFaults
BY FaultAssumption DEF Fault, NoFault

LEMMA Faulty ==
  ASSUME QueueOK, UNCHANGED queue, NoFault \/ \E kind \in FaultKinds : Fault(kind)
  PROVE  QueueOK'
BY FaultAssumption DEF QueueOK, queue, Fault, NoFault

(* The ways a reconcile goes on and ends.                                  *)
LEMMA NoRunOK == RunOK(NoRun) /\ GenBounded(NoRun)
<1>1. NoRun.gen = 0 /\ ~Exists(NoRun)
  BY RunTypes DEF NoRun
<1> QED
  BY <1>1, RunTypes, BoundsAssumption DEF RunOK, GenBounded

LEMMA ReturnOK ==
  ASSUME NEW requeue \in BOOLEAN, NEW after \in BOOLEAN, Return(requeue, after)
  PROVE  WorkerOK' /\ (QueueOK /\ faults' \in 0..MaxFaults => QueueOK')
BY RunTypes DEF Return, WorkerOK, QueueOK, RunOK, Steps, Exists

LEMMA StatusStoredOK ==
  ASSUME StoreOK, NEW st \in Status, StatusStored(st)
  PROVE  StoreOK'
<1>1. obj \in Run /\ obj' = [obj EXCEPT !.status = st]
  BY DEF StoreOK, StatusStored, RunOK
<1>2. obj' \in Run
  BY <1>1, RunTypes
<1>3. obj'.uid = obj.uid /\ obj'.spec = obj.spec /\ obj'.gen = obj.gen
        /\ obj'.deleting = obj.deleting
  BY <1>1 DEF Run
<1>4. cacheFresh' \in BOOLEAN
  BY DEF StoreOK, StatusStored
<1> QED
  BY <1>2, <1>3, <1>4 DEF StoreOK, RunOK, GenBounded, Exists

LEMMA SaveIgnoringErrorOK ==
  ASSUME StoreOK, NEW st \in Status, NEW current, SaveIgnoringError(current, st)
  PROVE  StoreOK'
BY StatusStoredOK, StoreKept DEF SaveIgnoringError

LEMMA SaveThenReturnOK ==
  ASSUME StoreOK, QueueOK, NEW st \in Status, NEW current, NEW after \in BOOLEAN,
         SaveThenReturn(current, st, after), faults' \in 0..MaxFaults
  PROVE  StoreOK' /\ WorkerOK' /\ QueueOK'
<1>1. CASE StatusStored(st) /\ Return(FALSE, after)
  BY <1>1, StatusStoredOK, ReturnOK
<1>2. CASE UNCHANGED store /\ Return(TRUE, FALSE)
  BY <1>2, StoreKept, ReturnOK
<1> QED
  BY <1>1, <1>2 DEF SaveThenReturn
-----------------------------------------------------------------------------
(* One lemma for each part of the controller.                              *)

(* The update that adds the finalizer stays within the generation's bound, *)
(* which leaves room for the defaults.                                     *)
LEMMA FinalizerTypes ==
  ASSUME NEW run, RunOK(run), GenBounded(run), Exists(run)
  PROVE  LET new == WithFinalizer(run) IN
         /\ RunOK(new) /\ GenBounded(new) /\ Exists(new)
         /\ new.uid = run.uid /\ new.deleting = run.deleting /\ new.finalizer = TRUE
         /\ new.status = run.status /\ new.gen \in {run.gen, run.gen + 1}
<1> DEFINE new == WithFinalizer(run)
<1>1. run \in Run /\ run.spec \in StoredSpecs /\ run.gen \in Generations
        /\ run.deleting \in BOOLEAN
  BY DEF RunOK, Run
<1>2. /\ Defaulted(run.spec) \in StoredSpecs /\ Defaulted(run.spec) \in SpecType
      /\ Complete(Defaulted(run.spec))
      /\ Complete(run.spec) <=> Defaulted(run.spec) = run.spec
  BY <1>1, DefaultedTypes
<1> DEFINE g == IF Defaulted(run.spec) = run.spec THEN run.gen ELSE run.gen + 1
<1>3. g \in {run.gen, run.gen + 1} /\ g \in Generations
        /\ g + (IF run.deleting THEN 0 ELSE 1) <= MaxGen + 2
  BY <1>1, <1>2, BoundsAssumption DEF GenBounded, Generations
<1>4. new = [run EXCEPT !.finalizer = TRUE, !.spec = Defaulted(run.spec), !.gen = g]
  BY DEF WithFinalizer
<1> HIDE DEF g
<1>5. /\ new \in Run /\ new.uid = run.uid /\ new.deleting = run.deleting
      /\ new.finalizer = TRUE /\ new.status = run.status
      /\ new.spec = Defaulted(run.spec) /\ new.gen = g
  BY <1>1, <1>2, <1>3, <1>4 DEF Run
<1> HIDE DEF new
<1>6. RunOK(new) /\ Exists(new)
  BY <1>2, <1>5 DEF RunOK, Exists
<1>7. GenBounded(new)
  BY <1>1, <1>2, <1>3, <1>5, BoundsAssumption DEF GenBounded, Generations
<1> QED
  BY <1>3, <1>5, <1>6, <1>7 DEF new

LEMMA BeginTypes ==
  ASSUME TypeInv, fresh => my.uid = obj.uid, Begin \/ EnsureFinalizer
  PROVE  TypeInv'
<1> USE TypeParts
<1>1. CASE Begin
  <2>1. StoreOK' /\ JobsOK' /\ ScalrOK' /\ OutsideOK'
    BY <1>1, StoreKept, JobsKept, ScalrKept, OutsideKept DEF Begin
  <2>2. QueueOK'
    BY <1>1 DEF Begin, QueueOK
  <2>3. CASE Exists(cache)
    <3>1. RunOK(my') /\ fresh' \in BOOLEAN /\ target' = NoRunID
      BY <1>1, <2>3 DEF Begin, OutsideOK, StoreOK
    <3>2. pc' \in Steps /\ pc' \notin {"record", "adopt"} /\ Exists(my)'
      BY <1>1, <2>3 DEF Begin, AfterFinalizer, Steps, Exists
    <3> QED
      BY <2>1, <2>2, <3>1, <3>2, TypePartsPrime DEF WorkerOK, RunOK, Exists
  <2>4. CASE ~Exists(cache)
    BY <1>1, <2>1, <2>2, <2>4, WorkerKept, TypePartsPrime DEF Begin
  <2> QED
    BY <2>3, <2>4
<1>2. CASE EnsureFinalizer
  <2>1. JobsOK' /\ ScalrOK' /\ OutsideOK'
    BY <1>2, JobsKept, ScalrKept, OutsideKept DEF EnsureFinalizer
  <2>2. CASE fresh
    <3>1. Exists(obj)
      BY <1>2, <2>2 DEF EnsureFinalizer, WorkerOK, Exists
    <3>2. RunOK(obj') /\ GenBounded(obj') /\ Exists(obj')
      BY <1>2, <2>2, <3>1, FinalizerTypes DEF EnsureFinalizer, StoreOK
    <3>3. StoreOK'
      BY <1>2, <2>2, <3>2 DEF EnsureFinalizer, StoreOK, RunOK, GenBounded, Exists
    <3>5. WorkerOK'
      BY <1>2, <2>2, <3>2 DEF EnsureFinalizer, WorkerOK, RunOK, Exists, Goto,
                              AfterFinalizer, Steps
    <3>4. QueueOK'
      BY <1>2, <2>2, QueueKept DEF EnsureFinalizer, Goto
    <3> QED
      BY <2>1, <3>3, <3>4, <3>5, TypePartsPrime
  <2>3. CASE ~fresh
    BY <1>2, <2>1, <2>3, StoreKept, ReturnOK, TypePartsPrime
       DEF EnsureFinalizer, QueueOK
  <2> QED
    BY <2>2, <2>3
<1> QED
  BY <1>1, <1>2

LEMMA ImportTypes == ImportID \in 0..MaxWs /\ Len(Existing) \in 0..MaxWs
<1>1. Len(Existing) \in Nat
  BY WorkspaceAssumption
<1> QED
  BY <1>1, WorkspaceAssumption, BoundsAssumption

(* What the workspace calls make of the run at hand.                       *)
LEMMA WorkspaceRunTypes ==
  ASSUME WorkerOK, Exists(my)
  PROVE  /\ RunOK(WorkspaceFailed) /\ Exists(WorkspaceFailed)
         /\ RunOK(WorkspacePending) /\ Exists(WorkspacePending)
         /\ \A id \in 0..MaxWs : RunOK(WorkspaceReady(id)) /\ Exists(WorkspaceReady(id))
         /\ LET lost == [my EXCEPT !.status.phase = "Failed", !.status.wsReady = FALSE,
                                   !.status.wsID = 0]
            IN RunOK(lost) /\ Exists(lost)
<1>1. my \in Run /\ my.status \in Status /\ my.gen \in Generations
        /\ my.spec \in StoredSpecs /\ 0 \in 0..MaxWs
  BY BoundsAssumption DEF WorkerOK, RunOK, Run
<1>2. ASSUME NEW p \in Phases, NEW ready \in BOOLEAN
      PROVE  LET run == [my EXCEPT !.status.phase = p, !.status.wsReady = ready]
             IN  run \in Run /\ run.uid = my.uid /\ run.spec = my.spec
  BY <1>1 DEF Run, Status
<1>3. RunOK(WorkspaceFailed) /\ Exists(WorkspaceFailed)
  BY <1>1, <1>2 DEF WorkspaceFailed, RunOK, Exists, Phases
<1>4. ASSUME NEW ready \in BOOLEAN, NEW g \in Generations
      PROVE  LET run == [my EXCEPT !.status.phase = "Pending", !.status.wsReady = ready,
                                   !.status.observedGen = g]
             IN  run \in Run /\ run.uid = my.uid /\ run.spec = my.spec
  BY <1>1 DEF Run, Status, Phases
<1>5. RunOK(WorkspacePending) /\ Exists(WorkspacePending)
  BY <1>1, <1>4 DEF WorkspacePending, RunOK, Exists
<1>6. ASSUME NEW id \in 0..MaxWs
      PROVE  WorkspaceReady(id) \in Run /\ WorkspaceReady(id).uid = my.uid
             /\ WorkspaceReady(id).spec = my.spec
  BY <1>1 DEF WorkspaceReady, Run, Status, Phases
<1>7. LET lost == [my EXCEPT !.status.phase = "Failed", !.status.wsReady = FALSE,
                             !.status.wsID = 0]
      IN  lost \in Run /\ lost.uid = my.uid /\ lost.spec = my.spec
  BY <1>1 DEF Run, Status, Phases
<1> QED
  BY <1>1, <1>3, <1>5, <1>6, <1>7 DEF RunOK, Exists

LEMMA WorkspaceTypes ==
  ASSUME TypeInv,
         SkipWorkspace \/ VerifyWorkspace \/ WorkspaceLost \/ ReconcileWorkspace
           \/ SaveWorkspace
  PROVE  TypeInv'
<1> USE TypeParts
<1>1. Exists(my) /\ my.status \in Status
  BY DEF SkipWorkspace, VerifyWorkspace, WorkspaceLost, ReconcileWorkspace,
         SaveWorkspace, WorkerOK, RunOK, Run
<1>2. CASE SkipWorkspace
  <2>1. WorkerOK'
    BY <1>2 DEF SkipWorkspace, Goto, WorkerOK, RunOK, Exists, Steps
  <2> QED
    BY <1>2, <2>1, StoreKept, JobsKept, ScalrKept, OutsideKept, QueueKept, TypePartsPrime
       DEF SkipWorkspace, Goto
<1>3. CASE VerifyWorkspace
  <2>1. StoreOK' /\ JobsOK' /\ ScalrOK' /\ OutsideOK'
    BY <1>3, StoreKept, JobsKept, ScalrKept, OutsideKept DEF VerifyWorkspace
  <2>2. QueueOK'
    BY <1>3, Faulty DEF VerifyWorkspace, Goto, FaultKinds
  <2>3. RunOK(my') /\ Exists(my')
    BY <1>1, <1>3, WorkspaceRunTypes DEF VerifyWorkspace, WorkerOK, WorkspaceFailed
  <2>4. WorkerOK'
    BY <1>3, <2>3 DEF VerifyWorkspace, Goto, WorkerOK, RunOK, Exists, Steps
  <2> QED
    BY <2>1, <2>2, <2>4, TypePartsPrime
<1>4. CASE WorkspaceLost
  BY <1>1, <1>4, SaveIgnoringErrorOK, ReturnOK, JobsKept, ScalrKept, OutsideKept,
     TypePartsPrime DEF WorkspaceLost, QueueOK
<1>5. CASE ReconcileWorkspace
  <2>1. StoreOK' /\ JobsOK' /\ OutsideOK'
    BY <1>5, StoreKept, JobsKept, OutsideKept DEF ReconcileWorkspace
  <2>2. QueueOK'
    BY <1>5, Faulty DEF ReconcileWorkspace, Goto, FaultKinds, importScalrWorkspace,
                        CreateScalrWorkspace
  <2>3. RunOK(my') /\ Exists(my') /\ ScalrOK'
    <3>1. CASE my' = WorkspaceFailed /\ UNCHANGED scalr
      BY <1>1, <3>1, WorkspaceRunTypes, ScalrKept
    <3>2. CASE importScalrWorkspace
      BY <1>1, <3>2, WorkspaceRunTypes, ScalrKept, ImportTypes
         DEF importScalrWorkspace
    <3>3. CASE /\ CreateScalrWorkspace /\ wsCount' = wsCount + 1 /\ wsCount < MaxWs
               /\ remote' = remote \cup {[id |-> wsCount', place |-> my.spec.place]}
               /\ ForProvider(my.spec)
      <4>1. wsCount' \in 1..MaxWs /\ wsCount' \in 0..MaxWs
        BY <3>3, BoundsAssumption DEF ScalrOK
      <4>4. my.spec.place \in Places
        BY <1>1, <3>3, SpecsAssumption DEF WorkerOK, RunOK, ForProvider
      <4>2. ScalrOK'
        BY <3>3, <4>1, <4>4 DEF ScalrOK
      <4>3. my' \in {WorkspaceFailed, WorkspacePending, WorkspaceReady(wsCount')}
        BY <3>3 DEF CreateScalrWorkspace
      <4> QED
        BY <1>1, <4>1, <4>2, <4>3, WorkspaceRunTypes
    <3> QED
      BY <1>5, <3>1, <3>2, <3>3 DEF ReconcileWorkspace, CreateScalrWorkspace
  <2>4. WorkerOK'
    BY <1>5, <2>3 DEF ReconcileWorkspace, Goto, WorkerOK, RunOK, Exists, Steps
  <2> QED
    BY <2>1, <2>2, <2>3, <2>4, TypePartsPrime
<1>6. CASE SaveWorkspace
  <2>1. JobsOK' /\ ScalrOK' /\ OutsideOK'
    BY <1>6, JobsKept, ScalrKept, OutsideKept DEF SaveWorkspace
  <2>2. CASE StatusStored(my.status) /\ Goto("jobs") /\ UNCHANGED <<my, fresh, target>>
    <3>1. WorkerOK'
      BY <1>1, <2>2 DEF Goto, WorkerOK, RunOK, Exists, Steps
    <3> QED
      BY <1>1, <1>6, <2>1, <2>2, <3>1, StatusStoredOK, QueueKept, TypePartsPrime
         DEF SaveWorkspace, Goto
  <2>3. CASE UNCHANGED store /\ Return(TRUE, FALSE)
    BY <1>6, <2>1, <2>3, StoreKept, ReturnOK, TypePartsPrime DEF SaveWorkspace, QueueOK
  <2> QED
    BY <1>6, <2>2, <2>3 DEF SaveWorkspace
<1> QED
  BY <1>2, <1>3, <1>4, <1>5, <1>6

(* The busy worker's copy.                                                 *)
LEMMA BusyTypes ==
  ASSUME TypeInv, pc # "idle"
  PROVE  /\ my.uid \in Uids \ {0} /\ my.gen \in Generations
         /\ my.spec \in SpecType /\ my.spec.hash \in Hashes /\ my.status \in Status
         /\ faults \in 0..MaxFaults
<1>1. my \in Run /\ Exists(my) /\ my.spec \in SpecType
  BY DefaultedTypes DEF TypeInv, TypeOK
<1> QED
  BY <1>1 DEF Run, Exists, SpecType, TypeInv, TypeOK

(* A job that is stored, and the history that goes with it.                *)
LEMMA StoreTypes ==
  ASSUME TypeInv, pc # "idle", NEW name \in JobNames, Store(name),
         \/ last' = last
         \/ last' = [uid |-> my.uid, gen |-> my.gen, content |-> my.spec.hash]
  PROVE  JobsOK'
<1>1. my.uid \in Uids /\ my.gen \in Generations /\ my.spec.hash \in Hashes
  BY BusyTypes
<1>2. JobsOK
  BY TypeParts
<1> DEFINE new == NewJob(my.uid, my.spec.hash)
<1>3. new \in Job /\ ~isJobActive(new)
  BY <1>1, JobTypes DEF isJobActive
<1>4. jobs' = [jobs EXCEPT ![name] = new] /\ jobLag' = jobLag \cup {name}
        /\ created' = created \cup {<<my.uid, name>>}
  BY DEF Store
<1> HIDE DEF new
<1>5. jobs' \in [JobNames -> Job]
        /\ \A n \in JobNames : isJobActive(jobs'[n]) => ~Finished(jobs'[n])
  BY <1>2, <1>3, <1>4 DEF JobsOK, Finished, isJobActive
<1>6. last' \in [uid : Uids, gen : Generations, content : Hashes \cup {NoHash}]
  BY <1>1, <1>2 DEF JobsOK
<1>7. jobLag' \subseteq JobNames /\ created' \subseteq Uids \X JobNames
  BY <1>1, <1>2, <1>4 DEF JobsOK
<1> QED
  BY <1>5, <1>6, <1>7 DEF JobsOK, isJobActive, Finished

LEMMA CreateNewJobTypes ==
  ASSUME TypeInv, pc # "idle", NEW hash \in Hashes, createNewJob(hash),
         UNCHANGED <<scalr, outside>>
  PROVE  TypeInv'
<1> USE TypeParts
<1> DEFINE runID == BuildRunID(my.gen, hash)
           name  == buildJobName(runID)
<1>1. /\ runID \in RunIDs /\ name \in JobNames
      /\ my.status \in Status /\ AsFailed(my.status) \in Status
      /\ Exists(my) /\ faults \in 0..MaxFaults
  BY BusyTypes, RunIDTypes, StatusTypes DEF WorkerOK
<1> HIDE DEF name, runID
<1>2. ScalrOK' /\ OutsideOK'
  BY ScalrKept, OutsideKept
<1>3. CASE SaveThenReturn(fresh, AsFailed(my.status), FALSE) /\ NoFault /\ UNCHANGED jobVars
  BY <1>1, <1>2, <1>3, SaveThenReturnOK, JobsKept, TypePartsPrime DEF NoFault
<1>7. CASE UNCHANGED store /\ Return(TRUE, FALSE) /\ NoFault /\ UNCHANGED jobVars
  BY <1>1, <1>2, <1>7, StoreKept, ReturnOK, JobsKept, TypePartsPrime DEF NoFault
<1>4. CASE /\ target' = runID /\ Goto("adopt")
           /\ NoFault /\ UNCHANGED <<store, jobVars, my, fresh>>
  <2>1. WorkerOK'
    BY <1>1, <1>4 DEF WorkerOK, Goto, RunOK, Exists, Steps
  <2> QED
    BY <1>2, <1>4, <2>1, StoreKept, JobsKept, QueueKept, TypePartsPrime DEF Goto, NoFault
<1>5. CASE /\ NoFault \/ Fault("reject")
           /\ SaveIgnoringError(fresh, AsFailed(my.status)) /\ Return(TRUE, FALSE)
           /\ UNCHANGED jobVars
  <2>1. faults' \in 0..MaxFaults
    BY <1>1, <1>5, FaultCount
  <2> QED
    BY <1>1, <1>2, <1>5, <2>1, SaveIgnoringErrorOK, ReturnOK, JobsKept, TypePartsPrime
<1>6. CASE /\ Store(name)
           /\ last' = [uid |-> my.uid, gen |-> my.gen, content |-> my.spec.hash]
           /\ target' = runID /\ Goto("record")
           /\ NoFault /\ UNCHANGED <<store, my, fresh>>
  <2>1. WorkerOK'
    BY <1>1, <1>6 DEF WorkerOK, Goto, RunOK, Exists, Steps
  <2>2. JobsOK'
    BY <1>1, <1>6, StoreTypes
  <2> QED
    BY <1>2, <1>6, <2>1, <2>2, StoreKept, QueueKept, TypePartsPrime DEF Goto, NoFault
<1> QED
  BY <1>3, <1>4, <1>5, <1>6, <1>7 DEF createNewJob, name, runID

(* The steps that store one status and end the reconcile.                  *)
LEMMA SaveTypes ==
  ASSUME TypeInv, NEW st \in Status, NEW current, NEW after \in BOOLEAN,
         \/ SaveThenReturn(current, st, after)
         \/ SaveIgnoringError(current, st) /\ Return(FALSE, after)
         \/ SaveIgnoringError(current, st) /\ Return(TRUE, FALSE)
         \/ UNCHANGED store /\ Return(FALSE, after)
         \/ UNCHANGED store /\ Return(TRUE, FALSE),
         UNCHANGED <<scalr, outside, faults>>, UNCHANGED jobVars
  PROVE  TypeInv'
<1>1. /\ StoreOK /\ JobsOK /\ ScalrOK /\ OutsideOK /\ QueueOK
      /\ faults' \in 0..MaxFaults
  BY TypeParts DEF QueueOK
<1>2. JobsOK' /\ ScalrOK' /\ OutsideOK'
  BY <1>1, JobsKept, ScalrKept, OutsideKept
<1>3. StoreOK' /\ WorkerOK' /\ QueueOK'
  BY <1>1, SaveThenReturnOK, SaveIgnoringErrorOK, StoreKept, ReturnOK
<1> QED
  BY <1>2, <1>3, TypePartsPrime

LEMMA ApplyTypes ==
  ASSUME TypeInv,
         \/ DeferSpecChange \/ WaitForJob \/ RecordCompletion \/ NoIntervalRun
         \/ RunSpecChange \/ RunPending \/ RunInterval \/ RecordJob \/ AdoptJob
  PROVE  TypeInv'
<1>1. pc # "idle"
  BY DEF DeferSpecChange, WaitForJob, RecordCompletion, NoIntervalRun, RunSpecChange,
         RunPending, RunInterval, RecordJob, AdoptJob
<1>2. /\ my.gen \in Generations /\ my.spec.hash \in Hashes /\ my.status \in Status
      /\ my.spec \in SpecType /\ now \in 0..MaxTicks
  BY <1>1, BusyTypes DEF TypeInv, TypeOK
<1>3. CASE DeferSpecChange
  <2>1. [my.status EXCEPT !.pendingHash = computeSpecHash(my.spec)] \in Status
    BY <1>2, StatusTypes DEF computeSpecHash
  <2> QED
    BY <1>3, <2>1, SaveTypes DEF DeferSpecChange
<1>4. CASE WaitForJob
  BY <1>2, <1>4, SaveTypes DEF WaitForJob
<1>5. CASE RecordCompletion
  <2>1. my.status.phase \in Phases
    BY <1>2 DEF Status
  <2>2. CompletedPhase(ActiveJob, my.status.phase) \in Phases
    BY <2>1 DEF CompletedPhase, Phases
  <2>3. [my.status EXCEPT !.phase = CompletedPhase(ActiveJob, my.status.phase)] \in Status
    BY <1>2, <2>2, StatusTypes
  <2> QED
    BY <1>5, <2>3, SaveTypes DEF RecordCompletion
<1>6. CASE NoIntervalRun
  <2>1. [my.status EXCEPT !.nextRun = 0] \in Status /\ AsFailed(my.status) \in Status
    BY <1>2, StatusTypes
  <2>2. (my.spec.interval = "valid") \in BOOLEAN
    OBVIOUS
  <2> QED
    BY <1>2, <1>6, <2>1, <2>2, SaveTypes DEF NoIntervalRun
<1>7. CASE RunSpecChange
  BY <1>1, <1>2, <1>7, CreateNewJobTypes DEF RunSpecChange, computeSpecHash
<1>8. CASE RunPending
  <2>1. my.status.pendingHash \in Hashes
    BY <1>2, <1>8 DEF RunPending, PendingExists, Status
  <2> QED
    BY <1>1, <1>8, <2>1, CreateNewJobTypes DEF RunPending
<1>9. CASE RunInterval
  BY <1>1, <1>2, <1>9, CreateNewJobTypes DEF RunInterval, computeSpecHash
<1>10. CASE RecordJob
  <2> DEFINE next == IF my.spec.interval = "none" THEN 0 ELSE now + 1
  <2>1. next \in 0..(MaxTicks + 1) /\ (my.spec.interval # "none") \in BOOLEAN
    BY <1>2, BoundsAssumption
  <2>2. target.hash \in Hashes /\ buildJobName(target) \in JobNames
    BY <1>10, NameTypes DEF RecordJob, TypeInv, RunIDs
  <2> HIDE DEF next
  <2>3. [my.status EXCEPT !.activeJob = buildJobName(target), !.lastHash = target.hash,
                          !.phase = "Running", !.observedGen = my.gen,
                          !.pendingHash = NoHash, !.nextRun = next] \in Status
    BY <1>2, <2>1, <2>2, RunningTypes
  <2> QED
    BY <1>10, <2>1, <2>3, SaveTypes DEF RecordJob, next
<1>11. CASE AdoptJob
  <2>1. cache.status \in Status /\ cache.gen \in Generations
          /\ buildJobName(target) \in JobNames
    BY <1>11, NameTypes DEF AdoptJob, TypeInv, TypeOK, Run
  <2>2. [cache.status EXCEPT !.activeJob = buildJobName(target), !.phase = "Running",
                             !.observedGen = cache.gen] \in Status
    BY <1>2, <2>1, StatusTypes
  <2> QED
    BY <1>11, <2>2, SaveTypes DEF AdoptJob
<1> QED
  BY <1>3, <1>4, <1>5, <1>6, <1>7, <1>8, <1>9, <1>10, <1>11

LEMMA DeletionTypes ==
  ASSUME TypeInv,
         \/ CannotDestroy \/ AdoptDestroyJob \/ CreateDestroyJob \/ RecordDestroyJob
         \/ FinishDestroy \/ AwaitDestroyJob \/ CleanupWorkspace \/ RemoveFinalizer
  PROVE  TypeInv'
<1> USE TypeParts
<1>1. pc # "idle"
  BY DEF CannotDestroy, AdoptDestroyJob, CreateDestroyJob, RecordDestroyJob,
         FinishDestroy, AwaitDestroyJob, CleanupWorkspace, RemoveFinalizer
<1>2. /\ my.gen \in Generations /\ my.status \in Status /\ my \in Run
      /\ cache.status \in Status /\ faults \in 0..MaxFaults /\ Exists(my)
  BY <1>1, BusyTypes DEF TypeInv, TypeOK, Run
<1>3. /\ DestroyStatus \in Status /\ AsFailed(my.status) \in Status
      /\ [cache.status EXCEPT !.activeDestroy = TRUE, !.phase = "Pending"] \in Status
      /\ [my.status EXCEPT !.phase = "Failed", !.activeDestroy = FALSE] \in Status
      /\ [my.status EXCEPT !.activeDestroy = FALSE] \in Status
  BY <1>2, StatusTypes DEF DestroyStatus
<1>11. CASE CannotDestroy
  BY <1>3, <1>11, SaveTypes DEF CannotDestroy
<1>4. CASE AdoptDestroyJob
  BY <1>3, <1>4, SaveTypes DEF AdoptDestroyJob
<1>5. CASE CreateDestroyJob
  <2>1. ScalrOK' /\ OutsideOK'
    BY <1>5, ScalrKept, OutsideKept DEF CreateDestroyJob
  <2>2. CASE /\ SaveIgnoringError(fresh, AsFailed(my.status)) /\ Return(TRUE, FALSE)
             /\ NoFault /\ UNCHANGED jobVars
    BY <1>2, <1>3, <2>1, <2>2, SaveIgnoringErrorOK, ReturnOK, JobsKept, TypePartsPrime
       DEF NoFault
  <2>3. CASE /\ SaveIgnoringError(fresh, DestroyStatus) /\ Return(FALSE, TRUE)
             /\ NoFault /\ UNCHANGED jobVars
    BY <1>2, <1>3, <2>1, <2>3, SaveIgnoringErrorOK, ReturnOK, JobsKept, TypePartsPrime
       DEF NoFault
  <2>4. CASE /\ NoFault \/ Fault("reject")
             /\ Return(TRUE, FALSE) /\ UNCHANGED <<store, jobVars>>
    <3>1. faults' \in 0..MaxFaults
      BY <1>2, <2>4, FaultCount
    <3> QED
      BY <2>1, <2>4, <3>1, StoreKept, JobsKept, ReturnOK, TypePartsPrime
  <2>5. CASE /\ Store(DestroyName) /\ Goto("destroyRecord")
             /\ NoFault /\ UNCHANGED <<store, last, my, fresh, target>>
    <3>1. DestroyName \in JobNames
      BY DEF JobNames
    <3>2. JobsOK'
      BY <1>1, <2>5, <3>1, StoreTypes
    <3>3. WorkerOK'
      BY <1>2, <2>5 DEF WorkerOK, Goto, RunOK, Exists, Steps
    <3> QED
      BY <2>1, <2>5, <3>2, <3>3, StoreKept, QueueKept, TypePartsPrime DEF Goto, NoFault
  <2> QED
    BY <1>5, <2>2, <2>3, <2>4, <2>5 DEF CreateDestroyJob
<1>6. CASE RecordDestroyJob
  BY <1>3, <1>6, SaveTypes DEF RecordDestroyJob
<1>7. CASE FinishDestroy
  <2>1. my' \in Run /\ my'.status = [my.status EXCEPT !.activeDestroy = FALSE]
          /\ my'.uid = my.uid /\ my'.spec = my.spec
    BY <1>2, <1>3, <1>7 DEF FinishDestroy, Run
  <2>2. StoreOK'
    BY <1>3, <1>7, <2>1, SaveIgnoringErrorOK DEF FinishDestroy
  <2>3. WorkerOK'
    BY <1>2, <1>7, <2>1 DEF FinishDestroy, WorkerOK, Goto, RunOK, Exists, Steps
  <2> QED
    BY <1>7, <2>2, <2>3, JobsKept, ScalrKept, OutsideKept, QueueKept, TypePartsPrime
       DEF FinishDestroy, Goto
<1>8. CASE AwaitDestroyJob
  BY <1>3, <1>8, SaveTypes DEF AwaitDestroyJob
<1>9. CASE CleanupWorkspace
  <2>1. StoreOK' /\ JobsOK' /\ OutsideOK'
    BY <1>9, StoreKept, JobsKept, OutsideKept DEF CleanupWorkspace
  <2>2. ScalrOK'
    BY <1>9, ScalrKept DEF CleanupWorkspace, deleteRemoteWorkspace,
                           DeleteScalrWorkspace, ScalrOK
  <2>3. faults' \in 0..MaxFaults
    <3>1. NoFault \/ Fault("scalr")
      BY <1>9 DEF CleanupWorkspace, deleteRemoteWorkspace
    <3> QED
      BY <1>2, <3>1, FaultCount
  <2>4. CASE Goto("removeFinalizer") /\ UNCHANGED <<my, fresh, target>>
    <3>1. WorkerOK' /\ QueueOK'
      BY <1>2, <2>3, <2>4 DEF WorkerOK, Goto, RunOK, Exists, Steps, QueueOK, queue
    <3> QED
      BY <2>1, <2>2, <3>1, TypePartsPrime
  <2>5. CASE Return(TRUE, FALSE)
    BY <2>1, <2>2, <2>3, <2>5, ReturnOK, TypePartsPrime
  <2> QED
    BY <1>9, <2>4, <2>5 DEF CleanupWorkspace, deleteRemoteWorkspace
<1>10. CASE RemoveFinalizer
  <2>1. JobsOK' /\ ScalrOK' /\ OutsideOK' /\ WorkerOK' /\ QueueOK'
    <3>1. JobsOK' /\ ScalrOK' /\ OutsideOK' /\ faults' = faults
      BY <1>10, JobsKept, ScalrKept, OutsideKept DEF RemoveFinalizer
    <3>2. Exists(obj) \in BOOLEAN
      BY DEF Exists
    <3>3. Return(FALSE, FALSE) \/ Return(Exists(obj), FALSE)
      BY <1>10 DEF RemoveFinalizer
    <3> QED
      BY <1>2, <3>1, <3>2, <3>3, ReturnOK
  <2>2. obj \in Run /\ [obj EXCEPT !.finalizer = FALSE] \in Run
    BY DEF StoreOK, RunOK, Run
  <2>3. CASE UNCHANGED store
    BY <2>1, <2>3, StoreKept, TypePartsPrime
  <2>4. CASE /\ obj' = IF obj.deleting THEN NoRun ELSE [obj EXCEPT !.finalizer = FALSE]
             /\ cacheFresh' = FALSE
    <3>1. CASE obj.deleting
      <4> QED
        BY <2>1, <2>4, <3>1, NoRunOK, TypePartsPrime DEF StoreOK, RunOK, GenBounded, Exists
    <3>2. CASE ~obj.deleting
      <4>1. /\ obj' \in Run /\ obj'.uid = obj.uid /\ obj'.spec = obj.spec
            /\ obj'.gen = obj.gen /\ obj'.deleting = obj.deleting
        BY <2>2, <2>4, <3>2 DEF Run
      <4> QED
        BY <2>1, <2>4, <3>2, <4>1, TypePartsPrime DEF StoreOK, RunOK, GenBounded, Exists
    <3> QED
      BY <3>1, <3>2
  <2> QED
    BY <1>10, <2>3, <2>4 DEF RemoveFinalizer
<1> QED
  BY <1>4, <1>5, <1>6, <1>7, <1>8, <1>9, <1>10, <1>11

-----------------------------------------------------------------------------
(* The controller's surroundings.                                          *)

LEMMA UserTypes ==
  ASSUME TypeInv, Users
  PROVE  TypeInv'
<1> USE TypeParts
<1>1. ASSUME NEW spec \in Specs, UserCreate(spec)
      PROVE  TypeInv'
  <2> DEFINE new == [NoRun EXCEPT !.uid = lives', !.gen = 1, !.spec = spec]
  <2>1. /\ lives' \in Uids \ {0} /\ 1 \in Generations /\ 1 <= MaxGen
        /\ spec \in StoredSpecs /\ spec \in SpecType
    BY <1>1, BoundsAssumption, SpecsAssumption
       DEF UserCreate, OutsideOK, Uids, Generations, StoredSpecs
  <2>2. new \in Run /\ new.uid = lives' /\ new.spec = spec /\ new.gen = 1
    BY <2>1, RunTypes DEF Run
  <2> HIDE DEF new
  <2>3. obj' = new /\ cacheFresh' = FALSE /\ fresh' = FALSE
    BY <1>1 DEF UserCreate, Written, new
  <2>4. StoreOK'
    <3>1. RunOK(new) /\ GenBounded(new)
      BY <2>1, <2>2, BoundsAssumption DEF RunOK, GenBounded
    <3> QED
      BY <2>3, <3>1 DEF StoreOK, RunOK, GenBounded, Exists
  <2>5. OutsideOK'
    BY <1>1, <2>1 DEF UserCreate, OutsideOK, RunOK, Exists
  <2>6. WorkerOK'
    BY <1>1, <2>3 DEF UserCreate, WorkerOK, RunOK, Exists
  <2> QED
    BY <1>1, <2>4, <2>5, <2>6, JobsKept, ScalrKept, QueueKept, TypePartsPrime
       DEF UserCreate
<1>2. ASSUME UNCHANGED <<jobVars, scalr, outside, pc, my, target, queue, faults>>,
             NEW run, Written(run), RunOK(run), GenBounded(run)
      PROVE  TypeInv'
  <2>1. StoreOK'
    BY <1>2 DEF Written, StoreOK, RunOK, GenBounded
  <2>2. WorkerOK'
    BY <1>2 DEF Written, WorkerOK, RunOK, Exists
  <2> QED
    BY <1>2, <2>1, <2>2, JobsKept, ScalrKept, OutsideKept, QueueKept, TypePartsPrime
<1>3. ASSUME NEW spec \in Specs, UserEdit(spec)
      PROVE  TypeInv'
  <2> DEFINE new == [obj EXCEPT !.spec = spec, !.gen = @ + 1]
  <2>1. /\ obj \in Run /\ obj.gen \in Generations /\ obj.gen < MaxGen
        /\ spec \in StoredSpecs /\ spec \in SpecType
    BY <1>3, SpecsAssumption DEF UserEdit, StoreOK, RunOK, Run, StoredSpecs
  <2>2. obj.gen + 1 \in Generations /\ obj.gen + 1 <= MaxGen
    BY <2>1, BoundsAssumption DEF Generations
  <2>3. new \in Run /\ new.spec = spec /\ new.gen = obj.gen + 1
    BY <2>1, <2>2 DEF Run
  <2>4. RunOK(new) /\ GenBounded(new)
    BY <2>1, <2>2, <2>3, BoundsAssumption DEF RunOK, GenBounded, Generations
  <2>5. Written(new)
    BY <1>3 DEF UserEdit
  <2> HIDE DEF new
  <2> QED
    BY <1>2, <1>3, <2>4, <2>5 DEF UserEdit
<1>4. CASE UserDelete
  <2>1. obj \in Run /\ obj.gen \in Generations /\ GenBounded(obj) /\ ~obj.deleting
    BY <1>4 DEF UserDelete, StoreOK, RunOK, Run
  <2> DEFINE new == [obj EXCEPT !.deleting = TRUE, !.gen = @ + 1]
  <2>2. /\ new \in Run /\ new.deleting /\ new.spec = obj.spec /\ new.uid = obj.uid
        /\ new.gen = obj.gen + 1
    <3>1. obj.gen + 1 \in Generations
      BY <2>1, BoundsAssumption DEF Generations, GenBounded
    <3> QED
      BY <2>1, <3>1 DEF Run
  <2>3. RunOK(new) /\ GenBounded(new)
    BY <2>1, <2>2, BoundsAssumption DEF RunOK, Exists, StoreOK, GenBounded, Generations
  <2>5. Written(new) \/ Written(NoRun)
    BY <1>4 DEF UserDelete
  <2> HIDE DEF new
  <2> QED
    BY <1>2, <1>4, <2>3, <2>5, NoRunOK DEF UserDelete
<1> QED
  BY <1>1, <1>3, <1>4 DEF Users

LEMMA ManagerTypes ==
  ASSUME TypeInv, Manager
  PROVE  TypeInv'
<1> USE TypeParts
<1>1. CASE SyncRun
  <2>1. StoreOK' /\ OutsideOK' /\ QueueOK'
    BY <1>1 DEF SyncRun, StoreOK, OutsideOK, QueueOK, RunOK, GenBounded, Exists
  <2> QED
    BY <1>1, <2>1, JobsKept, ScalrKept, WorkerKept, TypePartsPrime DEF SyncRun
<1>2. ASSUME NEW name \in JobNames, SyncJob(name)
      PROVE  TypeInv'
  <2>1. JobsOK' /\ OutsideOK' /\ QueueOK'
    BY <1>2 DEF SyncJob, JobsOK, OutsideOK, QueueOK, RunOK, Exists, isJobActive, Finished
  <2> QED
    BY <1>2, <2>1, StoreKept, ScalrKept, WorkerKept, TypePartsPrime DEF SyncJob
<1>3. CASE TimerFires \/ Resync
  <2>1. QueueOK'
    BY <1>3 DEF TimerFires, Resync, QueueOK
  <2> QED
    BY <1>3, <2>1, StoreKept, JobsKept, ScalrKept, OutsideKept, WorkerKept, TypePartsPrime
       DEF TimerFires, Resync
<1>4. CASE Restart
  <2>1. StoreOK'
    BY <1>4 DEF Restart, StoreOK, RunOK, GenBounded, Exists
  <2>2. JobsOK'
    BY <1>4 DEF Restart, JobsOK, isJobActive, Finished
  <2>3. OutsideOK'
    BY <1>4 DEF Restart, OutsideOK, StoreOK, JobsOK, RunOK, Exists
  <2>4. WorkerOK'
    BY <1>4, RunTypes DEF Restart, WorkerOK, RunOK, Steps, Exists
  <2>5. QueueOK'
    <3>1. Fault("crash") /\ faults \in 0..MaxFaults
      BY <1>4 DEF Restart, QueueOK
    <3>2. queued' = Exists(obj) /\ delayed' = FALSE
      BY <1>4 DEF Restart
    <3>3. Exists(obj) \in BOOLEAN
      BY DEF Exists
    <3> QED
      BY <3>1, <3>2, <3>3, FaultCount DEF QueueOK
  <2> QED
    BY <1>4, <2>1, <2>2, <2>3, <2>4, <2>5, ScalrKept, TypePartsPrime DEF Restart
<1> QED
  BY <1>1, <1>2, <1>3, <1>4 DEF Manager

(* What the end of a pod makes of a job.                                   *)
LEMMA Changed ==
  ASSUME NEW job \in Job
  PROVE  /\ \A n \in 0..1 :
              LET done == [job EXCEPT !.active = 0, !.succeeded = n]
              IN  done \in Job /\ ~isJobActive(done)
         /\ \A n \in 0..(BackoffLimit + 1) :
              LET done == [job EXCEPT !.active = 0, !.failed = n]
              IN  done \in Job /\ ~isJobActive(done)
<1>1. 0 \in 0..1
  OBVIOUS
<1>2. ASSUME NEW n \in 0..1
      PROVE  LET done == [job EXCEPT !.active = 0, !.succeeded = n]
             IN  done \in Job /\ done.active = 0
  BY <1>1 DEF Job
<1>3. ASSUME NEW n \in 0..(BackoffLimit + 1)
      PROVE  LET done == [job EXCEPT !.active = 0, !.failed = n]
             IN  done \in Job /\ done.active = 0
  BY <1>1 DEF Job
<1>4. ASSUME NEW done, done.active = 0
      PROVE  ~isJobActive(done)
  BY <1>4 DEF isJobActive
<1> QED
  BY <1>2, <1>3, <1>4

LEMMA ClusterTypes ==
  ASSUME TypeInv, Cluster
  PROVE  TypeInv'
<1> USE TypeParts
<1>1. ASSUME NEW name \in JobNames, NEW job \in Job, JobStep(name, job),
             isJobActive(job) => ~Finished(job), NoFault \/ Fault("pod")
      PROVE  TypeInv'
  <2>1. jobs' \in [JobNames -> Job]
          /\ \A n \in JobNames : isJobActive(jobs'[n]) => ~Finished(jobs'[n])
    BY <1>1 DEF JobStep, JobsOK
  <2>2. JobsOK'
    BY <1>1, <2>1 DEF JobStep, JobsOK
  <2>3. OutsideOK'
    BY <1>1 DEF JobStep, OutsideOK, RunOK, Exists
  <2>4. QueueOK'
    BY <1>1, Faulty DEF JobStep, FaultKinds
  <2> QED
    BY <1>1, <2>2, <2>3, <2>4, StoreKept, ScalrKept, WorkerKept, TypePartsPrime DEF JobStep
<1>2. PICK name \in JobNames :
        \/ StartPod(name) \/ PodSucceeds(name) \/ PodFails(name)
        \/ ExpireJob(name) \/ CollectJob(name)
  BY DEF Cluster
<1>3. jobs[name] \in Job /\ (isJobActive(jobs[name]) => ~Finished(jobs[name]))
  BY DEF JobsOK
<1>4. CASE StartPod(name)
  <2>1. /\ [jobs[name] EXCEPT !.active = 1] \in Job
        /\ Finished([jobs[name] EXCEPT !.active = 1]) = Finished(jobs[name])
    BY <1>3 DEF Job, Finished
  <2> QED
    BY <1>1, <1>4, <2>1 DEF StartPod
<1>5. CASE PodSucceeds(name)
  <2>1. /\ [jobs[name] EXCEPT !.active = 0, !.succeeded = 1] \in Job
        /\ ~isJobActive([jobs[name] EXCEPT !.active = 0, !.succeeded = 1])
    <3>1. 0 \in 0..1 /\ 1 \in 0..1
      OBVIOUS
    <3> QED
      BY <1>3, <3>1, Changed
  <2> QED
    BY <1>1, <1>5, <2>1 DEF PodSucceeds
<1>6. CASE PodFails(name)
  <2>1. jobs[name].failed + 1 \in 0..(BackoffLimit + 1)
    BY <1>3, <1>6, BoundsAssumption DEF PodFails, Job, Finished
  <2>2. /\ [jobs[name] EXCEPT !.active = 0, !.failed = @ + 1] \in Job
        /\ ~isJobActive([jobs[name] EXCEPT !.active = 0, !.failed = @ + 1])
    BY <1>3, <2>1, Changed
  <2> QED
    BY <1>1, <1>6, <2>2 DEF PodFails
<1>7. CASE ExpireJob(name) \/ CollectJob(name)
  <2>1. NoJob \in Job /\ ~isJobActive(NoJob)
    BY JobTypes DEF NoJob, isJobActive
  <2> QED
    BY <1>1, <1>7, <2>1 DEF ExpireJob, CollectJob
<1> QED
  BY <1>2, <1>4, <1>5, <1>6, <1>7

LEMMA SurroundingsTypes ==
  ASSUME TypeInv, Surroundings
  PROVE  TypeInv'
<1> USE TypeParts
<1>1. ASSUME NEW w \in remote, WorkspaceVanishes(w)
      PROVE  TypeInv'
  <2>1. ScalrOK'
    BY <1>1 DEF WorkspaceVanishes, ScalrOK
  <2>2. QueueOK'
    BY <1>1, Faulty DEF WorkspaceVanishes, FaultKinds
  <2> QED
    BY <1>1, <2>1, <2>2, StoreKept, JobsKept, OutsideKept, WorkerKept, TypePartsPrime
       DEF WorkspaceVanishes
<1>2. CASE SecretVanishes \/ SecretReturns \/ Tick
  <2>1. OutsideOK'
    <3>1. UNCHANGED <<cache, jobCache, lives>> /\ gitSecret' \in BOOLEAN
      BY <1>2 DEF SecretVanishes, SecretReturns, Tick, OutsideOK
    <3>2. now' \in 0..MaxTicks
      <4>1. CASE Tick
        BY <4>1, BoundsAssumption DEF Tick, OutsideOK
      <4> QED
        BY <1>2, <4>1 DEF SecretVanishes, SecretReturns, OutsideOK
    <3> QED
      BY <3>1, <3>2 DEF OutsideOK, RunOK, Exists
  <2>2. QueueOK'
    BY <1>2, Faulty, QueueKept DEF SecretVanishes, SecretReturns, Tick, FaultKinds
  <2> QED
    BY <1>2, <2>1, <2>2, StoreKept, JobsKept, ScalrKept, WorkerKept, TypePartsPrime
       DEF SecretVanishes, SecretReturns, Tick
<1> QED
  BY <1>1, <1>2 DEF Surroundings

-----------------------------------------------------------------------------
LEMMA InitTypes == Init => TypeInv
<1> SUFFICES ASSUME Init PROVE TypeInv
  OBVIOUS
<1>1. StoreOK /\ WorkerOK /\ QueueOK
  <2>1. RunOK(NoRun) /\ GenBounded(NoRun)
    BY NoRunOK
  <2>2. QueueOK
    <3>1. 0 \in 0..MaxFaults
      BY FaultAssumption
    <3> QED
      BY <3>1 DEF Init, QueueOK
  <2>3. WorkerOK
    BY <2>1 DEF Init, WorkerOK, RunOK, Steps
  <2>4. StoreOK
    BY <2>1 DEF Init, StoreOK, RunOK, GenBounded, Exists
  <2> QED
    BY <2>2, <2>3, <2>4
<1>2. JobsOK
  <2>1. NoJob \in Job /\ ~isJobActive(NoJob) /\ 0 \in Uids /\ 0 \in Generations
    BY JobTypes, BoundsAssumption DEF NoJob, isJobActive, Uids, Generations
  <2> QED
    BY <2>1 DEF Init, JobsOK
<1>3. OutsideOK
  BY <1>1, <1>2, BoundsAssumption DEF Init, OutsideOK, StoreOK, JobsOK, Uids
<1>4. ScalrOK
  <2>1. Len(Existing) \in 0..MaxWs /\ MaxWs \in Nat
    BY ImportTypes, BoundsAssumption
  <2>2. \A n \in 1..Len(Existing) : n \in 1..MaxWs /\ Existing[n] \in Places
    BY <2>1, WorkspaceAssumption
  <2> QED
    BY <2>1, <2>2 DEF Init, ScalrOK
<1> QED
  BY <1>1, <1>2, <1>3, <1>4, TypeParts

(* A copy whose resourceVersion is the stored one is of the stored object: *)
(* CopyInv's part in the types.                                            *)
LEMMA NextTypes ==
  ASSUME TypeInv, fresh => my.uid = obj.uid, [Next]_vars
  PROVE  TypeInv'
<1>1. CASE Reconcile
  BY <1>1, BeginTypes, WorkspaceTypes, ApplyTypes, DeletionTypes DEF Reconcile
<1>2. CASE UNCHANGED vars
  BY <1>2, TypeParts, StoreKept, JobsKept, ScalrKept, OutsideKept, WorkerKept, QueueKept,
     TypePartsPrime DEF vars
<1> QED
  BY <1>1, <1>2, UserTypes, ManagerTypes, ClusterTypes, SurroundingsTypes DEF Next
====
