--------------------------- MODULE TfRunClaimProofs ---------------------------
(***************************************************************************)
(* How far the claims of TfRunClaims that the code refutes are true.  The  *)
(* runs of that module show how each is broken; the theorems here show     *)
(* that it takes what the runs have: a name that is created a second time, *)
(* an edit that is taken back.                                             *)
(***************************************************************************)
EXTENDS TfRunWakeProofs, TfRunClaims

(* The first object of a name has no predecessor whose destroy job it      *)
(* could find.                                                             *)
FirstDestroysOwn ==
  [][obj.uid = 1 /\ obj.deleting /\ obj.finalizer /\ ~obj'.finalizer =>
       <<obj.uid, DestroyName>> \in created]_vars

LEMMA FirstIsAlone ==
  ASSUME BaseInv, Kind, obj.uid = 1, obj.finalizer, ~obj'.finalizer
  PROVE  <<obj.uid, DestroyName>> \in created
<1>1. PICK u \in Uids : <<u, DestroyName>> \in created
  BY LostFinalizer DEF DestroyStarted
<1>2. u \in 1..lives /\ lives = 1
  BY <1>1 DEF BaseInv, CoreInv, UidInv
<1> QED
  BY <1>1, <1>2

(* handleDeletion takes the finalizer of the first object of a name only   *)
(* after it created that object's own destroy job.                         *)
THEOREM FirstOwn == Spec => FirstDestroysOwn
<1>1. BaseInv /\ [Next]_vars =>
        [obj.uid = 1 /\ obj.deleting /\ obj.finalizer /\ ~obj'.finalizer =>
           <<obj.uid, DestroyName>> \in created]_vars
  BY StepKinds, FirstIsAlone DEF BaseInv
<1> QED
  BY <1>1, BaseInvariance, PTL DEF Spec, FirstDestroysOwn

(* Where no name is created a second time, a run to which something was    *)
(* applied goes only after a destroy job was started for it.               *)
THEOREM OneLifeOwnDestroy == MaxLives = 1 => (Spec => OwnDestroyFirst)
<1> SUFFICES ASSUME MaxLives = 1 PROVE Spec => OwnDestroyFirst
  OBVIOUS
<1>1. ASSUME BaseInv, Kind, obj.finalizer, ~obj'.finalizer
      PROVE  <<obj.uid, DestroyName>> \in created
  <2>1. obj.uid = 1
    BY <1>1, Numbers, LostFinalizer DEF BaseInv, TypeInv, TypeOK, CoreInv, UidInv, Uids
  <2> QED
    BY <1>1, <2>1, FirstIsAlone
<1>2. BaseInv /\ [Next]_vars =>
        [obj.deleting /\ obj.finalizer /\ ~obj'.finalizer /\ last.uid = obj.uid =>
           <<obj.uid, DestroyName>> \in created]_vars
  BY <1>1, StepKinds DEF BaseInv
<1> QED
  BY <1>2, BaseInvariance, PTL DEF Spec, OwnDestroyFirst

-----------------------------------------------------------------------------
(* When the controller rests, a run that was edited once at most has had   *)
(* its last job started with the spec at hand, or a job its status names   *)
(* is still there, whose removal will be an event.                         *)
RestIsApplied ==
  Quiet /\ obj.gen <= 2 =>
    LastSpecStarted \/ Exists(jobs[obj.status.activeJob])

LEMMA RestsWithLast ==
  ASSUME IInv, AlwaysBuilds, Quiet, obj.gen <= 2
  PROVE  /\ obj.status.activeJob # NoName
         /\ \/ Exists(jobs[obj.status.activeJob])
            \/ /\ obj.status.lastHash = computeSpecHash(obj.spec)
               /\ last.uid = obj.uid /\ last.content = computeSpecHash(obj.spec)
<1>1. UpToDate /\ Exists(obj)
  BY DEF IInv, WakeInv, RestInv, QuietIsSettled, Quiet
<1>2. RecordedIsLast
  BY RecordedLast DEF IInv
<1> QED
  BY <1>1, <1>2 DEF UpToDate, RecordedIsLast

(* No lost wakeup and no wrong record together: an edit, whatever becomes  *)
(* of the updates and the jobs on its way, is not forgotten in favour of   *)
(* what was run before.                                                    *)
THEOREM RestApplied == AlwaysBuilds => (Spec => []RestIsApplied)
<1> SUFFICES ASSUME AlwaysBuilds PROVE Spec => []RestIsApplied
  OBVIOUS
<1>1. IInv => RestIsApplied
  BY RestsWithLast DEF RestIsApplied, LastSpecStarted
<1> QED
  BY <1>1, Invariance, PTL

(* lastSpecHash is the hash of the spec that ran last, when every job has  *)
(* ended and the controller rests, in a run that was edited once at most   *)
(* and whose jobs can be built.                                            *)
THEOREM LastHashTrue == AlwaysBuilds => (Spec => [](obj.gen <= 2 => LastHashIsLastRun))
<1> SUFFICES ASSUME AlwaysBuilds
             PROVE  Spec => [](obj.gen <= 2 => LastHashIsLastRun)
  OBVIOUS
<1>1. IInv => (obj.gen <= 2 => LastHashIsLastRun)
  <2> SUFFICES ASSUME IInv, obj.gen <= 2, Quiet,
                      \A name \in JobNames : ~Exists(jobs[name])
               PROVE  obj.status.lastHash = last.content
    BY DEF LastHashIsLastRun
  <2>1. obj.status.activeJob \in JobNames \cup {NoName}
    BY DEF IInv, RunInv, BaseInv, TypeInv, TypeOK, Run, Status
  <2> QED
    BY <2>1, RestsWithLast
<1> QED
  BY <1>1, Invariance, PTL
=============================================================================
