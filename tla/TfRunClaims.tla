------------------------------ MODULE TfRunClaims -----------------------------
(***************************************************************************)
(* What the repository's documents and comments say of the controller and  *)
(* the code does not do.  Each is checked by a run that expects the model  *)
(* checker to refute it; PROJECT.json names the sentence.                  *)
(***************************************************************************)
EXTENDS TfRunInvariant

(* IMPLEMENTATION.md:102: at most one job of the run has a pod running.    *)
(* getActiveJobIfAny and handleDeletion decide from a job's counters, from *)
(* an informer, or not at all.                                             *)
OneActiveJob ==
  Cardinality({name \in JobNames : isJobActive(jobs[name])}) <= 1

(* IMPLEMENTATION.md:112: the finalizer is not removed beside a destroy    *)
(* job that has not ended.  handleDestroyJob takes a job the informer has  *)
(* not shown it yet for one that is done.                                  *)
FinalizerWaitsForDestroy ==
  [][obj.deleting /\ obj.finalizer /\ ~obj'.finalizer =>
       ~Exists(jobs[DestroyName]) \/ Finished(jobs[DestroyName])]_vars

(* IMPLEMENTATION.md:111: a run to which something was applied goes only    *)
(* after a destroy job was started for it.  handleDeletion finds a destroy *)
(* job by its name, and one of the run's predecessor, which the garbage    *)
(* collector has not removed yet, passes for the run's own.                *)
OwnDestroyFirst ==
  [][obj.deleting /\ obj.finalizer /\ ~obj'.finalizer /\ last.uid = obj.uid =>
       <<obj.uid, DestroyName>> \in created]_vars

(* tfrun_types.go:74: when every job has ended and the controller rests,   *)
(* lastSpecHash is the hash of the spec that ran last.  A job started from *)
(* a copy that an edit has overtaken is not recorded, and when that edit   *)
(* took the spec back to the recorded one, nothing seems to have changed.  *)
(* With one edit it holds.                                                 *)
LastHashIsLastRun ==
  Quiet /\ ~obj.deleting /\ last.uid = obj.uid
    /\ (\A name \in JobNames : ~Exists(jobs[name])) =>
  obj.status.lastHash = last.content

(* tfrun_controller.go:629: a run that is gone leaves no workspace behind. *)
(* One whose id was never stored, because the status update that carried   *)
(* it was refused, is not cleaned up.                                      *)
NoWorkspaceLeft ==
  pc = "idle" /\ ~Exists(obj) /\ DestroyStarted => remote = {}
=============================================================================
