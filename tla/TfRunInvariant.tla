---------------------------- MODULE TfRunInvariant ----------------------------
(***************************************************************************)
(* The inductive invariant of TfRunSystem: what ties the three copies of   *)
(* the run (stored, the informer's, the running reconcile's), the worker's *)
(* position, and the history of the jobs together.                         *)
(***************************************************************************)
EXTENDS TfRunSystem

ApplySteps == {"workspace", "workspaceSave", "workspaceLost", "jobs", "record", "adopt"}

DeletionSteps == {"deletion", "destroyRecord", "cleanup", "removeFinalizer"}

(* The generation has room for the increments still to come: the one of    *)
(* the defaults and the one of the deletion.                               *)
GenBounded(run) ==
  run.gen + (IF Exists(run) /\ ~Complete(run.spec) THEN 1 ELSE 0)
    + (IF run.deleting THEN 0 ELSE 1) <= MaxGen + 2

(* What TypeOK needs to be inductive: generations are bounded, a job that  *)
(* has ended has no pod, and a worker that is busy holds a run, and a run  *)
(* id between a job and its record.                                        *)
TypeInv ==
  /\ TypeOK
  /\ GenBounded(obj)
  /\ \A name \in JobNames : isJobActive(jobs[name]) => ~Finished(jobs[name])
  /\ pc # "idle" => Exists(my)
  /\ pc \in {"record", "adopt"} => target \in RunIDs

-----------------------------------------------------------------------------
(* c is a version of the run that d has been at or has passed.             *)
Behind(c, d) ==
  Exists(c) /\ c.uid = d.uid => c.gen <= d.gen /\ (c.deleting => d.deleting)

(* Incarnations are numbered as they come, and only those that were        *)
(* created are spoken of.                                                  *)
UidInv ==
  /\ obj.uid \in {0, lives}
  /\ cache.uid <= lives /\ my.uid <= lives /\ last.uid <= lives
  /\ \A e \in created : e[1] \in 1..lives

(* A run that does not exist is NoRun; one that exists has a generation;   *)
(* an idle worker holds none.                                              *)
AbsentInv ==
  /\ \A run \in {obj, cache, my} : /\ ~Exists(run) => run = NoRun
                                   /\ Exists(run) => run.gen >= 1
  /\ pc = "idle" => my = NoRun /\ ~fresh

(* Copies are earlier versions in the order they were read; a copy whose   *)
(* resourceVersion is the stored one agrees with the stored object.        *)
CopyInv ==
  /\ cacheFresh => cache = obj
  /\ fresh => /\ my.uid = obj.uid /\ my.gen = obj.gen
              /\ my.deleting = obj.deleting /\ my.finalizer = obj.finalizer
  /\ Behind(cache, obj) /\ Behind(my, obj)
  /\ cache.finalizer \/ my.deleting => Behind(my, cache)
  /\ Exists(cache) /\ cache.uid = obj.uid /\ cache.finalizer => obj.finalizer

(* The finalizer is the worker's: what it works on, it keeps from being    *)
(* removed under it, and no object but the one it tears down has one.      *)
FinalizerInv ==
  /\ \A run \in {obj, cache, my} : run.deleting => run.finalizer
  /\ Exists(cache) /\ cache.finalizer /\ ~cache.deleting => obj.uid = cache.uid
  /\ pc = "addFinalizer" => ~my.finalizer
  /\ pc \in ApplySteps \cup DeletionSteps => my.finalizer
  /\ pc \in ApplySteps => my.uid = obj.uid /\ obj.finalizer /\ ~my.deleting
  /\ pc \in DeletionSteps => my.deleting
  /\ obj.finalizer => cache.uid = obj.uid
  /\ Exists(my) /\ my.uid = obj.uid => cache.uid = obj.uid
  /\ pc \in DeletionSteps /\ obj.finalizer => my.uid = obj.uid

(* The history of the jobs: an incarnation with a destroy job is deleted   *)
(* in every copy; the last apply job is of a generation every copy with    *)
(* the finalizer has reached (a copy without one may be of the version     *)
(* before the defaults), and its owner, if it is stored, has its finalizer *)
HistoryInv ==
  /\ \A run \in {obj, cache, my} :
       /\ <<run.uid, DestroyName>> \in created => run.deleting
       /\ run.finalizer /\ last.uid = run.uid => last.gen <= run.gen
  /\ Exists(obj) /\ last.uid = obj.uid => obj.finalizer

(* Every job that is stored or seen was created, and whatever says that a  *)
(* destroy job was started is right.                                       *)
DestroyInv ==
  /\ \A name \in JobNames :
       /\ Exists(jobs[name]) => <<jobs[name].uid, name>> \in created
       /\ Exists(jobCache[name]) => <<jobCache[name].uid, name>> \in created
  /\ \A run \in {obj, cache, my} : run.status.activeDestroy => DestroyStarted
  /\ pc \in DeletionSteps \ {"deletion"} => DestroyStarted

-----------------------------------------------------------------------------
(* What a status says of the run it is in, the workspaces and the jobs is  *)
(* so, given how many workspaces were created (n) and which jobs (c).      *)
Honest(run, n, c) ==
  /\ run.status.observedGen <= run.gen
  /\ run.status.wsReady => run.status.wsID # 0
  /\ run.status.wsID # 0 => run.status.wsID <= n /\ Given(run.status.wsID)
  /\ run.status.lastHash # NoHash =>
       /\ run.status.activeJob # NoName
       /\ \E g \in Generations :
            <<run.uid, buildJobName(BuildRunID(g, run.status.lastHash))>> \in c
  /\ run.status.activeJob # NoName =>
       \E u \in Uids : <<u, run.status.activeJob>> \in c

(* Every copy is honest, the copy at hand has observed what the stored one *)
(* has, and a run id on its way to the status names a job that was created *)
(* (for this run, or for whoever has its name).                            *)
StatusInv ==
  /\ Len(Existing) <= wsCount
  /\ \A run \in {obj, cache, my} : Honest(run, wsCount, created)
  /\ fresh => obj.status.observedGen <= my.status.observedGen
  /\ pc = "record" => <<my.uid, buildJobName(target)>> \in created
  /\ pc = "adopt" => \E u \in Uids : <<u, buildJobName(target)>> \in created

-----------------------------------------------------------------------------
(* A worker that may still write knows the id of the run's workspace, but  *)
(* for the two steps in which it has one to record or to forget.           *)
MemoryInv ==
  fresh =>
    \/ pc # "workspaceSave" /\ my.status.wsID = obj.status.wsID
    \/ pc = "workspaceSave" /\ obj.status.wsID = 0
    \/ pc = "workspaceLost" /\ my.status.wsID = 0

(* A run without the finalizer has no workspace on record: the finalizer   *)
(* comes first.                                                            *)
BareInv == \A run \in {obj, cache, my} : ~run.finalizer => run.status.wsID = 0

-----------------------------------------------------------------------------
(* The Job informer has every job it has heard the last of as it is, and a *)
(* job that is gone leaves nothing.                                        *)
SeenInv ==
  \A name \in JobNames :
    /\ name \notin jobLag => jobCache[name] = jobs[name]
    /\ ~Exists(jobs[name]) => jobs[name] = NoJob

(* The copy at hand says what the informer's says of all that decides how  *)
(* a reconcile ends; of a destroy job, as long as it is being decided on.  *)
SameDecisions ==
  /\ my.spec = cache.spec
  /\ my.deleting = cache.deleting /\ my.finalizer = cache.finalizer
  /\ my.status.activeJob = cache.status.activeJob
  /\ my.status.lastHash = cache.status.lastHash
  /\ pc = "deletion" => my.status.activeDestroy = cache.status.activeDestroy

(* A busy worker whose key is not back in the queue has missed nothing: if *)
(* the informer is up to date, its copy is the stored version and decides  *)
(* alike; the event of the job it has just created is still to come; the   *)
(* job it has found is there, or its event is to come.  A job found under  *)
(* the name the status gives was looked for because the spec changed.      *)
AwakeInv ==
  pc # "idle" /\ ~queued =>
    /\ cacheFresh => fresh /\ SameDecisions
    /\ pc = "record" => buildJobName(target) \in jobLag
    /\ pc = "destroyRecord" => DestroyName \in jobLag
    /\ pc = "adopt" =>
         \/ buildJobName(target) \in jobLag
         \/ /\ Exists(jobs[buildJobName(target)])
            /\ SpecChanged \/ my.status.activeJob # buildJobName(target)

(* A job can be built from every spec that names an engine: no spec does   *)
(* without a backend, and the git secret stays.                            *)
AlwaysBuilds ==
  "secret" \notin Faults /\ \A s \in Specs : s.engine # "none" => s.backend # "none"

RestInv ==
  /\ QuietOrFailed
  /\ AlwaysBuilds => QuietIsSettled /\ gitSecret

WakeInv == SeenInv /\ AwakeInv /\ RestInv

-----------------------------------------------------------------------------
(* A generation of an incarnation is of one spec, whichever copy has it.   *)
VersionInv ==
  \A run, other \in {obj, cache, my} :
    Exists(run) /\ run.uid = other.uid /\ run.gen = other.gen => run.spec = other.spec

(* What the status of a copy of the run says was run, against the last job *)
(* (l).  A job runs the spec of its generation; its own incarnation has    *)
(* had a job, or a later one, if a hash is recorded; as long as no later   *)
(* generation has had a job, that hash is the last job's; and no hash but  *)
(* its own is pending in a run that was not edited.                        *)
Recent(run, status, l) ==
  /\ Exists(run) /\ l.uid = run.uid /\ l.gen = run.gen =>
       l.content = computeSpecHash(run.spec)
  /\ status.lastHash # NoHash => run.uid <= l.uid
  /\ l.uid = run.uid /\ l.gen = 1 => status.lastHash \in {NoHash, l.content}
  /\ run.gen = 1 => status.pendingHash \in {NoHash, computeSpecHash(run.spec)}

(* Every copy is right about the last job, and a worker about to record a  *)
(* job has just created it.                                                *)
LastInv ==
  /\ VersionInv
  /\ last.uid # 0 => last.gen >= 1
  /\ \A run \in {obj, cache, my} : Recent(run, run.status, last)
  /\ pc = "record" =>
       /\ last.uid = my.uid /\ last.gen = my.gen
       /\ my.gen = 1 => target.hash = computeSpecHash(my.spec)

-----------------------------------------------------------------------------
CoreInv == UidInv /\ AbsentInv /\ CopyInv /\ FinalizerInv /\ HistoryInv

BaseInv == TypeInv /\ CoreInv /\ DestroyInv

RunInv == BaseInv /\ StatusInv

IInv == RunInv /\ MemoryInv /\ BareInv /\ LastInv /\ WakeInv
=============================================================================
