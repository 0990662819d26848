------------------------------ MODULE TfRunTypes ------------------------------
(***************************************************************************)
(* The data the TfRun controller works on: the TfRun object with its spec  *)
(* and status, the Kubernetes Jobs it starts, and the pure helpers that    *)
(* hash a spec, name a job and read a job's counters.                      *)
(*                                                                         *)
(* One namespaced name is modelled: every variable of the system speaks of *)
(* the TfRun of that name, of the successive incarnations (uids) of it,    *)
(* and of the jobs derived from it.  Reconciles of different names share   *)
(* nothing but the client.                                                 *)
(***************************************************************************)
EXTENDS Integers, FiniteSets, Sequences

CONSTANTS
  Hashes,         \* the spec hashes the submitted specs can have
  NoHash,         \* the empty LastSpecHash / PendingExecHash
  Specs,          \* the specs users submit
  Defaults,       \* what the API server's defaults make of a bare spec
  Places,         \* where a backend can put a workspace: environment and name
  NoPlace,        \* of a spec without a cloud backend
  Environments,   \* the environments that exist in Scalr
  Existing,       \* where workspaces are before the run: the n-th has id n
  RunNameLength,  \* how many characters the run's name has
  HashDigits,     \* how many leading digits tell the spec hashes apart
  MaxGen,         \* bound: no edit takes the generation beyond MaxGen
  MaxLives,       \* bound: how many times the object is created
  MaxWs,          \* bound: how many workspaces are ever created in Scalr
  MaxTicks,       \* bound: how many run intervals elapse
  BackoffLimit,   \* jobBackoffLimit of the jobs (3 in the code)
  ImportID        \* workspace named by the import annotation; 0: none

(* "short" is an interval below 45 minutes, "valid" one of 45 or more.     *)
Intervals == {"none", "short", "valid"}

(* "none": backend.cloud is nil.  "unsupported": a provider ForProvider    *)
(* has no implementation for, such as terraformCloud.                      *)
Backends == {"none", "scalr", "unsupported"}

(* "none": spec.engine is left out.                                        *)
Engines == {"none", "opentofu", "terraform"}

(* What the controller tells apart in a spec.  hash stands for the module, *)
(* ref, path, vars, arguments and backend; engine, credentials and         *)
(* interval are outside the hash.  place is what cloud.workspace and its   *)
(* environment come to.                                                    *)
SpecType == [hash : Hashes, interval : Intervals, engine : Engines,
             backend : Backends, place : Places \cup {NoPlace}]

(* A spec the schema's defaults have nothing to add to.                    *)
Complete(spec) == spec.engine # "none" /\ spec.backend # "none"

(* The controller's first update sends engine and backend as empty objects *)
(* where the user left them out, and the API server fills those in.        *)
Defaulted(spec) == IF Complete(spec) THEN spec ELSE Defaults[spec]

(* The specs an object can have.                                           *)
StoredSpecs == Specs \cup {Defaulted(spec) : spec \in Specs}

ASSUME BoundsAssumption ==
  /\ MaxGen \in Nat \ {0}
  /\ MaxLives \in Nat
  /\ MaxWs \in Nat
  /\ MaxTicks \in Nat
  /\ BackoffLimit \in Nat

ASSUME WorkspaceAssumption ==
  /\ Existing \in Seq(Places) /\ Len(Existing) <= MaxWs
  /\ ImportID \in 0..Len(Existing)
  /\ NoPlace \notin Places

ASSUME NameAssumption ==
  /\ RunNameLength \in Nat \ {0}
  /\ HashDigits \in 1..16

ASSUME HashAssumption == NoHash \notin Hashes

(* A backend names its workspace and is one of the hashed fields; the      *)
(* defaults are those of the custom resource definition.                   *)
ASSUME SpecsAssumption ==
  /\ StoredSpecs \subseteq SpecType
  /\ \A s \in StoredSpecs : s.backend # "none" => s.place \in Places
  /\ \A s, t \in StoredSpecs :
       s.hash = t.hash => s.backend = t.backend /\ s.place = t.place
  /\ \A s \in Specs : ~Complete(s) =>
       LET filled == Defaults[s] IN
       /\ filled.interval = s.interval
       /\ filled.engine = IF s.engine = "none" THEN "opentofu" ELSE s.engine
       /\ IF s.backend = "none" THEN filled.backend = "scalr" ELSE filled.hash = s.hash

-----------------------------------------------------------------------------
(* Generations.  The API server numbers the spec's versions from 1 and     *)
(* adds one more when the finalizer's update fills in the defaults, and    *)
(* one when it stamps the deletion.                                        *)
Generations == 0..(MaxGen + 2)

Uids == 0..MaxLives

BuildRunID(generation, specHash) == [gen |-> generation, hash |-> specHash]

RunIDs == [gen : Generations, hash : Hashes]

NoRunID == [gen |-> 0, hash |-> NoHash]

-----------------------------------------------------------------------------
(* Names.  A job is called apply-<run>-gen-<generation>-<hash>, cut at the *)
(* longest a name may be, or <run>-destroy, which nothing cuts.            *)
MaxNameLength == 63

(* How many digits a generation is written with.                           *)
Digits[n \in Nat] == IF n < 10 THEN 1 ELSE 1 + Digits[n \div 10]

(* What is left of the name after "apply-<run>-gen-", and of that after    *)
(* the generation and its "-".                                             *)
GenRoom == MaxNameLength - (RunNameLength + 11)

HashRoom(generation) == GenRoom - Digits[generation] - 1

(* The generation as far as the name goes; 0 stands for none of it.        *)
GenKept(generation) ==
  IF GenRoom >= Digits[generation] THEN generation
  ELSE IF GenRoom <= 0 THEN 0
  ELSE generation \div (10 ^ (Digits[generation] - GenRoom))

(* A run id carries 8 digits of the hash.  A hash of which the name keeps  *)
(* too few to tell it from another is none.                                *)
HashKept(runID) ==
  IF HashDigits <= 8 /\ HashDigits <= HashRoom(runID.gen) THEN runID.hash ELSE NoHash

buildJobName(runID) ==
  [kind |-> "apply", gen |-> GenKept(runID.gen), hash |-> HashKept(runID)]

NoName == [kind |-> "none", gen |-> 0, hash |-> NoHash]

DestroyName == [kind |-> "destroy", gen |-> 0, hash |-> NoHash]

JobNames == {DestroyName} \cup {buildJobName(runID) : runID \in RunIDs}

NameLength(name) ==
  IF name = DestroyName THEN RunNameLength + 8 ELSE MaxNameLength

computeSpecHash(spec) == spec.hash

-----------------------------------------------------------------------------
(* Jobs: the owner's uid, the spec hash the pod runs, and the counters of  *)
(* batchv1.JobStatus.  uid 0 is the absent job.                            *)
Job == [uid : Uids, content : Hashes \cup {NoHash}, active : 0..1,
        succeeded : 0..1, failed : 0..(BackoffLimit + 1)]

NoJob == [uid |-> 0, content |-> NoHash, active |-> 0, succeeded |-> 0, failed |-> 0]

(* A job as the API server stores it: the job controller has not seen it   *)
(* yet, so its active counter is still zero.                               *)
NewJob(uid, content) ==
  [uid |-> uid, content |-> content, active |-> 0, succeeded |-> 0, failed |-> 0]

isJobActive(job) == job.active > 0

isJobSucceeded(job) == job.succeeded > 0

isJobFailed(job) == job.failed > 0

(* Complete or Failed condition set: no further pod is started.            *)
Finished(job) == job.succeeded > 0 \/ job.failed > BackoffLimit

-----------------------------------------------------------------------------
(* TfRunStatus.  Message, RunID, PendingReason, WorkspaceImport, the       *)
(* conditions and LastRunTime are abstracted: nothing reads them.          *)
Phases == {"none", "Pending", "Running", "Succeeded", "Failed"}

Status == [phase : Phases,
           activeJob : JobNames \cup {NoName},
           activeDestroy : BOOLEAN,          \* ActiveDestroyJobName is set
           wsID : 0..MaxWs,                  \* 0: no workspace
           wsReady : BOOLEAN,
           lastHash : Hashes \cup {NoHash},
           pendingHash : Hashes \cup {NoHash},
           nextRun : 0..(MaxTicks + 1),      \* 0: nil
           observedGen : Generations]

EmptyStatus == [phase |-> "none", activeJob |-> NoName, activeDestroy |-> FALSE,
                wsID |-> 0, wsReady |-> FALSE, lastHash |-> NoHash,
                pendingHash |-> NoHash, nextRun |-> 0, observedGen |-> 0]

NoSpec == [hash |-> NoHash, interval |-> "none", engine |-> "none",
           backend |-> "none", place |-> NoPlace]

Run == [uid : Uids, gen : Generations, spec : SpecType \cup {NoSpec},
        deleting : BOOLEAN, finalizer : BOOLEAN, status : Status]

(* The absent object.                                                      *)
NoRun == [uid |-> 0, gen |-> 0, spec |-> NoSpec, deleting |-> FALSE,
          finalizer |-> FALSE, status |-> EmptyStatus]

Exists(run) == run.uid # 0

(* The webhook's ValidateCreate and ValidateUpdate.                        *)
Admitted(spec) == spec.interval # "short"
=============================================================================
