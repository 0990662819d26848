------------------------------ MODULE TfRunJobs ------------------------------
(***************************************************************************)
(* The bootstrap job builder and the engines: which specs a job can be     *)
(* built from, and what of the job makes the API server refuse it for      *)
(* good - its name, its owner label, the time it is kept once it has       *)
(* ended.  The container's commands, image and variables are data nothing  *)
(* here depends on.                                                        *)
(***************************************************************************)
EXTENDS TfRunTypes

CONSTANTS
  JobTTLSuccess,   \* the number in JOB_TTL_SUCCESS; 0: unset or no number
  JobTTLDestroy,   \* the number in JOB_TTL_DESTROY; 0: unset or no number
  Int32Half        \* 2 ^ 31 in the code: int32 is -Int32Half .. Int32Half - 1

ASSUME TTLAssumption ==
  /\ JobTTLSuccess \in Int /\ JobTTLDestroy \in Int
  /\ Int32Half \in Nat \ {0}

(* The conversion wraps.                                                   *)
ToInt32(n) == ((n + Int32Half) % (2 * Int32Half)) - Int32Half

TTLDefault == 300    \* ttlSuccessDefault, ttlFailureDefault

MinTTL == 600

(* Mutant of getTTL: a value below the minimum is taken too.               *)
getTTL_unchecked(ttl) == IF ttl # 0 THEN ToInt32(ttl) ELSE TTLDefault

getTTL(ttl) == IF ttl >= MinTTL THEN ToInt32(ttl) ELSE TTLDefault

(* ttlSecondsAfterFinished of the job of a name.                           *)
TTLOf(name) == getTTL(IF name = DestroyName THEN JobTTLDestroy ELSE JobTTLSuccess)

(* ForEngine has a builder and no error: not for a spec that names no      *)
(* engine, nor for terragrunt, which the schema does not admit.            *)
ForEngine(spec) == spec.engine \in {"opentofu", "terraform"}

(* BuildJob fails without a cloud backend and without the git credentials. *)
BuildJob(spec, credentials) == spec.backend # "none" /\ credentials

(* The API server's validation of a Job: its name, and the owner's name in *)
(* a label, have at most 63 characters, and the TTL is not negative.       *)
Valid(name) ==
  /\ RunNameLength <= MaxNameLength
  /\ NameLength(name) <= MaxNameLength
  /\ TTLOf(name) >= 0
=============================================================================
