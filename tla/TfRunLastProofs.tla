---------------------------- MODULE TfRunLastProofs ----------------------------
(***************************************************************************)
(* LastInv is inductive together with RunInv: what the status says was run *)
(* is what was run last.  A step that starts no apply job hands versions   *)
(* of the run around, each with what it says of the last job, or makes a   *)
(* new version (Carried).  A step that starts one makes the copy at hand   *)
(* the last version run, and what the other copies have recorded is of     *)
(* that version or of an earlier one.                                      *)
(***************************************************************************)
EXTENDS TfRunMemoryProofs

SameVersion(run, old) == run.uid = old.uid /\ run.gen = old.gen /\ run.spec = old.spec

(* A version that some copy has, and one that every copy is behind.        *)
OldVersion(run) == run = NoRun \/ \E old \in {obj, cache, my} : SameVersion(run, old)

NewVersion(run) == \A old \in {obj, cache, my} : old.uid = run.uid => old.gen < run.gen

Sound(run) == Recent(run, run.status, last)

Kept(run) == OldVersion(run) /\ Sound(run)

StoreCarried == Sound(obj') /\ (OldVersion(obj') \/ NewVersion(obj'))

WorkerCarried ==
  /\ Kept(my') \/ my' = obj'
  /\ pc' = "record" => UNCHANGED <<pc, my, target>>

(* No apply job is started, and the informer has its copy or the stored one. *)
LastFrame == last' = last /\ cache' \in {cache, obj}

Carried == LastFrame /\ StoreCarried /\ WorkerCarried

(* A status that says the same of the jobs.                                *)
SameHashes(st, old) == st.lastHash = old.lastHash /\ st.pendingHash = old.pendingHash

-----------------------------------------------------------------------------
(* What an old version, and a new one, may be.                             *)
LEMMA NoRunKept == Kept(NoRun)
BY DEF Kept, OldVersion, Sound, Recent, NoRun, EmptyStatus, Exists

LEMMA RecentVersion ==
  ASSUME NEW run, NEW old, NEW st, NEW was, NEW l,
         SameVersion(run, old), SameHashes(st, was), Recent(old, was, l)
  PROVE  Recent(run, st, l)
BY DEF SameVersion, SameHashes, Recent, Exists

LEMMA CopiesKept ==
  ASSUME LastInv
  PROVE  \A run \in {obj, cache, my} : Kept(run)
BY DEF LastInv, Kept, OldVersion, SameVersion, Sound

LEMMA CurrentVersion ==
  ASSUME BaseInv, LastInv
  PROVE  /\ fresh => SameVersion(obj, my)
         /\ cacheFresh => SameVersion(obj, cache)
<1>1. CASE fresh
  <2>1. my.uid = obj.uid /\ my.gen = obj.gen
    BY <1>1 DEF BaseInv, CoreInv, CopyInv
  <2>2. my.spec = obj.spec
    BY <2>1 DEF LastInv, VersionInv, BaseInv, CoreInv, AbsentInv, Exists
  <2> QED
    BY <1>1, <2>1, <2>2 DEF SameVersion, BaseInv, CoreInv, CopyInv
<1>2. cacheFresh => SameVersion(obj, cache)
  BY DEF SameVersion, BaseInv, CoreInv, CopyInv
<1>3. CASE ~fresh
  BY <1>2, <1>3
<1> QED
  BY <1>1, <1>2, <1>3

(* A generation is of one spec as long as no copy has it but by the hand   *)
(* of another, or all that have it have the one new version.               *)
LEMMA Versions ==
  ASSUME TypeInv, VersionInv, NEW new, NEW S,
         \A run \in S : OldVersion(run) \/ run = new,
         OldVersion(new) \/ NewVersion(new)
  PROVE  \A run, other \in S :
           Exists(run) /\ run.uid = other.uid /\ run.gen = other.gen =>
             run.spec = other.spec
<1> SUFFICES ASSUME NEW run \in S, NEW other \in S,
                    Exists(run), run.uid = other.uid, run.gen = other.gen
             PROVE  run.spec = other.spec
  OBVIOUS
<1> USE NoRunFacts
<1>1. \A old \in {obj, cache, my} : old.gen \in Nat
  BY Numbers
<1>2. Exists(other)
  BY DEF Exists
<1>3. CASE OldVersion(run) /\ OldVersion(other)
  <2>1. PICK r \in {obj, cache, my} : SameVersion(run, r)
    BY <1>3 DEF OldVersion
  <2>2. PICK o \in {obj, cache, my} : SameVersion(other, o)
    BY <1>2, <1>3 DEF OldVersion
  <2>3. Exists(r) /\ r.uid = o.uid /\ r.gen = o.gen
    BY <2>1, <2>2 DEF SameVersion, Exists
  <2>4. r.spec = o.spec
    BY <2>3 DEF VersionInv
  <2> QED
    BY <2>1, <2>2, <2>4 DEF SameVersion
<1>4. CASE run = new /\ other = new
  BY <1>4
<1>5. ASSUME NEW one, OldVersion(one), NewVersion(new), Exists(one),
             one.uid = new.uid, one.gen = new.gen
      PROVE  FALSE
  <2>1. PICK o \in {obj, cache, my} : SameVersion(one, o)
    BY <1>5 DEF OldVersion
  <2> QED
    BY <1>1, <1>5, <2>1 DEF SameVersion, NewVersion
<1> QED
  BY <1>2, <1>3, <1>4, <1>5

LEMMA CarriedLast ==
  ASSUME BaseInv, LastInv, Carried
  PROVE  LastInv'
<1>1. /\ last' = last /\ cache' \in {cache, obj}
      /\ pc' = "record" => UNCHANGED <<pc, my, target>>
  BY DEF Carried, LastFrame, WorkerCarried
<1>2. Kept(cache')
  BY <1>1, CopiesKept
<1>3. Kept(my') \/ my' = obj'
  BY DEF Carried, WorkerCarried
<1>4. OldVersion(obj') \/ NewVersion(obj')
  BY DEF Carried, StoreCarried, Kept
<1>5. \A run \in {obj', cache', my'} : Sound(run) /\ (OldVersion(run) \/ run = obj')
  BY <1>2, <1>3 DEF Kept, Carried, StoreCarried
<1>6. VersionInv'
  <2> DEFINE S == {obj', cache', my'}
  <2>1. \A run \in S : OldVersion(run) \/ run = obj'
    BY <1>5
  <2>2. TypeInv /\ VersionInv
    BY DEF BaseInv, LastInv
  <2>3. VersionInv' <=>
          \A run, other \in S :
            Exists(run) /\ run.uid = other.uid /\ run.gen = other.gen =>
              run.spec = other.spec
    BY DEF VersionInv, Exists
  <2> HIDE DEF S
  <2> QED
    BY <1>4, <2>1, <2>2, <2>3, Versions
<1>7. \A run \in {obj', cache', my'} : Recent(run, run.status, last')
  BY <1>1, <1>5 DEF Sound
<1>8. last'.uid # 0 => last'.gen >= 1
  BY <1>1 DEF LastInv
<1>9. pc' = "record" =>
        /\ last'.uid = my'.uid /\ last'.gen = my'.gen
        /\ my'.gen = 1 => target'.hash = computeSpecHash(my'.spec)
  BY <1>1 DEF LastInv
<1> QED
  BY <1>6, <1>7, <1>8, <1>9 DEF LastInv, Recent, computeSpecHash, Exists
-----------------------------------------------------------------------------
(* The ways in which a reconcile goes on and ends.                         *)
LEMMA ReturnCarries ==
  ASSUME NEW requeue, NEW after, Return(requeue, after)
  PROVE  WorkerCarried
BY NoRunKept DEF Return, WorkerCarried

LEMMA SameStore ==
  ASSUME LastInv, obj' = obj
  PROVE  StoreCarried
<1>1. Kept(obj)
  BY CopiesKept
<1> QED
  BY <1>1 DEF StoreCarried, Kept

LEMMA StoredVersion ==
  ASSUME TypeInv, NEW st \in Status, StatusStored(st)
  PROVE  SameVersion(obj', obj) /\ obj'.status = st
<1>1. obj \in Run /\ obj' = [obj EXCEPT !.status = st]
  BY Numbers DEF StatusStored
<1> QED
  BY <1>1 DEF SameVersion, Run

(* An update from a copy that has the stored version if it is accepted.    *)
LEMMA SavesCarry ==
  ASSUME TypeInv, LastInv, NEW run, NEW current, current => SameVersion(obj, run),
         NEW st \in Status, Recent(run, st, last), SaveIgnoringError(current, st)
  PROVE  StoreCarried
<1>1. CASE current /\ StatusStored(st)
  <2>1. SameVersion(obj', obj) /\ obj'.status = st
    BY <1>1, StoredVersion
  <2>2. OldVersion(obj')
    BY <2>1 DEF OldVersion
  <2>3. SameVersion(obj', run) /\ SameHashes(obj'.status, st)
    BY <1>1, <2>1 DEF SameVersion, SameHashes
  <2>4. Sound(obj')
    BY <2>3, RecentVersion DEF Sound
  <2> QED
    BY <2>2, <2>4 DEF StoreCarried, Kept
<1>2. CASE UNCHANGED store
  BY <1>2, SameStore DEF store
<1> QED
  BY <1>1, <1>2 DEF SaveIgnoringError

LEMMA SaveReturnCarries ==
  ASSUME TypeInv, LastInv, NEW run, NEW current, current => SameVersion(obj, run),
         NEW st \in Status, Recent(run, st, last), NEW after,
         SaveThenReturn(current, st, after)
  PROVE  StoreCarried /\ WorkerCarried
<1>1. SaveIgnoringError(current, st)
  BY DEF SaveThenReturn, SaveIgnoringError
<1> QED
  BY <1>1, SavesCarry, ReturnCarries DEF SaveThenReturn

(* The copy at hand stays a copy of its version, and its hashes stay.      *)
LEMMA GoesOnCarries ==
  ASSUME LastInv, SameVersion(my', my), SameHashes(my'.status, my.status), pc' # "record"
  PROVE  WorkerCarried
<1>1. OldVersion(my')
  BY DEF OldVersion
<1>2. Recent(my, my.status, last)
  BY DEF LastInv
<1>3. Sound(my')
  BY <1>2, RecentVersion DEF Sound
<1> QED
  BY <1>1, <1>3 DEF WorkerCarried, Kept

LEMMA StaysCarried ==
  ASSUME LastInv, my' = my, pc' # "record" \/ UNCHANGED <<pc, target>>
  PROVE  WorkerCarried
BY CopiesKept DEF WorkerCarried

(* What a handler may write of a copy: the same hashes, or the hash of the *)
(* copy's spec as the pending one.                                         *)
LEMMA SameRecent ==
  ASSUME LastInv, NEW run \in {obj, cache, my}, NEW st, SameHashes(st, run.status)
  PROVE  Recent(run, st, last)
BY DEF LastInv, SameHashes, Recent

LEMMA PlainHashes ==
  ASSUME TypeInv
  PROVE  /\ AsFailed(my.status) \in Status
         /\ SameHashes(AsFailed(my.status), my.status)
         /\ [my.status EXCEPT !.nextRun = 0] \in Status
         /\ SameHashes([my.status EXCEPT !.nextRun = 0], my.status)
         /\ [my.status EXCEPT !.activeDestroy = FALSE] \in Status
         /\ SameHashes([my.status EXCEPT !.activeDestroy = FALSE], my.status)
         /\ [my.status EXCEPT !.phase = "Failed", !.activeDestroy = FALSE] \in Status
         /\ SameHashes([my.status EXCEPT !.phase = "Failed", !.activeDestroy = FALSE],
                       my.status)
         /\ DestroyStatus \in Status /\ SameHashes(DestroyStatus, my.status)
<1>1. my.status \in Status /\ my.gen \in Generations
  BY Sizes
<1>2. /\ AsFailed(my.status) \in Status
      /\ SameHashes(AsFailed(my.status), my.status)
  BY <1>1 DEF AsFailed, Status, Phases, SameHashes
<1>3. /\ [my.status EXCEPT !.nextRun = 0] \in Status
      /\ SameHashes([my.status EXCEPT !.nextRun = 0], my.status)
  BY <1>1, BoundsAssumption DEF Status, SameHashes
<1>4. /\ [my.status EXCEPT !.activeDestroy = FALSE] \in Status
      /\ SameHashes([my.status EXCEPT !.activeDestroy = FALSE], my.status)
  BY <1>1 DEF Status, SameHashes
<1>5. /\ [my.status EXCEPT !.phase = "Failed", !.activeDestroy = FALSE] \in Status
      /\ SameHashes([my.status EXCEPT !.phase = "Failed", !.activeDestroy = FALSE],
                    my.status)
  BY <1>1 DEF Status, Phases, SameHashes
<1>6. DestroyStatus \in Status /\ SameHashes(DestroyStatus, my.status)
  BY <1>1 DEF DestroyStatus, Status, Phases, SameHashes
<1> QED
  BY <1>2, <1>3, <1>4, <1>5, <1>6

(* An update of the copy at hand that says the same of the jobs.           *)
LEMMA PlainSave ==
  ASSUME BaseInv, LastInv, NEW st \in Status, SameHashes(st, my.status),
         SaveIgnoringError(fresh, st)
  PROVE  StoreCarried
BY SameRecent, CurrentVersion, SavesCarry DEF BaseInv

LEMMA PlainSaveReturn ==
  ASSUME BaseInv, LastInv, NEW st \in Status, SameHashes(st, my.status), NEW after,
         SaveThenReturn(fresh, st, after)
  PROVE  StoreCarried /\ WorkerCarried
BY SameRecent, CurrentVersion, SaveReturnCarries DEF BaseInv
-----------------------------------------------------------------------------
(* The actions, a group at a time.                                         *)

(* The version the defaults make is new, and nothing was run of its        *)
(* incarnation.                                                            *)
LEMMA AddsCarries ==
  ASSUME BaseInv, LastInv, Adds
  PROVE  Carried
<1> USE Numbers DEF BaseInv
<1>1. /\ Exists(obj) /\ last.uid # obj.uid /\ obj'.uid = obj.uid
      /\ obj'.status = obj.status /\ my' = obj' /\ obj' = WithFinalizer(obj)
  BY AddsFacts DEF Adds
<1>2. LastFrame /\ pc' # "record"
  BY DEF Adds, jobVars, outside, LastFrame, AfterFinalizer
<1>3. CASE Defaulted(obj.spec) = obj.spec
  <2>1. obj'.gen = obj.gen /\ obj'.spec = obj.spec
    BY <1>1, <1>3 DEF WithFinalizer, Run
  <2>2. SameVersion(obj', obj) /\ SameHashes(obj'.status, obj.status)
    BY <1>1, <2>1 DEF SameVersion, SameHashes
  <2>3. Recent(obj, obj.status, last)
    BY DEF LastInv
  <2>4. Sound(obj')
    BY <2>2, <2>3, RecentVersion DEF Sound
  <2> QED
    BY <1>1, <1>2, <2>2, <2>4 DEF Carried, StoreCarried, WorkerCarried, OldVersion
<1>4. CASE Defaulted(obj.spec) # obj.spec
  <2>1. obj'.gen = obj.gen + 1
    BY <1>1, <1>4 DEF WithFinalizer, Run
  <2>2. NewVersion(obj')
    BY <1>1, <2>1 DEF NewVersion, CoreInv, CopyInv, Behind, Exists
  <2>3. obj.gen >= 1
    BY <1>1 DEF CoreInv, AbsentInv
  <2>4. Sound(obj')
    BY <1>1, <2>1, <2>3 DEF LastInv, Sound, Recent
  <2> QED
    BY <1>1, <1>2, <2>2, <2>4 DEF Carried, StoreCarried, WorkerCarried
<1> QED
  BY <1>3, <1>4

LEMMA BeginCarries ==
  ASSUME BaseInv, LastInv, Begin \/ EnsureFinalizer
  PROVE  Carried
<1>1. CASE Begin
  <2>1. /\ LastFrame /\ obj' = obj
        /\ \/ UNCHANGED <<pc, my, target>>
           \/ my' = cache /\ pc' # "record"
    BY <1>1 DEF Begin, store, jobVars, outside, reconcileVars, LastFrame, AfterFinalizer
  <2>2. CASE UNCHANGED <<pc, my, target>>
    BY <2>1, <2>2, SameStore, StaysCarried DEF Carried
  <2>3. CASE my' = cache /\ pc' # "record"
    <3>1. Kept(cache)
      BY CopiesKept
    <3> QED
      BY <2>1, <2>3, <3>1, SameStore DEF Carried, WorkerCarried
  <2> QED
    BY <2>1, <2>2, <2>3
<1>2. CASE EnsureFinalizer /\ fresh
  BY <1>2, AddsCarries DEF EnsureFinalizer, Goto, Adds
<1>3. CASE EnsureFinalizer /\ ~fresh
  <2>1. LastFrame /\ obj' = obj /\ Return(TRUE, FALSE)
    BY <1>3 DEF EnsureFinalizer, store, jobVars, outside, LastFrame
  <2> QED
    BY <2>1, SameStore, ReturnCarries DEF Carried
<1> QED
  BY <1>1, <1>2, <1>3

(* What the workspace's handlers make of the copy at hand.                 *)
LEMMA WorkspaceCopies ==
  ASSUME TypeInv,
         \/ my' = my \/ my' = WorkspaceFailed \/ my' = WorkspacePending
         \/ my' = [my EXCEPT !.status.phase = "Failed", !.status.wsReady = FALSE,
                             !.status.wsID = 0]
         \/ my' = [my EXCEPT !.status.activeDestroy = FALSE]
         \/ \E id \in Nat : my' = WorkspaceReady(id)
  PROVE  SameVersion(my', my) /\ SameHashes(my'.status, my.status)
<1> USE DEF SameVersion, SameHashes, Run, Status
<1>1. my \in Run /\ my.status \in Status
  BY Numbers
<1>2. CASE my' = my \/ my' = [my EXCEPT !.status.activeDestroy = FALSE]
  BY <1>1, <1>2
<1>3. CASE my' = WorkspaceFailed
  BY <1>1, <1>3 DEF WorkspaceFailed
<1>4. CASE my' = WorkspacePending
  BY <1>1, <1>4 DEF WorkspacePending
<1>5. CASE my' = [my EXCEPT !.status.phase = "Failed", !.status.wsReady = FALSE,
                            !.status.wsID = 0]
  BY <1>1, <1>5
<1>6. ASSUME NEW id \in Nat, my' = WorkspaceReady(id)
      PROVE  SameVersion(my', my) /\ SameHashes(my'.status, my.status)
  BY <1>1, <1>6 DEF WorkspaceReady
<1> QED
  BY <1>2, <1>3, <1>4, <1>5, <1>6

LEMMA WorkspaceCarries ==
  ASSUME BaseInv, LastInv,
         SkipWorkspace \/ VerifyWorkspace \/ WorkspaceLost \/ ReconcileWorkspace
           \/ SaveWorkspace
  PROVE  Carried
<1> USE DEF BaseInv
<1>1. LastFrame
  BY DEF SkipWorkspace, VerifyWorkspace, WorkspaceLost, ReconcileWorkspace, SaveWorkspace,
         jobVars, outside, LastFrame
<1>2. my.status \in Status /\ SameHashes(my.status, my.status) /\ wsCount \in Nat
  BY Sizes DEF SameHashes
<1>3. ImportID \in Nat
  BY ImportTypes, BoundsAssumption
<1>4. CASE SkipWorkspace \/ VerifyWorkspace \/ ReconcileWorkspace
  <2>1. obj' = obj /\ pc' # "record"
    BY <1>4 DEF SkipWorkspace, VerifyWorkspace, ReconcileWorkspace, Goto, store
  <2>2. \/ my' = my \/ my' = WorkspaceFailed \/ my' = WorkspacePending
        \/ my' = [my EXCEPT !.status.phase = "Failed", !.status.wsReady = FALSE,
                            !.status.wsID = 0]
        \/ \E id \in Nat : my' = WorkspaceReady(id)
    BY <1>2, <1>3, <1>4
       DEF SkipWorkspace, VerifyWorkspace, ReconcileWorkspace, importScalrWorkspace,
           CreateScalrWorkspace, WorkspaceFailed
  <2> QED
    BY <1>1, <2>1, <2>2, WorkspaceCopies, SameStore, GoesOnCarries DEF Carried
<1>5. CASE WorkspaceLost
  BY <1>1, <1>2, <1>5, PlainSave, ReturnCarries DEF WorkspaceLost, Carried
<1>6. CASE SaveWorkspace
  <2>1. SaveIgnoringError(fresh, my.status)
    BY <1>6 DEF SaveWorkspace, SaveIgnoringError
  <2>2. StoreCarried
    BY <1>2, <2>1, PlainSave
  <2>3. \/ my' = my /\ pc' # "record"
        \/ Return(TRUE, FALSE)
    BY <1>6 DEF SaveWorkspace, Goto
  <2>4. WorkerCarried
    BY <2>3, StaysCarried, ReturnCarries
  <2> QED
    BY <1>1, <2>2, <2>4 DEF Carried
<1> QED
  BY <1>4, <1>5, <1>6
-----------------------------------------------------------------------------
(* A new last job.                                                         *)

(* An apply job as createNewJob starts it, under a hash that is the one of *)
(* the spec at hand unless the run was edited.                             *)
StartsOwn ==
  /\ StartsApply /\ target'.hash \in Hashes
  /\ my.gen = 1 => target'.hash = computeSpecHash(my.spec)

LEMMA StartsOwnLast ==
  ASSUME BaseInv, LastInv, StartsOwn
  PROVE  LastInv'
<1> USE Numbers DEF BaseInv
<1>1. /\ pc = "jobs" /\ pc \in ApplySteps /\ UNCHANGED <<obj, cache, my>>
      /\ last' = [uid |-> my.uid, gen |-> my.gen, content |-> my.spec.hash]
  BY DEF StartsOwn, StartsApply, store, outside, ApplySteps
<1>2. /\ Exists(my) /\ my.uid = lives /\ my.gen >= 1
      /\ last.uid = my.uid => last.gen <= my.gen
  <2>1. /\ Exists(my) /\ my.uid = obj.uid /\ my.uid \in 1..lives /\ my.gen \in 1..obj.gen
        /\ last.uid = my.uid => last.gen <= my.gen
    BY <1>1, ApplyFacts
  <2> QED
    BY <2>1 DEF CoreInv, UidInv
<1>3. VersionInv'
  BY <1>1 DEF LastInv, VersionInv, Exists
<1>4. last'.uid = my'.uid /\ last'.gen = my'.gen /\ last'.gen >= 1
  BY <1>1, <1>2
<1>5. ASSUME NEW run \in {obj, cache, my}
      PROVE  Recent(run, run.status, last')
  <2>1. Recent(run, run.status, last) /\ Recent(my, my.status, last)
    BY DEF LastInv
  <2>2. Exists(run) /\ my.uid = run.uid /\ my.gen = run.gen => my.spec = run.spec
    BY <1>2 DEF LastInv, VersionInv
  <2>3. run.uid <= my.uid
    BY <1>2 DEF CoreInv, UidInv
  <2>4. ASSUME my.uid = run.uid, my.gen = 1, run.status.lastHash # NoHash
        PROVE  run.status.lastHash = my.spec.hash
    <3>1. last.uid = run.uid
      BY <1>2, <2>1, <2>4 DEF Recent, CoreInv, UidInv
    <3>2. last.uid # 0
      BY <1>2, <2>4, <3>1 DEF Exists
    <3>3. last.gen = 1
      BY <1>2, <2>4, <3>1, <3>2 DEF LastInv
    <3> QED
      BY <1>2, <2>1, <2>4, <3>1, <3>3 DEF Recent, computeSpecHash
  <2>5. /\ last'.uid = my.uid /\ last'.gen = my.gen /\ last'.content = my.spec.hash
    BY <1>1
  <2> QED
    BY <2>1, <2>2, <2>3, <2>4, <2>5 DEF Recent, computeSpecHash
<1>6. \A run \in {obj', cache', my'} : Recent(run, run.status, last')
  BY <1>1, <1>5
<1>7. my'.gen = 1 => target'.hash = computeSpecHash(my'.spec)
  BY <1>1 DEF StartsOwn
<1> QED
  BY <1>3, <1>4, <1>6, <1>7 DEF LastInv, Recent, computeSpecHash, Exists

LEMMA CreateNewJobCarries ==
  ASSUME BaseInv, LastInv, pc = "jobs", NEW hash \in Hashes, createNewJob(hash),
         UNCHANGED outside, my.gen = 1 => hash = computeSpecHash(my.spec)
  PROVE  Carried \/ StartsOwn
<1> USE DEF BaseInv
<1>1. cache' = cache
  BY DEF outside
<1>2. /\ AsFailed(my.status) \in Status
      /\ SameHashes(AsFailed(my.status), my.status)
  BY PlainHashes
<1>3. CASE UNCHANGED <<store, jobVars>> /\ Return(TRUE, FALSE)
  BY <1>1, <1>3, SameStore, ReturnCarries DEF store, jobVars, Carried, LastFrame
<1>4. CASE SaveThenReturn(fresh, AsFailed(my.status), FALSE) /\ UNCHANGED jobVars
  BY <1>1, <1>2, <1>4, PlainSaveReturn DEF jobVars, Carried, LastFrame
<1>5. CASE /\ SaveIgnoringError(fresh, AsFailed(my.status)) /\ Return(TRUE, FALSE)
           /\ UNCHANGED jobVars
  BY <1>1, <1>2, <1>5, PlainSave, ReturnCarries DEF jobVars, Carried, LastFrame
<1>6. CASE pc' = "adopt" /\ UNCHANGED <<store, jobVars, my>>
  BY <1>1, <1>6, SameStore, StaysCarried DEF store, jobVars, Carried, LastFrame
<1>7. CASE /\ Store(buildJobName(BuildRunID(my.gen, hash)))
           /\ last' = [uid |-> my.uid, gen |-> my.gen, content |-> my.spec.hash]
           /\ target' = BuildRunID(my.gen, hash) /\ pc' = "record"
           /\ UNCHANGED <<store, my, fresh>>
  <2>1. StartsApply
    BY <1>7 DEF StartsApply
  <2> QED
    BY <1>7, <2>1 DEF StartsOwn, BuildRunID
<1> QED
  BY <1>3, <1>4, <1>5, <1>6, <1>7 DEF createNewJob, Goto

(* handlePendingExecution runs no hash but the spec's own in a run that    *)
(* was not edited.                                                         *)
LEMMA JobsCarry ==
  ASSUME BaseInv, LastInv,
         \/ DeferSpecChange \/ WaitForJob \/ RecordCompletion
         \/ RunSpecChange \/ RunPending \/ RunInterval \/ NoIntervalRun
  PROVE  Carried \/ StartsOwn
<1> USE DEF BaseInv
<1>1. pc = "jobs"
  BY DEF DeferSpecChange, WaitForJob, RecordCompletion, RunSpecChange, RunPending,
         RunInterval, NoIntervalRun
<1>2. /\ my.status \in Status /\ my.spec.hash \in Hashes
      /\ Recent(my, my.status, last)
  BY <1>1, BusyTypes DEF LastInv
<1>3. CASE RunSpecChange \/ RunInterval
  BY <1>1, <1>2, <1>3, CreateNewJobCarries DEF RunSpecChange, RunInterval, computeSpecHash
<1>4. CASE RunPending
  <2>1. /\ my.status.pendingHash \in Hashes
        /\ my.gen = 1 => my.status.pendingHash = computeSpecHash(my.spec)
    BY <1>2, <1>4 DEF RunPending, PendingExists, SpecChanged, Status, Recent
  <2> QED
    BY <1>1, <1>4, <2>1, CreateNewJobCarries DEF RunPending
<1>5. CASE DeferSpecChange
  <2> DEFINE st == [my.status EXCEPT !.pendingHash = computeSpecHash(my.spec)]
  <2>1. /\ st \in Status /\ st.lastHash = my.status.lastHash
        /\ st.pendingHash = computeSpecHash(my.spec)
    BY <1>2 DEF Status, computeSpecHash
  <2>2. LastFrame /\ SaveThenReturn(fresh, st, TRUE)
    BY <1>5 DEF DeferSpecChange, jobVars, outside, LastFrame
  <2> HIDE DEF st
  <2>3. Recent(my, st, last)
    BY <1>2, <2>1 DEF Recent
  <2> QED
    BY <2>1, <2>2, <2>3, CurrentVersion, SaveReturnCarries DEF Carried
<1>6. CASE WaitForJob
  BY <1>6, SameStore, ReturnCarries DEF WaitForJob, store, jobVars, outside, Carried, LastFrame
<1>7. CASE RecordCompletion
  <2> DEFINE st == [my.status EXCEPT !.phase = CompletedPhase(ActiveJob, my.status.phase)]
  <2>1. CompletedPhase(ActiveJob, my.status.phase) \in Phases
    BY <1>2 DEF CompletedPhase, Phases, Status
  <2>2. st \in Status /\ SameHashes(st, my.status)
    BY <1>2, <2>1 DEF Status, SameHashes
  <2>3. LastFrame /\ SaveThenReturn(fresh, st, TRUE)
    BY <1>7 DEF RecordCompletion, jobVars, outside, LastFrame
  <2> HIDE DEF st
  <2> QED
    BY <2>2, <2>3, PlainSaveReturn DEF Carried
<1>8. CASE NoIntervalRun
  <2>1. /\ LastFrame
        /\ \/ SaveThenReturn(fresh, [my.status EXCEPT !.nextRun = 0], FALSE)
           \/ SaveIgnoringError(fresh, AsFailed(my.status)) /\ Return(FALSE, FALSE)
           \/ UNCHANGED store /\ Return(FALSE, my.spec.interval = "valid")
    BY <1>8 DEF NoIntervalRun, jobVars, outside, LastFrame
  <2>2. CASE SaveThenReturn(fresh, [my.status EXCEPT !.nextRun = 0], FALSE)
    BY <2>1, <2>2, PlainHashes, PlainSaveReturn DEF Carried
  <2>3. CASE SaveIgnoringError(fresh, AsFailed(my.status)) /\ Return(FALSE, FALSE)
    BY <2>1, <2>3, PlainHashes, PlainSave, ReturnCarries DEF Carried
  <2>4. CASE UNCHANGED store /\ Return(FALSE, my.spec.interval = "valid")
    BY <2>1, <2>4, SameStore, ReturnCarries DEF store, Carried
  <2> QED
    BY <2>1, <2>2, <2>3, <2>4
<1> QED
  BY <1>3, <1>4, <1>5, <1>6, <1>7, <1>8

(* The job that RecordJob records is the last one; AdoptJob and            *)
(* AdoptDestroyJob leave the hashes of the copy they read again alone.     *)
LEMMA RecordsCarry ==
  ASSUME BaseInv, StatusInv, LastInv,
         RecordJob \/ AdoptJob \/ AdoptDestroyJob \/ RecordDestroyJob
  PROVE  Carried
<1> USE DEF BaseInv
<1>1. LastFrame
  BY DEF RecordJob, AdoptJob, AdoptDestroyJob, RecordDestroyJob, jobVars, outside, LastFrame
<1>2. cache.status \in Status
  BY Sizes
<1>3. CASE RecordJob
  <2> DEFINE st == [my.status EXCEPT !.activeJob = buildJobName(target),
                         !.lastHash = target.hash, !.phase = "Running",
                         !.observedGen = my.gen, !.pendingHash = NoHash,
                         !.nextRun = IF my.spec.interval = "none" THEN 0 ELSE now + 1]
  <2>1. SaveThenReturn(fresh, st, my.spec.interval # "none") /\ pc = "record"
    BY <1>3 DEF RecordJob
  <2>2. st \in Status
    <3>1. now \in 0..MaxTicks /\ MaxTicks \in Nat
      BY BoundsAssumption DEF TypeInv, TypeOK
    <3>2. (IF my.spec.interval = "none" THEN 0 ELSE now + 1) \in 0..(MaxTicks + 1)
      BY <3>1
    <3> QED
      BY <2>1, <3>2, FineRecord DEF Fine
  <2>3. st.lastHash = target.hash /\ st.pendingHash = NoHash
    BY <2>1, BusyTypes DEF Status
  <2> HIDE DEF st
  <2>4. /\ last.uid = my.uid /\ last.gen = my.gen /\ Exists(my)
        /\ my.gen = 1 => target.hash = computeSpecHash(my.spec)
        /\ Recent(my, my.status, last) /\ my.uid \in Nat
    BY <2>1, Numbers DEF LastInv, TypeInv
  <2>5. Recent(my, st, last)
    BY <2>3, <2>4 DEF Recent
  <2> QED
    BY <1>1, <2>1, <2>2, <2>5, CurrentVersion, SaveReturnCarries DEF Carried
<1>4. CASE AdoptJob
  <2> DEFINE st == [cache.status EXCEPT !.activeJob = buildJobName(target),
                                        !.phase = "Running", !.observedGen = cache.gen]
  <2>1. /\ pc = "adopt"
        /\ \/ UNCHANGED store /\ Return(TRUE, FALSE)
           \/ SaveThenReturn(cacheFresh, st, FALSE)
    BY <1>4 DEF AdoptJob
  <2>2. st \in Status
    BY <2>1, FineAdopt DEF Fine
  <2>3. SameHashes(st, cache.status)
    BY <1>2 DEF Status, SameHashes
  <2> HIDE DEF st
  <2>4. Recent(cache, st, last)
    BY <2>3, SameRecent
  <2>5. CASE UNCHANGED store /\ Return(TRUE, FALSE)
    BY <1>1, <2>5, SameStore, ReturnCarries DEF store, Carried
  <2>6. CASE SaveThenReturn(cacheFresh, st, FALSE)
    BY <1>1, <2>2, <2>4, <2>6, CurrentVersion, SaveReturnCarries DEF Carried
  <2> QED
    BY <2>1, <2>5, <2>6
<1>5. CASE AdoptDestroyJob
  <2> DEFINE st == [cache.status EXCEPT !.activeDestroy = TRUE, !.phase = "Pending"]
  <2>1. \/ UNCHANGED store /\ Return(TRUE, FALSE)
        \/ SaveThenReturn(cacheFresh, st, TRUE)
    BY <1>5 DEF AdoptDestroyJob
  <2>2. st \in Status /\ SameHashes(st, cache.status)
    BY <1>2 DEF Status, Phases, SameHashes
  <2> HIDE DEF st
  <2>3. Recent(cache, st, last)
    BY <2>2, SameRecent
  <2>4. CASE UNCHANGED store /\ Return(TRUE, FALSE)
    BY <1>1, <2>4, SameStore, ReturnCarries DEF store, Carried
  <2>5. CASE SaveThenReturn(cacheFresh, st, TRUE)
    BY <1>1, <2>2, <2>3, <2>5, CurrentVersion, SaveReturnCarries DEF Carried
  <2> QED
    BY <2>1, <2>4, <2>5
<1>6. CASE RecordDestroyJob
  BY <1>1, <1>6, PlainHashes, PlainSaveReturn DEF RecordDestroyJob, Carried
<1> QED
  BY <1>3, <1>4, <1>5, <1>6

LEMMA DeletionCarries ==
  ASSUME BaseInv, LastInv,
         CannotDestroy \/ CreateDestroyJob \/ FinishDestroy \/ AwaitDestroyJob
           \/ CleanupWorkspace \/ RemoveFinalizer
  PROVE  Carried
<1> USE DEF BaseInv
<1>1. LastFrame
  BY DEF CannotDestroy, CreateDestroyJob, FinishDestroy, AwaitDestroyJob, CleanupWorkspace,
         RemoveFinalizer, jobVars, outside, LastFrame
<1>2. ASSUME UNCHANGED store, NEW requeue, NEW after, Return(requeue, after)
      PROVE  Carried
  BY <1>1, <1>2, SameStore, ReturnCarries DEF store, Carried
<1>3. ASSUME NEW st \in Status, SameHashes(st, my.status), SaveIgnoringError(fresh, st),
             NEW requeue, NEW after, Return(requeue, after)
      PROVE  Carried
  BY <1>1, <1>3, PlainSave, ReturnCarries DEF Carried
<1>4. CASE CannotDestroy
  BY <1>2, <1>4 DEF CannotDestroy
<1>5. CASE CreateDestroyJob
  <2>1. CASE SaveIgnoringError(fresh, AsFailed(my.status)) /\ Return(TRUE, FALSE)
    BY <1>3, <2>1, PlainHashes
  <2>2. CASE SaveIgnoringError(fresh, DestroyStatus) /\ Return(FALSE, TRUE)
    BY <1>3, <2>2, PlainHashes
  <2>3. CASE Return(TRUE, FALSE) /\ UNCHANGED store
    BY <1>2, <2>3
  <2>4. CASE Goto("destroyRecord") /\ UNCHANGED <<store, my>>
    BY <1>1, <2>4, SameStore, StaysCarried DEF Goto, store, Carried
  <2> QED
    BY <1>5, <2>1, <2>2, <2>3, <2>4 DEF CreateDestroyJob
<1>6. CASE FinishDestroy
  <2>1. /\ my' = [my EXCEPT !.status.activeDestroy = FALSE]
        /\ SaveIgnoringError(fresh, my'.status) /\ pc' = "cleanup"
    BY <1>6 DEF FinishDestroy, Goto
  <2>2. SameVersion(my', my) /\ SameHashes(my'.status, my.status)
    BY <2>1, WorkspaceCopies
  <2>3. my'.status \in Status
    <3>1. my \in Run /\ my.status \in Status
      BY Numbers
    <3>2. my'.status = [my.status EXCEPT !.activeDestroy = FALSE]
      BY <2>1, <3>1 DEF Run
    <3> QED
      BY <3>2, PlainHashes
  <2> QED
    BY <1>1, <2>1, <2>2, <2>3, PlainSave, GoesOnCarries DEF Carried
<1>7. CASE AwaitDestroyJob
  <2>1. \/ /\ SaveIgnoringError(fresh,
                 [my.status EXCEPT !.phase = "Failed", !.activeDestroy = FALSE])
           /\ Return(FALSE, FALSE)
        \/ UNCHANGED store /\ Return(FALSE, TRUE)
    BY <1>7 DEF AwaitDestroyJob
  <2> QED
    BY <1>2, <1>3, <2>1, PlainHashes
<1>8. CASE CleanupWorkspace
  <2>1. /\ UNCHANGED store
        /\ \/ Return(TRUE, FALSE)
           \/ my' = my /\ pc' # "record"
    BY <1>8 DEF CleanupWorkspace, deleteRemoteWorkspace, Goto
  <2>2. CASE my' = my /\ pc' # "record"
    BY <1>1, <2>1, <2>2, SameStore, StaysCarried DEF store, Carried
  <2> QED
    BY <1>2, <2>1, <2>2
<1>9. CASE RemoveFinalizer
  <2>1. CASE cache.finalizer /\ cacheFresh
    <3>1. Removes /\ Return(FALSE, FALSE)
      BY <1>9, <2>1 DEF RemoveFinalizer, Return, Removes
    <3>2. Kept(obj')
      BY <3>1, RemovesDeleted, NoRunKept
    <3> QED
      BY <1>1, <3>1, <3>2, ReturnCarries DEF Carried, StoreCarried, Kept
  <2>2. CASE UNCHANGED store /\ \E requeue : Return(requeue, FALSE)
    BY <1>2, <2>2
  <2> QED
    BY <1>9, <2>1, <2>2 DEF RemoveFinalizer
<1> QED
  BY <1>4, <1>5, <1>6, <1>7, <1>8, <1>9

(* What users write is a new version, which no job has run.                *)
LEMMA UsersCarry ==
  ASSUME BaseInv, LastInv,
         UserDelete \/ \E spec \in Specs : UserCreate(spec) \/ UserEdit(spec)
  PROVE  Carried
<1> USE Numbers DEF BaseInv
<1>1. LastFrame /\ UNCHANGED <<pc, my, target>>
  BY DEF UserDelete, UserCreate, UserEdit, jobVars, outside, LastFrame
<1>2. WorkerCarried
  BY <1>1, StaysCarried
<1>3. ASSUME Exists(obj), obj'.uid = obj.uid, obj'.gen = obj.gen + 1,
             obj'.status = obj.status
      PROVE  StoreCarried
  <2>1. NewVersion(obj')
    BY <1>3 DEF NewVersion, CoreInv, CopyInv, Behind, Exists
  <2>2. obj.gen >= 1 /\ (last.uid = obj.uid => last.gen <= obj.gen)
    BY <1>3 DEF CoreInv, AbsentInv, HistoryInv
  <2>3. Recent(obj, obj.status, last)
    BY DEF LastInv
  <2>4. Sound(obj')
    BY <1>3, <2>2, <2>3 DEF Sound, Recent
  <2> QED
    BY <2>1, <2>4 DEF StoreCarried
<1>4. ASSUME NEW spec \in Specs, UserCreate(spec)
      PROVE  StoreCarried
  <2>1. obj'.uid = lives + 1 /\ obj'.status = EmptyStatus
    BY <1>4, NoRunFacts DEF UserCreate, Written, NoRun
  <2>2. \A old \in {obj, cache, my, last} : old.uid # obj'.uid
    BY <2>1 DEF CoreInv, UidInv
  <2>3. NewVersion(obj') /\ Sound(obj')
    BY <2>1, <2>2 DEF NewVersion, Sound, Recent, EmptyStatus
  <2> QED
    BY <2>3 DEF StoreCarried
<1>5. ASSUME NEW spec \in Specs, UserEdit(spec)
      PROVE  StoreCarried
  BY <1>3, <1>5, UserRuns
<1>6. ASSUME UserDelete
      PROVE  StoreCarried
  <2>1. /\ Exists(obj)
        /\ ~obj.finalizer => obj' = NoRun
        /\ obj.finalizer =>
             obj'.uid = obj.uid /\ obj'.gen = obj.gen + 1 /\ obj'.status = obj.status
    BY <1>6, UserRuns
  <2>2. CASE obj.finalizer
    BY <1>3, <2>1, <2>2
  <2>3. CASE obj' = NoRun
    <3>1. Kept(obj')
      BY <2>3, NoRunKept
    <3> QED
      BY <3>1 DEF StoreCarried, Kept
  <2> QED
    BY <2>1, <2>2, <2>3
<1> QED
  BY <1>1, <1>2, <1>4, <1>5, <1>6 DEF Carried

LEMMA OthersCarry ==
  ASSUME LastInv, Manager \/ Cluster \/ Surroundings \/ UNCHANGED vars
  PROVE  Carried
<1>1. LastFrame /\ obj' = obj
  BY DEF Manager, SyncRun, TimerFires, Resync, SyncJob, Restart, Cluster, StartPod,
     PodSucceeds, PodFails, ExpireJob, CollectJob, JobStep, Surroundings,
     WorkspaceVanishes, SecretVanishes, SecretReturns, Tick, vars, store, jobVars,
     outside, LastFrame
<1>2. (my' = NoRun /\ pc' = "idle") \/ UNCHANGED <<pc, my, target>>
  BY DEF Manager, SyncRun, TimerFires, Resync, SyncJob, Restart, Cluster, StartPod,
     PodSucceeds, PodFails, ExpireJob, CollectJob, JobStep, Surroundings,
     WorkspaceVanishes, SecretVanishes, SecretReturns, Tick, vars, reconcileVars
<1>3. WorkerCarried
  BY <1>2, StaysCarried, NoRunKept DEF WorkerCarried
<1> QED
  BY <1>1, <1>3, SameStore DEF Carried

LEMMA StepLast ==
  ASSUME RunInv, LastInv, [Next]_vars
  PROVE  Carried \/ StartsOwn
BY BeginCarries, WorkspaceCarries, JobsCarry, RecordsCarry, DeletionCarries, UsersCarry,
   OthersCarry DEF RunInv, Next, Reconcile, Users
-----------------------------------------------------------------------------
(* The inductive invariant.                                                *)
LEMMA InitLast == Init => LastInv
<1> SUFFICES ASSUME Init PROVE LastInv
  OBVIOUS
<1>1. /\ obj = NoRun /\ cache = NoRun /\ my = NoRun /\ pc = "idle"
      /\ last.uid = 0
  BY DEF Init
<1>2. VersionInv
  BY <1>1, NoRunFacts DEF VersionInv
<1>3. Recent(NoRun, NoRun.status, last)
  BY NoRunKept DEF Kept, Sound
<1> QED
  BY <1>1, <1>2, <1>3 DEF LastInv

LEMMA NextLast == RunInv /\ LastInv /\ [Next]_vars => LastInv'
BY StepLast, CarriedLast, StartsOwnLast DEF RunInv

(* Every copy of the run is right about the last apply job, at every step. *)
THEOREM LastInvariance == Spec => [](RunInv /\ LastInv)
<1>1. Init => RunInv /\ LastInv
  BY InitInv, InitStatus, InitLast DEF RunInv
<1>2. RunInv /\ LastInv /\ [Next]_vars => RunInv' /\ LastInv'
  BY NextStatus, NextLast
<1> QED
  BY <1>1, <1>2, PTL DEF Spec

LEMMA RecordedLast ==
  ASSUME RunInv, LastInv
  PROVE  RecordedIsLast
<1> SUFFICES ASSUME Exists(obj), obj.gen <= 2,
                    obj.status.lastHash = computeSpecHash(obj.spec)
             PROVE  last.uid = obj.uid /\ last.content = computeSpecHash(obj.spec)
  BY DEF RecordedIsLast
<1> USE Numbers DEF RunInv, BaseInv
<1>1. obj.status.lastHash # NoHash
  <2>1. obj.spec \in SpecType
    BY DefaultedTypes DEF TypeInv, TypeOK
  <2> QED
    BY <2>1, HashAssumption DEF SpecType, computeSpecHash
<1>2. Recent(obj, obj.status, last)
  BY DEF LastInv
<1>3. last.uid = obj.uid
  BY <1>1, <1>2 DEF Recent, CoreInv, UidInv, Exists
<1>4. last.gen \in 1..obj.gen
  BY <1>3 DEF LastInv, CoreInv, HistoryInv, Exists
<1>5. CASE last.gen = obj.gen
  BY <1>2, <1>3, <1>5 DEF Recent
<1>6. CASE last.gen = 1
  BY <1>1, <1>2, <1>3, <1>6 DEF Recent
<1> QED
  BY <1>3, <1>4, <1>5, <1>6

(* Where the status has the hash of a spec that was edited once at most,   *)
(* the last apply job was started for this object with that spec: whatever *)
(* update was refused, whatever job was found under a name and whatever    *)
(* hash was pending, handleSpecChange sees no change only where there is   *)
(* none.                                                                   *)
THEOREM RecordTrue == Spec => []RecordedIsLast
BY LastInvariance, RecordedLast, PTL
=============================================================================
