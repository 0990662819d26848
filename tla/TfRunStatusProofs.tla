--------------------------- MODULE TfRunStatusProofs ---------------------------
(***************************************************************************)
(* StatusInv is inductive together with BaseInv (RunInv): whatever copy a  *)
(* handler writes from, what it writes is true of the run, its workspace   *)
(* and its jobs.  What a step may store and what it may take for its own   *)
(* copy are told apart (StoreHonest, WorkerHonest), as most steps do one   *)
(* of them.                                                                *)
(***************************************************************************)
EXTENDS TfRunSafetyProofs

HonestNow(run) == Honest(run, wsCount, created)

Observed ==
  obj'.uid = obj.uid => obj'.status.observedGen >= obj.status.observedGen

StoreHonest == HonestNow(obj)' /\ Observed

WorkerHonest ==
  /\ HonestNow(my)'
  /\ fresh' => obj'.status.observedGen <= my'.status.observedGen
  /\ pc' = "record" => <<my'.uid, buildJobName(target')>> \in created'
  /\ pc' = "adopt" => \E u \in Uids : <<u, buildJobName(target')>> \in created'

(* Workspaces and jobs that were created stay so, and the informer's copy  *)
(* is the one it was or the stored one.                                    *)
Frame ==
  /\ cache' \in {cache, obj} /\ created \subseteq created'
  /\ wsCount <= wsCount' /\ wsCount' \in Nat

(* A status that may be written from a copy of the run, and a copy that is *)
(* the stored version if current holds.                                    *)
Fine(st, run) ==
  /\ st \in Status /\ Honest([run EXCEPT !.status = st], wsCount, created)
  /\ run.status.observedGen <= st.observedGen

CopyIf(run, current) ==
  current => /\ obj.uid = run.uid /\ obj.gen = run.gen
             /\ obj.status.observedGen <= run.status.observedGen

-----------------------------------------------------------------------------
(* What makes a status honest, and what keeps it so.                       *)
LEMMA Sizes ==
  ASSUME TypeInv
  PROVE  /\ wsCount \in Nat /\ MaxWs \in Nat /\ Len(Existing) \in Nat
         /\ \A run \in {obj, cache, my} :
              /\ run \in Run /\ run.status \in Status
              /\ run.uid \in Nat /\ run.gen \in Nat /\ run.gen \in Generations
              /\ run.status.observedGen \in Nat /\ run.status.wsID \in Nat
<1>1. MaxWs \in Nat /\ wsCount \in 0..MaxWs /\ Len(Existing) \in 0..MaxWs
  BY BoundsAssumption, ImportTypes DEF TypeInv, TypeOK
<1>2. \A n \in Generations : n \in Nat
  BY BoundsAssumption DEF Generations
<1>3. \A st \in Status : st.observedGen \in Generations /\ st.wsID \in 0..MaxWs
  BY DEF Status
<1>4. \A run \in {obj, cache, my} : run \in Run /\ run.status \in Status /\ run.uid \in Nat
  BY Numbers
<1>5. \A run \in Run : run.gen \in Generations
  BY DEF Run
<1>6. ASSUME NEW run \in {obj, cache, my}
      PROVE  /\ run \in Run /\ run.status \in Status
             /\ run.uid \in Nat /\ run.gen \in Nat /\ run.gen \in Generations
             /\ run.status.observedGen \in Nat /\ run.status.wsID \in Nat
  <2>1. run \in Run /\ run.status \in Status /\ run.uid \in Nat
    BY <1>4
  <2>2. run.gen \in Nat /\ run.gen \in Generations
    BY <1>2, <1>5, <2>1
  <2>3. run.status.observedGen \in Nat
    BY <1>2, <1>3, <2>1
  <2>4. run.status.wsID \in Nat
    BY <1>1, <1>3, <2>1
  <2> QED
    BY <2>1, <2>2, <2>3, <2>4
<1>7. wsCount \in Nat /\ MaxWs \in Nat /\ Len(Existing) \in Nat
  BY <1>1
<1> QED
  BY <1>6, <1>7

LEMMA NoRunHonest ==
  ASSUME NEW n \in Nat, NEW c
  PROVE  Honest(NoRun, n, c) /\ NoRun.status.observedGen = 0
BY DEF Honest, NoRun, EmptyStatus

(* A later version with the same status, more workspaces, more jobs.       *)
LEMMA HonestGrows ==
  ASSUME NEW run, NEW later, NEW n \in Nat, NEW m \in Nat, NEW c, NEW d,
         Honest(run, n, c), n <= m, c \subseteq d,
         run.gen \in Nat, later.gen \in Nat, run.gen <= later.gen,
         later.uid = run.uid, later.status = run.status,
         run.status.observedGen \in Nat, run.status.wsID \in Nat
  PROVE  Honest(later, m, d)
BY DEF Honest

LEMMA WrittenFields ==
  ASSUME TypeInv, NEW run \in {obj, cache, my}, NEW st \in Status
  PROVE  LET new == [run EXCEPT !.status = st] IN
         new.uid = run.uid /\ new.gen = run.gen /\ new.status = st
BY Sizes DEF Run

(* The handlers' updates that name neither a job nor a workspace.          *)
LEMMA FineWrites ==
  ASSUME TypeInv, StatusInv, NEW run \in {cache, my}
  PROVE  LET st == run.status
         IN  /\ Fine(st, run) /\ Fine(AsFailed(st), run)
             /\ \A p \in Phases : Fine([st EXCEPT !.phase = p], run)
             /\ \A h \in Hashes \cup {NoHash} : Fine([st EXCEPT !.pendingHash = h], run)
             /\ Fine([st EXCEPT !.nextRun = 0], run)
             /\ Fine([st EXCEPT !.activeDestroy = FALSE], run)
             /\ Fine([st EXCEPT !.phase = "Failed", !.activeDestroy = FALSE], run)
             /\ Fine([st EXCEPT !.activeDestroy = TRUE, !.phase = "Pending"], run)
             /\ Fine([st EXCEPT !.activeDestroy = TRUE, !.phase = "Pending",
                                !.observedGen = run.gen], run)
<1>1. run \in Run /\ run.status \in Status /\ run.gen \in Generations
  BY Sizes
<1>2. HonestNow(run) /\ run.status.observedGen \in Nat /\ run.gen \in Nat
  BY Sizes DEF StatusInv, HonestNow
<1> DEFINE Kept(new) == /\ new.observedGen \in {run.status.observedGen, run.gen}
                        /\ new.wsID = run.status.wsID /\ new.wsReady = run.status.wsReady
                        /\ new.lastHash = run.status.lastHash
                        /\ new.activeJob = run.status.activeJob
<1>3. ASSUME NEW new \in Status, Kept(new)
      PROVE  Fine(new, run)
  <2>1. [run EXCEPT !.status = new].uid = run.uid
          /\ [run EXCEPT !.status = new].gen = run.gen
          /\ [run EXCEPT !.status = new].status = new
    BY WrittenFields
  <2>2. Honest([run EXCEPT !.status = new], wsCount, created)
    BY <1>2, <1>3, <2>1 DEF Honest, HonestNow
  <2>3. run.status.observedGen <= new.observedGen
    BY <1>2, <1>3 DEF Honest, HonestNow
  <2> QED
    BY <2>2, <2>3 DEF Fine
<1>4. Kept(run.status)
  OBVIOUS
<1>5. Kept(AsFailed(run.status))
  BY <1>1 DEF Status, AsFailed
<1>6. ASSUME NEW p \in Phases
      PROVE  Kept([run.status EXCEPT !.phase = p])
  BY <1>1 DEF Status
<1>7. ASSUME NEW h \in Hashes \cup {NoHash}
      PROVE  Kept([run.status EXCEPT !.pendingHash = h])
  BY <1>1 DEF Status
<1>8. Kept([run.status EXCEPT !.nextRun = 0])
  BY <1>1 DEF Status
<1>9. Kept([run.status EXCEPT !.activeDestroy = FALSE])
  BY <1>1 DEF Status
<1>10. Kept([run.status EXCEPT !.phase = "Failed", !.activeDestroy = FALSE])
  BY <1>1 DEF Status
<1>11. Kept([run.status EXCEPT !.activeDestroy = TRUE, !.phase = "Pending"])
  BY <1>1 DEF Status
<1>12. Kept([run.status EXCEPT !.activeDestroy = TRUE, !.phase = "Pending",
                               !.observedGen = run.gen])
  BY <1>1 DEF Status
<1> HIDE DEF Kept
<1>13. Fine(run.status, run) /\ Fine(AsFailed(run.status), run)
  BY <1>1, <1>3, <1>4, <1>5, StatusTypes
<1>14. \A p \in Phases : Fine([run.status EXCEPT !.phase = p], run)
  BY <1>1, <1>3, <1>6, StatusTypes
<1>15. \A h \in Hashes \cup {NoHash} : Fine([run.status EXCEPT !.pendingHash = h], run)
  BY <1>1, <1>3, <1>7, StatusTypes
<1>16. /\ Fine([run.status EXCEPT !.nextRun = 0], run)
       /\ Fine([run.status EXCEPT !.activeDestroy = FALSE], run)
  BY <1>1, <1>3, <1>8, <1>9, StatusTypes
<1>17. /\ Fine([run.status EXCEPT !.phase = "Failed", !.activeDestroy = FALSE], run)
       /\ Fine([run.status EXCEPT !.activeDestroy = TRUE, !.phase = "Pending"], run)
       /\ Fine([run.status EXCEPT !.activeDestroy = TRUE, !.phase = "Pending",
                                  !.observedGen = run.gen], run)
  BY <1>1, <1>3, <1>10, <1>11, <1>12, StatusTypes
<1> QED
  BY <1>13, <1>14, <1>15, <1>16, <1>17

LEMMA ApplyNamed == \A runID \in RunIDs : buildJobName(runID) # NoName
BY DEF buildJobName, NoName

(* The same for the two that name the job at hand.                         *)
LEMMA FineRecord ==
  ASSUME TypeInv, StatusInv, pc = "record",
         NEW t \in 0..(MaxTicks + 1)
  PROVE  Fine([my.status EXCEPT !.activeJob = buildJobName(target), !.lastHash = target.hash,
                                !.phase = "Running", !.observedGen = my.gen,
                                !.pendingHash = NoHash, !.nextRun = t], my)
<1> DEFINE new == [my.status EXCEPT !.activeJob = buildJobName(target),
                                    !.lastHash = target.hash, !.phase = "Running",
                                    !.observedGen = my.gen, !.pendingHash = NoHash,
                                    !.nextRun = t]
<1>1. /\ my.status \in Status /\ my.gen \in Generations /\ my.gen \in Nat /\ my.uid \in Uids
      /\ my.status.observedGen \in Nat /\ HonestNow(my)
  BY Sizes, BusyTypes DEF StatusInv, HonestNow
<1>2. target \in RunIDs /\ buildJobName(target) \in JobNames /\ buildJobName(target) # NoName
  BY NameTypes, ApplyNamed DEF TypeInv
<1>3. target.gen \in Generations /\ target.hash \in Hashes
        /\ BuildRunID(target.gen, target.hash) = target
  BY <1>2 DEF RunIDs, BuildRunID
<1>4. new \in Status
  BY <1>1, <1>2, <1>3, RunningTypes
<1>5. /\ new.activeJob = buildJobName(target) /\ new.lastHash = target.hash
      /\ new.observedGen = my.gen
      /\ new.wsID = my.status.wsID /\ new.wsReady = my.status.wsReady
  BY <1>1 DEF Status
<1>6. <<my.uid, buildJobName(target)>> \in created
  BY DEF StatusInv
<1> HIDE DEF new
<1>7. Honest([my EXCEPT !.status = new], wsCount, created)
  BY <1>1, <1>2, <1>3, <1>4, <1>5, <1>6, WrittenFields DEF Honest, HonestNow
<1>8. my.status.observedGen <= new.observedGen
  BY <1>1, <1>5 DEF Honest, HonestNow
<1> QED
  BY <1>4, <1>7, <1>8 DEF Fine, new

LEMMA FineAdopt ==
  ASSUME TypeInv, StatusInv, pc = "adopt"
  PROVE  Fine([cache.status EXCEPT !.activeJob = buildJobName(target), !.phase = "Running",
                                   !.observedGen = cache.gen], cache)
<1> DEFINE new == [cache.status EXCEPT !.activeJob = buildJobName(target),
                                       !.phase = "Running", !.observedGen = cache.gen]
<1>1. /\ cache.status \in Status /\ cache.gen \in Generations /\ cache.gen \in Nat
      /\ cache.status.observedGen \in Nat /\ HonestNow(cache)
  BY Sizes DEF StatusInv, HonestNow
<1>2. target \in RunIDs /\ buildJobName(target) \in JobNames /\ buildJobName(target) # NoName
  BY NameTypes, ApplyNamed DEF TypeInv
<1>3. new \in Status
  BY <1>1, <1>2, StatusTypes
<1>4. /\ new.activeJob = buildJobName(target) /\ new.lastHash = cache.status.lastHash
      /\ new.observedGen = cache.gen
      /\ new.wsID = cache.status.wsID /\ new.wsReady = cache.status.wsReady
  BY <1>1 DEF Status
<1>5. \E u \in Uids : <<u, buildJobName(target)>> \in created
  BY DEF StatusInv
<1> HIDE DEF new
<1>6. Honest([cache EXCEPT !.status = new], wsCount, created)
  BY <1>1, <1>2, <1>3, <1>4, <1>5, WrittenFields DEF Honest, HonestNow
<1>7. cache.status.observedGen <= new.observedGen
  BY <1>1, <1>4 DEF Honest, HonestNow
<1> QED
  BY <1>3, <1>6, <1>7 DEF Fine, new
-----------------------------------------------------------------------------
(* How a status is written and a reconcile goes on.                        *)
LEMMA Copies ==
  ASSUME BaseInv, StatusInv
  PROVE  CopyIf(my, fresh) /\ CopyIf(cache, cacheFresh)
BY Sizes DEF BaseInv, CoreInv, CopyInv, StatusInv, CopyIf

LEMMA UnwrittenHonest ==
  ASSUME TypeInv, StatusInv, Frame, obj' = obj
  PROVE  StoreHonest
<1>1. /\ Honest(obj, wsCount, created) /\ obj.gen \in Nat /\ wsCount \in Nat
      /\ obj.status.observedGen \in Nat /\ obj.status.wsID \in Nat
  BY Sizes DEF StatusInv
<1>2. Observed
  BY <1>1 DEF Observed
<1>3. obj.gen <= obj.gen /\ wsCount <= wsCount' /\ wsCount' \in Nat /\ created \subseteq created'
  BY <1>1 DEF Frame
<1>4. Honest(obj', wsCount', created')
  BY <1>1, <1>3, HonestGrows
<1> QED
  BY <1>2, <1>4 DEF StoreHonest, HonestNow

LEMMA StoredHonest ==
  ASSUME TypeInv, StatusInv, Frame, NEW run \in {cache, my}, CopyIf(run, TRUE),
         NEW st, Fine(st, run), StatusStored(st)
  PROVE  StoreHonest /\ obj'.status = st
<1> DEFINE new == [run EXCEPT !.status = st]
<1>1. /\ obj.uid = run.uid /\ obj.gen = run.gen /\ st \in Status
      /\ obj.status.observedGen <= run.status.observedGen
      /\ run.status.observedGen <= st.observedGen
      /\ Honest(new, wsCount, created)
  BY DEF CopyIf, Fine
<1>2. obj' = [obj EXCEPT !.status = st]
  BY DEF StatusStored
<1>3. obj'.uid = obj.uid /\ obj'.gen = obj.gen /\ obj'.status = st
  BY <1>1, <1>2, WrittenFields
<1>4. new.uid = run.uid /\ new.gen = run.gen /\ new.status = st
  BY <1>1, WrittenFields
<1>5. st.observedGen \in Nat /\ st.wsID \in Nat
  BY <1>1, BoundsAssumption DEF Status, Generations
<1>6. run.gen \in Nat /\ obj.status.observedGen \in Nat /\ run.status.observedGen \in Nat
        /\ wsCount \in Nat
  BY Sizes
<1> HIDE DEF new
<1>7. Honest(obj', wsCount', created')
  BY <1>1, <1>3, <1>4, <1>5, <1>6, HonestGrows DEF Frame
<1>8. Observed
  BY <1>1, <1>3, <1>5, <1>6 DEF Observed
<1> QED
  BY <1>3, <1>7, <1>8 DEF StoreHonest, HonestNow

LEMMA SavedHonest ==
  ASSUME TypeInv, StatusInv, Frame, NEW run \in {cache, my}, NEW current,
         CopyIf(run, current), NEW st, Fine(st, run), SaveIgnoringError(current, st)
  PROVE  StoreHonest /\ (current => obj'.status = st)
<1>1. CASE current
  BY <1>1, StoredHonest DEF SaveIgnoringError, CopyIf
<1>2. CASE ~current
  BY <1>2, UnwrittenHonest DEF SaveIgnoringError, store
<1> QED
  BY <1>1, <1>2

LEMMA ReturnHonest ==
  ASSUME Frame, NEW requeue, NEW after, Return(requeue, after)
  PROVE  WorkerHonest
BY NoRunHonest DEF Return, Frame, WorkerHonest, HonestNow

LEMMA SaveReturnHonest ==
  ASSUME TypeInv, StatusInv, Frame, NEW run \in {cache, my}, NEW current,
         CopyIf(run, current), NEW st, Fine(st, run), NEW after,
         SaveThenReturn(current, st, after)
  PROVE  StoreHonest /\ WorkerHonest
<1>1. CASE current
  BY <1>1, StoredHonest, ReturnHonest DEF SaveThenReturn, CopyIf
<1>2. CASE ~current
  BY <1>2, UnwrittenHonest, ReturnHonest DEF SaveThenReturn, store
<1> QED
  BY <1>1, <1>2

(* The copy at hand stays, and what is stored is not beyond it.            *)
LEMMA StaysHonest ==
  ASSUME TypeInv, StatusInv, Frame, my' = my, fresh' => fresh,
         obj' = obj \/ (fresh' => obj'.status.observedGen = my.status.observedGen),
         UNCHANGED <<pc, target>> \/ pc' \notin {"record", "adopt"}
  PROVE  WorkerHonest
<1>1. Honest(my', wsCount', created')
  <2>1. /\ Honest(my, wsCount, created) /\ my.gen \in Nat /\ my.status.observedGen \in Nat
        /\ my.status.wsID \in Nat /\ wsCount \in Nat /\ my.gen <= my.gen
    BY Sizes DEF StatusInv
  <2>2. wsCount <= wsCount' /\ wsCount' \in Nat /\ created \subseteq created'
    BY DEF Frame
  <2> QED
    BY <2>1, <2>2, HonestGrows
<1>2. fresh' => obj'.status.observedGen <= my'.status.observedGen
  <2>1. my.status.observedGen <= my.status.observedGen
    BY Sizes
  <2> QED
    BY <2>1 DEF StatusInv
<1> QED
  BY <1>1, <1>2 DEF WorkerHonest, HonestNow, Frame, StatusInv

LEMMA Assembled ==
  ASSUME TypeInv, StatusInv, Frame, StoreHonest, WorkerHonest
  PROVE  StatusInv'
<1>1. Honest(cache', wsCount', created')
  <2>1. PICK run \in {cache, obj} : cache' = run
    BY DEF Frame
  <2>2. /\ Honest(run, wsCount, created)
        /\ run.gen \in Nat /\ run.gen <= run.gen /\ wsCount \in Nat
        /\ run.status.observedGen \in Nat /\ run.status.wsID \in Nat
    <3>1. Honest(run, wsCount, created)
      BY DEF StatusInv
    <3>2. /\ run.gen \in Nat /\ wsCount \in Nat
          /\ run.status.observedGen \in Nat /\ run.status.wsID \in Nat
      BY Sizes
    <3> QED
      BY <3>1, <3>2
  <2>3. wsCount <= wsCount' /\ wsCount' \in Nat /\ created \subseteq created'
    BY DEF Frame
  <2> QED
    BY <2>1, <2>2, <2>3, HonestGrows
<1>2. Len(Existing) <= wsCount'
  BY Sizes DEF Frame, StatusInv
<1> QED
  BY <1>1, <1>2 DEF StatusInv, StoreHonest, WorkerHonest, HonestNow
-----------------------------------------------------------------------------
(* The actions, a group at a time: what they store and what they take for  *)
(* their own copy is honest.                                               *)
LEMMA PlainFrame ==
  ASSUME TypeInv, UNCHANGED <<created, wsCount, cache>>
  PROVE  Frame
BY Sizes DEF Frame

LEMMA BeginHonest ==
  ASSUME BaseInv, StatusInv, Begin \/ EnsureFinalizer
  PROVE  Frame /\ StoreHonest /\ WorkerHonest
<1> USE DEF BaseInv
<1>1. UNCHANGED <<created, wsCount, cache>>
  BY DEF Begin, EnsureFinalizer, jobVars, scalr, outside
<1>2. Frame
  BY <1>1, PlainFrame
<1>3. CASE Begin
  <2>1. obj' = obj
    BY <1>3 DEF Begin, store
  <2>2. StoreHonest
    BY <1>2, <2>1, UnwrittenHonest
  <2>3. CASE ~Exists(cache)
    <3>1. UNCHANGED reconcileVars
      BY <1>3, <2>3 DEF Begin
    <3> QED
      BY <1>2, <2>1, <2>2, <3>1, StaysHonest DEF reconcileVars
  <2>4. CASE Exists(cache)
    <3>1. my' = cache /\ fresh' = cacheFresh /\ pc' \notin {"record", "adopt"}
      BY <1>3, <2>4 DEF Begin, AfterFinalizer
    <3>2. Honest(cache, wsCount, created)
      BY DEF StatusInv
    <3>3. cacheFresh => obj.status.observedGen <= cache.status.observedGen
      BY Copies DEF CopyIf
    <3>4. WorkerHonest
      BY <1>1, <2>1, <3>1, <3>2, <3>3 DEF WorkerHonest, HonestNow
    <3> QED
      BY <1>2, <2>2, <3>4
  <2> QED
    BY <2>3, <2>4
<1>4. CASE EnsureFinalizer /\ fresh
  <2>1. Adds
    BY <1>4 DEF EnsureFinalizer, Goto, Adds
  <2>2. /\ obj'.uid = obj.uid /\ obj'.status = obj.status /\ my' = obj'
        /\ obj'.gen \in {obj.gen, obj.gen + 1} /\ pc' \notin {"record", "adopt"}
    BY <2>1, AddsFacts DEF Adds, AfterFinalizer
  <2>3. Honest(obj, wsCount, created) /\ obj.gen \in Nat /\ wsCount \in Nat
          /\ obj.status.observedGen \in Nat /\ obj.status.wsID \in Nat
    BY Sizes DEF StatusInv
  <2>4. obj.gen <= obj'.gen /\ obj'.gen \in Nat
    BY <2>2, <2>3
  <2>5. Honest(obj', wsCount', created')
    BY <1>1, <2>2, <2>3, <2>4, HonestGrows
  <2>6. StoreHonest /\ WorkerHonest
    BY <2>2, <2>3, <2>5 DEF StoreHonest, WorkerHonest, HonestNow, Observed
  <2> QED
    BY <1>2, <2>6
<1>5. CASE EnsureFinalizer /\ ~fresh
  <2>1. obj' = obj /\ Return(TRUE, FALSE)
    BY <1>5 DEF EnsureFinalizer, store
  <2> QED
    BY <1>2, <2>1, UnwrittenHonest, ReturnHonest
<1> QED
  BY <1>3, <1>4, <1>5

(* What the calls to Scalr return is a workspace that it gave out.         *)
LEMMA WorkspaceFine ==
  ASSUME TypeInv, StatusInv, Frame, obj' = obj, fresh' = fresh,
         pc' \notin {"record", "adopt"},
         \/ my' = WorkspaceFailed
         \/ my' = WorkspacePending
         \/ my' = [my EXCEPT !.status.phase = "Failed", !.status.wsReady = FALSE,
                             !.status.wsID = 0]
         \/ my' = [my EXCEPT !.status.activeDestroy = FALSE]
         \/ \E id \in 1..wsCount' : Given(id) /\ my' = WorkspaceReady(id)
  PROVE  WorkerHonest
<1>1. /\ my \in Run /\ my.status \in Status /\ my.gen \in Nat /\ wsCount \in Nat
      /\ my.status.observedGen \in Nat /\ obj.status.observedGen \in Nat
      /\ my.status.wsID \in Nat /\ Honest(my, wsCount, created)
  BY Sizes DEF StatusInv
<1> DEFINE Renewed == /\ my'.uid = my.uid /\ my'.gen = my.gen
                      /\ my'.status.observedGen \in {my.status.observedGen, my.gen}
                      /\ my'.status.lastHash = my.status.lastHash
                      /\ my'.status.activeJob = my.status.activeJob
<1>2. ASSUME Renewed,
             \/ my'.status.wsReady = FALSE /\ my'.status.wsID \in {0, my.status.wsID}
             \/ /\ my'.status.wsReady = my.status.wsReady
                /\ my'.status.wsID = my.status.wsID
             \/ my'.status.wsID \in 1..wsCount' /\ Given(my'.status.wsID)
      PROVE  WorkerHonest
  <2>1. Honest(my', wsCount', created')
    BY <1>1, <1>2 DEF Honest, Frame
  <2>2. fresh' => obj'.status.observedGen <= my'.status.observedGen
    BY <1>1, <1>2 DEF StatusInv, Honest
  <2> QED
    BY <2>1, <2>2 DEF WorkerHonest, HonestNow
<1>3. CASE my' = WorkspaceFailed
  BY <1>1, <1>2, <1>3 DEF WorkspaceFailed, Run, Status
<1>4. CASE my' = WorkspacePending
  BY <1>1, <1>2, <1>4 DEF WorkspacePending, Run, Status
<1>5. CASE my' = [my EXCEPT !.status.phase = "Failed", !.status.wsReady = FALSE,
                            !.status.wsID = 0]
  BY <1>1, <1>2, <1>5 DEF Run, Status
<1>6. CASE my' = [my EXCEPT !.status.activeDestroy = FALSE]
  BY <1>1, <1>2, <1>6 DEF Run, Status
<1>7. ASSUME NEW id \in 1..wsCount', Given(id), my' = WorkspaceReady(id)
      PROVE  WorkerHonest
  <2>1. my'.status.wsID = id /\ Renewed
    BY <1>1, <1>7 DEF WorkspaceReady, Run, Status
  <2> QED
    BY <1>2, <1>7, <2>1
<1> QED
  BY <1>3, <1>4, <1>5, <1>6, <1>7

LEMMA WorkspaceHonest ==
  ASSUME BaseInv, TypeInv', StatusInv,
         SkipWorkspace \/ VerifyWorkspace \/ WorkspaceLost \/ ReconcileWorkspace
           \/ SaveWorkspace
  PROVE  Frame /\ StoreHonest /\ WorkerHonest
<1> USE DEF BaseInv
<1>1. CASE SkipWorkspace
  <2>1. Frame /\ obj' = obj
    BY <1>1, PlainFrame DEF SkipWorkspace, jobVars, scalr, outside, store
  <2> QED
    BY <1>1, <2>1, UnwrittenHonest, StaysHonest DEF SkipWorkspace, Goto
<1>2. CASE VerifyWorkspace
  <2>1. Frame /\ obj' = obj /\ fresh' = fresh
    BY <1>2, PlainFrame DEF VerifyWorkspace, jobVars, scalr, outside, store
  <2>2. pc' \notin {"record", "adopt"}
    BY <1>2 DEF VerifyWorkspace, Goto
  <2>3. \/ my' = my \/ my' = WorkspaceFailed
        \/ my' = [my EXCEPT !.status.phase = "Failed", !.status.wsReady = FALSE,
                            !.status.wsID = 0]
    BY <1>2 DEF VerifyWorkspace, WorkspaceFailed
  <2> QED
    BY <2>1, <2>2, <2>3, UnwrittenHonest, StaysHonest, WorkspaceFine
<1>3. CASE WorkspaceLost
  <2>1. Frame
    BY <1>3, PlainFrame DEF WorkspaceLost, jobVars, scalr, outside
  <2> QED
    BY <1>3, <2>1, Copies, FineWrites, SavedHonest, ReturnHonest DEF WorkspaceLost
<1>4. CASE ReconcileWorkspace
  <2>1. UNCHANGED <<created, cache, obj, fresh>> /\ pc' \notin {"record", "adopt"}
    BY <1>4 DEF ReconcileWorkspace, Goto, jobVars, outside, store
  <2>2. /\ wsCount \in Nat /\ Len(Existing) \in Nat /\ Len(Existing) <= wsCount
        /\ ImportID \in 0..Len(Existing)
    BY Sizes, WorkspaceAssumption DEF StatusInv
  <2>3. CASE CreateScalrWorkspace
    <3>1. wsCount' \in {wsCount, wsCount + 1}
      BY <2>3 DEF CreateScalrWorkspace, scalr
    <3>2. Frame
      BY <2>1, <2>2, <3>1 DEF Frame
    <3>3. \/ my' = WorkspaceFailed \/ my' = WorkspacePending
          \/ wsCount' = wsCount + 1 /\ my' = WorkspaceReady(wsCount')
      BY <2>3 DEF CreateScalrWorkspace
    <3>4. wsCount' = wsCount + 1 => wsCount' \in 1..wsCount' /\ Given(wsCount')
      BY <2>2 DEF Given
    <3>5. WorkerHonest
      BY <2>1, <3>2, <3>3, <3>4, WorkspaceFine
    <3> QED
      BY <2>1, <3>2, <3>5, UnwrittenHonest
  <2>4. CASE importScalrWorkspace /\ ImportID # 0
    <3>1. Frame
      BY <2>1, <2>4, PlainFrame DEF importScalrWorkspace, scalr
    <3>2. my' = WorkspaceFailed \/ my' = WorkspaceReady(ImportID)
      BY <2>4 DEF importScalrWorkspace
    <3>3. ImportID \in 1..wsCount' /\ Given(ImportID)
      BY <2>2, <2>4, <3>1 DEF Frame, Given
    <3> QED
      BY <2>1, <3>1, <3>2, <3>3, WorkspaceFine, UnwrittenHonest
  <2>5. CASE my' = WorkspaceFailed /\ UNCHANGED scalr
    <3>1. Frame
      BY <2>1, <2>5, PlainFrame DEF scalr
    <3> QED
      BY <2>1, <2>5, <3>1, WorkspaceFine, UnwrittenHonest
  <2> QED
    BY <1>4, <2>3, <2>4, <2>5 DEF ReconcileWorkspace
<1>5. CASE SaveWorkspace
  <2>1. Frame
    BY <1>5, PlainFrame DEF SaveWorkspace, jobVars, scalr, outside
  <2>2. CASE fresh /\ StatusStored(my.status) /\ Goto("jobs") /\ UNCHANGED <<my, fresh>>
    <3>1. StoreHonest /\ obj'.status = my.status
      BY <2>1, <2>2, Copies, FineWrites, StoredHonest DEF CopyIf
    <3> QED
      BY <2>1, <2>2, <3>1, StaysHonest DEF Goto
  <2>3. CASE UNCHANGED store /\ Return(TRUE, FALSE)
    BY <2>1, <2>3, UnwrittenHonest, ReturnHonest DEF store
  <2> QED
    BY <1>5, <2>1, <2>2, <2>3 DEF SaveWorkspace
<1> QED
  BY <1>1, <1>2, <1>3, <1>4, <1>5

(* A job that exists was created, whoever owns it; one that is stored now  *)
(* is created for this run.                                                *)
LEMMA CreateNewJobHonest ==
  ASSUME BaseInv, TypeInv', StatusInv, pc = "jobs", NEW hash \in Hashes,
         createNewJob(hash), UNCHANGED <<scalr, outside>>
  PROVE  Frame /\ StoreHonest /\ WorkerHonest
<1> USE DEF BaseInv
<1> DEFINE runID == BuildRunID(my.gen, hash)
           name == buildJobName(runID)
<1>1. name \in JobNames
  BY BusyTypes, RunIDTypes
<1> HIDE DEF name, runID
<1>2. UNCHANGED <<wsCount, cache>> /\ wsCount \in Nat
  BY Sizes DEF scalr, outside
<1>3. UNCHANGED jobVars => Frame
  BY <1>2, PlainFrame DEF jobVars
<1>4. CASE SaveThenReturn(fresh, AsFailed(my.status), FALSE) /\ UNCHANGED jobVars
  BY <1>3, <1>4, Copies, FineWrites, SaveReturnHonest
<1>5. CASE /\ Exists(jobs[name]) /\ target' = runID /\ Goto("adopt")
           /\ UNCHANGED <<store, jobVars, my, fresh>>
  <2>1. \E u \in Uids : <<u, name>> \in created
    BY <1>1, <1>5 DEF DestroyInv, TypeInv, TypeOK
  <2>2. Honest(my, wsCount, created)
          /\ (fresh => obj.status.observedGen <= my.status.observedGen)
    BY DEF StatusInv
  <2>3. WorkerHonest
    BY <1>2, <1>5, <2>1, <2>2 DEF WorkerHonest, HonestNow, Goto, name, jobVars, store
  <2> QED
    BY <1>3, <1>5, <2>3, UnwrittenHonest DEF store
<1>6. CASE /\ SaveIgnoringError(fresh, AsFailed(my.status)) /\ Return(TRUE, FALSE)
           /\ UNCHANGED jobVars
  BY <1>3, <1>6, Copies, FineWrites, SavedHonest, ReturnHonest
<1>7. CASE /\ Store(name) /\ target' = runID /\ Goto("record")
           /\ UNCHANGED <<store, my, fresh>>
  <2>1. created' = created \cup {<<my.uid, name>>}
    BY <1>7 DEF Store
  <2>2. Frame /\ obj' = obj
    BY <1>2, <1>7, <2>1 DEF Frame, store
  <2>3. /\ Honest(my, wsCount, created) /\ my.gen \in Nat
        /\ my.status.observedGen \in Nat /\ my.status.wsID \in Nat
        /\ fresh => obj.status.observedGen <= my.status.observedGen
    BY Sizes DEF StatusInv
  <2>4. Honest(my, wsCount', created')
    BY <1>2, <2>1, <2>3, HonestGrows
  <2>5. WorkerHonest
    BY <1>7, <2>1, <2>2, <2>3, <2>4 DEF WorkerHonest, HonestNow, Goto, name
  <2> QED
    BY <2>2, <2>5, UnwrittenHonest
<1>8. CASE UNCHANGED store /\ Return(TRUE, FALSE) /\ UNCHANGED jobVars
  BY <1>3, <1>8, UnwrittenHonest, ReturnHonest DEF store
<1> QED
  BY <1>4, <1>5, <1>6, <1>7, <1>8 DEF createNewJob, name, runID

LEMMA JobsHonest ==
  ASSUME BaseInv, TypeInv', StatusInv,
         \/ DeferSpecChange \/ WaitForJob \/ RecordCompletion
         \/ RunSpecChange \/ RunPending \/ RunInterval \/ NoIntervalRun
         \/ RecordJob \/ AdoptJob
  PROVE  Frame /\ StoreHonest /\ WorkerHonest
<1> USE DEF BaseInv
<1>1. CASE RunSpecChange \/ RunPending \/ RunInterval
  <2>1. pc = "jobs" /\ UNCHANGED <<scalr, outside>>
    BY <1>1 DEF RunSpecChange, RunPending, RunInterval
  <2>2. my.spec.hash \in Hashes /\ my.status.pendingHash \in Hashes \cup {NoHash}
    BY <2>1, BusyTypes DEF Status
  <2>3. \E hash \in Hashes : createNewJob(hash)
    BY <1>1, <2>2 DEF RunSpecChange, RunPending, RunInterval, PendingExists, computeSpecHash
  <2> QED
    BY <2>1, <2>3, CreateNewJobHonest
<1>2. CASE DeferSpecChange \/ WaitForJob \/ RecordCompletion \/ NoIntervalRun
           \/ RecordJob \/ AdoptJob
  <2>1. Frame
    BY <1>2, PlainFrame DEF DeferSpecChange, WaitForJob, RecordCompletion, NoIntervalRun,
                            RecordJob, AdoptJob, jobVars, scalr, outside
  <2>2. CopyIf(my, fresh) /\ CopyIf(cache, cacheFresh) /\ pc # "idle"
    BY <1>2, Copies DEF DeferSpecChange, WaitForJob, RecordCompletion, NoIntervalRun,
                        RecordJob, AdoptJob
  <2>3. my.spec.hash \in Hashes /\ my.status \in Status
    BY <2>2, BusyTypes
  <2>4. CASE DeferSpecChange
    BY <2>1, <2>2, <2>3, <2>4, FineWrites, SaveReturnHonest DEF DeferSpecChange, computeSpecHash
  <2>5. CASE WaitForJob
    BY <2>1, <2>5, UnwrittenHonest, ReturnHonest DEF WaitForJob, store
  <2>6. CASE RecordCompletion
    <3>1. CompletedPhase(ActiveJob, my.status.phase) \in Phases
      BY <2>3 DEF CompletedPhase, Phases, Status
    <3> QED
      BY <2>1, <2>2, <2>6, <3>1, FineWrites, SaveReturnHonest DEF RecordCompletion
  <2>7. CASE NoIntervalRun
    <3>1. \/ SaveThenReturn(fresh, [my.status EXCEPT !.nextRun = 0], FALSE)
          \/ SaveIgnoringError(fresh, AsFailed(my.status)) /\ Return(FALSE, FALSE)
          \/ UNCHANGED store /\ Return(FALSE, my.spec.interval = "valid")
      BY <2>7 DEF NoIntervalRun
    <3> QED
      BY <2>1, <2>2, <3>1, FineWrites, SaveReturnHonest, SavedHonest, UnwrittenHonest,
         ReturnHonest DEF store
  <2>8. CASE RecordJob
    <3>1. now \in 0..MaxTicks /\ MaxTicks \in Nat /\ pc = "record"
      BY <2>8, BoundsAssumption DEF RecordJob, TypeInv, TypeOK
    <3>2. (IF my.spec.interval = "none" THEN 0 ELSE now + 1) \in 0..(MaxTicks + 1)
      BY <3>1
    <3> QED
      BY <2>1, <2>2, <2>8, <3>1, <3>2, FineRecord, SaveReturnHonest DEF RecordJob
  <2>9. CASE AdoptJob
    BY <2>1, <2>2, <2>9, FineAdopt, SaveReturnHonest, UnwrittenHonest, ReturnHonest
       DEF AdoptJob, store
  <2> QED
    BY <1>2, <2>4, <2>5, <2>6, <2>7, <2>8, <2>9
<1> QED
  BY <1>1, <1>2

LEMMA CreateDestroyJobHonest ==
  ASSUME BaseInv, TypeInv', StatusInv, CreateDestroyJob
  PROVE  Frame /\ StoreHonest /\ WorkerHonest
<1> USE DEF BaseInv
<1>1. UNCHANGED <<wsCount, cache>> /\ wsCount \in Nat
  BY Sizes DEF CreateDestroyJob, scalr, outside
<1>2. UNCHANGED jobVars => Frame
  BY <1>1, PlainFrame DEF jobVars
<1>3. CASE /\ SaveIgnoringError(fresh, AsFailed(my.status)) /\ Return(TRUE, FALSE)
           /\ UNCHANGED jobVars
  BY <1>2, <1>3, Copies, FineWrites, SavedHonest, ReturnHonest
<1>4. CASE /\ SaveIgnoringError(fresh, DestroyStatus) /\ Return(FALSE, TRUE)
           /\ UNCHANGED jobVars
  BY <1>2, <1>4, Copies, FineWrites, SavedHonest, ReturnHonest DEF DestroyStatus
<1>5. CASE Return(TRUE, FALSE) /\ UNCHANGED <<store, jobVars>>
  BY <1>2, <1>5, UnwrittenHonest, ReturnHonest DEF store
<1>6. CASE /\ Store(DestroyName) /\ Goto("destroyRecord")
           /\ UNCHANGED <<store, last, my, fresh, target>>
  <2>1. Frame /\ obj' = obj /\ pc' = "destroyRecord"
    BY <1>1, <1>6 DEF Frame, Store, store, Goto
  <2> QED
    BY <1>6, <2>1, UnwrittenHonest, StaysHonest
<1> QED
  BY <1>3, <1>4, <1>5, <1>6 DEF CreateDestroyJob

LEMMA DeletionHonest ==
  ASSUME BaseInv, TypeInv', StatusInv,
         \/ CannotDestroy \/ AdoptDestroyJob \/ RecordDestroyJob \/ FinishDestroy
         \/ AwaitDestroyJob \/ CleanupWorkspace \/ RemoveFinalizer
  PROVE  Frame /\ StoreHonest /\ WorkerHonest
<1> USE DEF BaseInv
<1>1. Frame
  BY PlainFrame DEF CannotDestroy, AdoptDestroyJob, RecordDestroyJob, FinishDestroy,
     AwaitDestroyJob, CleanupWorkspace, RemoveFinalizer, deleteRemoteWorkspace,
     DeleteScalrWorkspace, jobVars, scalr, outside
<1>2. CopyIf(my, fresh) /\ CopyIf(cache, cacheFresh)
  BY Copies
<1>3. CASE CannotDestroy
  BY <1>1, <1>3, UnwrittenHonest, ReturnHonest DEF CannotDestroy, store
<1>4. CASE AdoptDestroyJob
  BY <1>1, <1>2, <1>4, FineWrites, SaveReturnHonest, UnwrittenHonest, ReturnHonest
     DEF AdoptDestroyJob, store
<1>5. CASE RecordDestroyJob
  BY <1>1, <1>2, <1>5, FineWrites, SaveReturnHonest DEF RecordDestroyJob, DestroyStatus
<1>6. CASE FinishDestroy
  <2> DEFINE done == [my.status EXCEPT !.activeDestroy = FALSE]
  <2>1. my' = [my EXCEPT !.status.activeDestroy = FALSE] /\ my \in Run
          /\ SaveIgnoringError(fresh, my'.status)
          /\ pc' \notin {"record", "adopt"} /\ fresh' = fresh
    BY <1>6, Sizes DEF FinishDestroy, Goto
  <2>2. my'.status = done /\ my'.uid = my.uid /\ my'.gen = my.gen
    BY <2>1 DEF Run, Status
  <2>3. Fine(done, my)
    BY FineWrites
  <2>4. Honest([my EXCEPT !.status = done], wsCount, created) /\ done \in Status
    BY <2>3 DEF Fine
  <2>5. [my EXCEPT !.status = done] = my'
    BY <2>1 DEF Run
  <2> HIDE DEF done
  <2>6. StoreHonest /\ (fresh => obj'.status = done)
    BY <1>1, <1>2, <2>1, <2>2, <2>3, SavedHonest
  <2>7. UNCHANGED <<created, wsCount>> /\ done.observedGen \in Nat
    BY <1>6, <2>4, BoundsAssumption
       DEF FinishDestroy, jobVars, scalr, Status, Generations
  <2>8. Honest(my', wsCount', created')
    BY <2>4, <2>5, <2>7
  <2>9. fresh' => obj'.status.observedGen <= my'.status.observedGen
    <3>1. done.observedGen <= done.observedGen
      BY <2>7
    <3>2. fresh' => obj'.status = done /\ my'.status = done
      BY <2>1, <2>2, <2>6
    <3> QED
      BY <3>1, <3>2
  <2>10. WorkerHonest
    BY <2>1, <2>8, <2>9 DEF WorkerHonest, HonestNow
  <2> QED
    BY <1>1, <2>6, <2>10
<1>7. CASE AwaitDestroyJob
  <2>1. \/ /\ SaveIgnoringError(fresh,
                 [my.status EXCEPT !.phase = "Failed", !.activeDestroy = FALSE])
           /\ Return(FALSE, FALSE)
        \/ UNCHANGED store /\ Return(FALSE, TRUE)
    BY <1>7 DEF AwaitDestroyJob
  <2> QED
    BY <1>1, <1>2, <2>1, FineWrites, SavedHonest, UnwrittenHonest, ReturnHonest DEF store
<1>8. CASE CleanupWorkspace
  <2>1. obj' = obj
    BY <1>8 DEF CleanupWorkspace, store
  <2>2. CASE \E requeue, after \in BOOLEAN : Return(requeue, after)
    BY <1>1, <2>1, <2>2, UnwrittenHonest, ReturnHonest
  <2>3. CASE Goto("removeFinalizer") /\ UNCHANGED <<my, fresh>>
    BY <1>1, <2>1, <2>3, UnwrittenHonest, StaysHonest DEF Goto
  <2> QED
    BY <1>8, <2>2, <2>3 DEF CleanupWorkspace, deleteRemoteWorkspace
<1>9. CASE RemoveFinalizer
  <2>1. CASE cache.finalizer /\ cacheFresh
    <3>1. Removes
      BY <1>9, <2>1 DEF RemoveFinalizer, Return, Removes
    <3>2. obj' = NoRun /\ Exists(obj)
      BY <3>1, RemovesDeleted
    <3>3. StoreHonest
      BY <1>1, <3>2, NoRunHonest, NoRunFacts DEF StoreHonest, HonestNow, Observed, Frame, Exists
    <3>4. Return(FALSE, FALSE)
      BY <1>9, <2>1 DEF RemoveFinalizer
    <3> QED
      BY <1>1, <3>3, <3>4, ReturnHonest
  <2>2. CASE UNCHANGED store /\ \E requeue : Return(requeue, FALSE)
    BY <1>1, <2>2, UnwrittenHonest, ReturnHonest DEF store
  <2> QED
    BY <1>9, <2>1, <2>2 DEF RemoveFinalizer
<1> QED
  BY <1>3, <1>4, <1>5, <1>6, <1>7, <1>8, <1>9

LEMMA UsersHonest ==
  ASSUME BaseInv, TypeInv', StatusInv,
         UserDelete \/ \E spec \in Specs : UserCreate(spec) \/ UserEdit(spec)
  PROVE  Frame /\ StoreHonest /\ WorkerHonest
<1> USE DEF BaseInv
<1>1. UNCHANGED <<created, wsCount, cache, pc, my, target>> /\ fresh' = FALSE
  BY DEF UserDelete, UserCreate, UserEdit, Written, jobVars, scalr, outside
<1>2. Frame
  BY <1>1, PlainFrame
<1>3. WorkerHonest
  BY <1>1, <1>2, StaysHonest, Zenon
<1>4. /\ Honest(obj, wsCount, created) /\ obj.gen \in Nat /\ wsCount \in Nat
      /\ obj.status.observedGen \in Nat /\ obj.status.wsID \in Nat /\ obj.uid \in Nat
  BY Sizes DEF StatusInv
<1>5. CASE obj'.uid = obj.uid /\ obj'.gen = obj.gen + 1 /\ obj'.status = obj.status
  <2>1. obj'.gen \in Nat /\ obj.gen <= obj'.gen
    BY <1>4, <1>5
  <2>2. Honest(obj', wsCount', created')
    BY <1>1, <1>4, <1>5, <2>1, HonestGrows
  <2> QED
    BY <1>2, <1>3, <1>4, <1>5, <2>2 DEF StoreHonest, HonestNow, Observed
<1>6. CASE obj'.uid # obj.uid /\ (obj' = NoRun \/ \E spec \in Specs : UserCreate(spec))
  <2>1. CASE obj' = NoRun
    BY <1>1, <1>2, <1>3, <1>4, <1>6, <2>1, NoRunHonest DEF StoreHonest, HonestNow, Observed
  <2>2. ASSUME NEW spec \in Specs, UserCreate(spec)
        PROVE  StoreHonest
    <3>1. obj' = [NoRun EXCEPT !.uid = lives', !.gen = 1, !.spec = spec]
      BY <2>2 DEF UserCreate, Written
    <3>2. obj'.status = EmptyStatus /\ obj'.gen = 1
      BY <3>1 DEF NoRun
    <3>3. Honest(obj', wsCount', created')
      BY <3>2 DEF Honest, EmptyStatus
    <3> QED
      BY <1>6, <3>3 DEF StoreHonest, HonestNow, Observed
  <2> QED
    BY <1>2, <1>3, <1>6, <2>1, <2>2
<1>7. ASSUME NEW spec \in Specs, UserCreate(spec)
      PROVE  obj'.uid # obj.uid
  <2>1. obj.uid = 0 /\ obj'.uid = lives + 1 /\ lives \in Nat
    BY <1>7, UserRuns, Numbers DEF Exists
  <2> QED
    BY <2>1
<1> QED
  BY <1>5, <1>6, <1>7, UserRuns, NoRunFacts DEF Exists

LEMMA ManagerHonest ==
  ASSUME BaseInv, TypeInv', StatusInv, Manager
  PROVE  Frame /\ StoreHonest /\ WorkerHonest
<1> USE DEF BaseInv
<1>1. /\ UNCHANGED <<created, wsCount, obj>>
      /\ cache' \in {cache, obj}
      /\ UNCHANGED reconcileVars \/ Restart
  BY DEF Manager, SyncRun, TimerFires, Resync, Restart, SyncJob, jobVars, scalr, outside,
         store
<1>2. Frame
  BY <1>1, Sizes DEF Frame
<1>3. CASE UNCHANGED reconcileVars
  BY <1>1, <1>2, <1>3, UnwrittenHonest, StaysHonest DEF reconcileVars
<1>4. CASE Restart
  <2>1. my' = NoRun /\ fresh' = FALSE /\ pc' = "idle"
    BY <1>4 DEF Restart
  <2>2. WorkerHonest
    BY <1>2, <2>1, NoRunHonest DEF WorkerHonest, HonestNow, Frame
  <2> QED
    BY <1>1, <1>2, <2>2, UnwrittenHonest
<1> QED
  BY <1>1, <1>3, <1>4

LEMMA OthersHonest ==
  ASSUME BaseInv, TypeInv', StatusInv, Cluster \/ Surroundings \/ UNCHANGED vars
  PROVE  Frame /\ StoreHonest /\ WorkerHonest
<1> USE DEF BaseInv
<1>1. UNCHANGED <<created, wsCount, cache, obj, reconcileVars>>
  BY DEF Cluster, StartPod, PodSucceeds, PodFails, ExpireJob, CollectJob, JobStep,
         Surroundings, WorkspaceVanishes, SecretVanishes, SecretReturns, Tick, vars,
         jobVars, scalr, outside, store, reconcileVars
<1> QED
  BY <1>1, PlainFrame, UnwrittenHonest, StaysHonest DEF reconcileVars

LEMMA StepHonest ==
  ASSUME BaseInv, TypeInv', StatusInv, [Next]_vars
  PROVE  Frame /\ StoreHonest /\ WorkerHonest
BY BeginHonest, WorkspaceHonest, JobsHonest, CreateDestroyJobHonest, DeletionHonest,
   UsersHonest, ManagerHonest, OthersHonest DEF Next, Reconcile, Users
-----------------------------------------------------------------------------
(* The inductive invariant.                                                *)
LEMMA InitStatus == Init => StatusInv
<1> SUFFICES ASSUME Init PROVE StatusInv
  OBVIOUS
<1>1. /\ obj = NoRun /\ cache = NoRun /\ my = NoRun /\ wsCount = Len(Existing)
      /\ pc = "idle" /\ fresh = FALSE
  BY DEF Init
<1>2. wsCount \in Nat
  BY InitTypes, Sizes
<1> QED
  BY <1>1, <1>2, NoRunHonest DEF StatusInv

LEMMA NextStatus == RunInv /\ [Next]_vars => RunInv' /\ Observed
<1> SUFFICES ASSUME RunInv, [Next]_vars PROVE RunInv' /\ Observed
  OBVIOUS
<1>1. BaseInv /\ StatusInv
  BY DEF RunInv
<1>2. BaseInv'
  BY <1>1, NextInv
<1>3. Frame /\ StoreHonest /\ WorkerHonest
  BY <1>1, <1>2, StepHonest DEF BaseInv
<1>4. StatusInv'
  BY <1>1, <1>3, Assembled DEF BaseInv
<1> QED
  BY <1>2, <1>3, <1>4 DEF RunInv, StoreHonest

(* The copies of the run, the worker's position and the history of the     *)
(* jobs agree as BaseInv says, and the status of every copy is true of the *)
(* run's jobs and workspace, at every step.                                *)
THEOREM RunInvariance == Spec => []RunInv
<1>1. Init => RunInv
  BY InitInv, InitStatus DEF RunInv
<1>2. RunInv /\ [Next]_vars => RunInv'
  BY NextStatus
<1> QED
  BY <1>1, <1>2, PTL DEF Spec

(* No handler stores an older observedGeneration than there is, from       *)
(* whichever stale copy it works.                                          *)
THEOREM ObservedForward == Spec => ObservedGenerationMonotone
<1>1. RunInv /\ [Next]_vars =>
        [obj'.uid = obj.uid =>
           obj'.status.observedGen >= obj.status.observedGen]_vars
  BY NextStatus DEF Observed
<1> QED
  BY <1>1, RunInvariance, PTL DEF Spec, ObservedGenerationMonotone

(* A workspace that the status calls ready was created or imported.        *)
THEOREM ReadyNamed == Spec => []ReadyNamesWorkspace
<1>1. RunInv => ReadyNamesWorkspace
  BY Sizes DEF RunInv, BaseInv, StatusInv, Honest, ReadyNamesWorkspace
<1> QED
  BY <1>1, RunInvariance, PTL

(* What RecordJob, AdoptJob and the destroy job's updates write is the    *)
(* name of a job that was created.                                         *)
THEOREM StatusTrue == Spec => []StatusNamesCreatedJobs
<1>1. RunInv => StatusNamesCreatedJobs
  BY DEF RunInv, BaseInv, StatusInv, Honest, DestroyInv, StatusNamesCreatedJobs
<1> QED
  BY <1>1, RunInvariance, PTL

(* deleteRemoteWorkspace is given no id but of a workspace the controller  *)
(* created or was told to import.                                          *)
THEOREM DeletesOwn == Spec => DeletesOwnWorkspaces
<1>1. ASSUME RunInv, Next, pc = "cleanup", pc' # pc, NEW w \in remote \ remote'
      PROVE  Given(w.id)
  <2>1. CASE CleanupWorkspace
    <3>1. /\ remote' = {v \in remote : v.id # my.status.wsID}
          /\ my.status.wsID # 0
      BY <1>1, <2>1 DEF CleanupWorkspace, deleteRemoteWorkspace, DeleteScalrWorkspace, scalr
    <3> QED
      BY <1>1, <3>1 DEF RunInv, StatusInv, Honest
  <2>2. CASE Manager
    BY <1>1, <2>2 DEF Manager, SyncRun, TimerFires, Resync, Restart, SyncJob, scalr
  <2>3. ~Users /\ ~Cluster /\ ~Surroundings
    BY <1>1 DEF Users, UserDelete, UserCreate, UserEdit, Cluster, StartPod, PodSucceeds,
       PodFails, ExpireJob, CollectJob, JobStep, Surroundings, WorkspaceVanishes,
       SecretVanishes, SecretReturns, Tick, reconcileVars
  <2>4. Reconcile => CleanupWorkspace
    BY <1>1 DEF Reconcile, Begin, EnsureFinalizer, SkipWorkspace, VerifyWorkspace,
       WorkspaceLost, ReconcileWorkspace, SaveWorkspace, DeferSpecChange, WaitForJob,
       RecordCompletion, RunSpecChange, RunPending, RunInterval, NoIntervalRun, RecordJob,
       AdoptJob, CannotDestroy, AdoptDestroyJob, CreateDestroyJob, RecordDestroyJob,
       FinishDestroy, AwaitDestroyJob, RemoveFinalizer
  <2> QED
    BY <1>1, <2>1, <2>2, <2>3, <2>4 DEF Next
<1>2. RunInv /\ [Next]_vars =>
        [pc = "cleanup" /\ pc' # pc => \A w \in remote \ remote' : Given(w.id)]_vars
  BY <1>1
<1> QED
  BY <1>2, RunInvariance, PTL DEF Spec, DeletesOwnWorkspaces
=============================================================================
