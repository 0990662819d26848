--------------------------- MODULE TfRunSafetyProofs ---------------------------
(***************************************************************************)
(* BaseInv is inductive, and what follows from it.  Every step is calm (it *)
(* touches neither the identity of a copy nor the history of the jobs) or  *)
(* one of ten that are not; StepKinds says so, and the invariant, the      *)
(* action properties and the refinement are then each a proof by kinds.    *)
(***************************************************************************)
EXTENDS TfRunTypeProofs

-----------------------------------------------------------------------------
(* The kinds of step.                                                      *)

SameRun(c, d) ==
  /\ c.uid = d.uid /\ c.gen = d.gen
  /\ c.deleting = d.deleting /\ c.finalizer = d.finalizer

Marks(st) == st.activeDestroy => DestroyStarted

StoreCalm ==
  /\ UNCHANGED <<cache, lives, created, last>>
  /\ \/ obj' = obj
     \/ Exists(obj) /\ SameRun(obj', obj) /\ Marks(obj'.status)
  /\ cacheFresh' => cacheFresh /\ obj' = obj

WorkerCalm ==
  \/ UNCHANGED <<pc, my, fresh>>
  \/ pc' = "idle" /\ my' = NoRun /\ fresh' = FALSE
  \/ /\ fresh' = fresh /\ SameRun(my', my) /\ Marks(my'.status)
     /\ \/ pc \in ApplySteps /\ pc' \in ApplySteps
        \/ pc \in DeletionSteps /\ pc' \in DeletionSteps /\ DestroyStarted

JobsCalm ==
  \A name \in JobNames :
    /\ Exists(jobs'[name]) => jobs'[name].uid = jobs[name].uid
    /\ Exists(jobCache'[name]) =>
         jobCache'[name].uid \in {jobs[name].uid, jobCache[name].uid}

Calm == StoreCalm /\ WorkerCalm /\ JobsCalm

StartsApply ==
  /\ pc = "jobs" /\ pc' = "record"
  /\ \E h \in Hashes : Store(buildJobName(BuildRunID(my.gen, h)))
  /\ last' = [uid |-> my.uid, gen |-> my.gen, content |-> my.spec.hash]
  /\ UNCHANGED <<store, outside, my, fresh>>

StartsDestroy ==
  /\ pc = "deletion" /\ pc' = "destroyRecord"
  /\ Store(DestroyName)
  /\ UNCHANGED <<store, outside, my, fresh, last>>

Adds ==
  /\ pc = "addFinalizer" /\ fresh
  /\ obj' = WithFinalizer(obj) /\ my' = obj'
  /\ cacheFresh' = FALSE /\ pc' = AfterFinalizer(my)
  /\ UNCHANGED <<fresh, jobVars, outside>>

Removes ==
  /\ pc = "removeFinalizer" /\ cache.finalizer /\ cacheFresh
  /\ obj' = IF obj.deleting THEN NoRun ELSE [obj EXCEPT !.finalizer = FALSE]
  /\ cacheFresh' = FALSE
  /\ pc' = "idle" /\ my' = NoRun /\ fresh' = FALSE
  /\ UNCHANGED <<jobVars, outside>>

Starts == Begin /\ Exists(cache)

Kind ==
  \/ Calm \/ Starts \/ Adds \/ Removes \/ StartsApply \/ StartsDestroy
  \/ SyncRun \/ Restart
  \/ UserDelete \/ \E spec \in Specs : UserCreate(spec) \/ UserEdit(spec)

-----------------------------------------------------------------------------
(* What the types say of the parts the invariant speaks of.                *)
LEMMA NoRunFacts ==
  /\ NoRun \in Run /\ NoRun.uid = 0 /\ NoRun.gen = 0
  /\ NoRun.deleting = FALSE /\ NoRun.finalizer = FALSE
  /\ NoRun.status.activeDestroy = FALSE /\ ~Exists(NoRun)
BY RunTypes DEF NoRun, EmptyStatus, Exists

LEMMA Numbers ==
  ASSUME TypeInv
  PROVE  /\ lives \in Nat /\ last.uid \in Nat /\ last.gen \in Nat
         /\ \A run \in {obj, cache, my} :
              /\ run \in Run /\ run.status \in Status
              /\ run.uid \in Nat /\ run.gen \in Nat
              /\ run.deleting \in BOOLEAN /\ run.finalizer \in BOOLEAN
<1>1. \A n \in Uids \cup Generations : n \in Nat
  BY BoundsAssumption DEF Uids, Generations
<1>3. \A run \in Run : /\ run.uid \in Uids /\ run.gen \in Generations
                       /\ run.deleting \in BOOLEAN /\ run.finalizer \in BOOLEAN
                       /\ run.status \in Status
  BY DEF Run
<1>4. \A run \in {obj, cache, my} : run \in Run
  BY DEF TypeInv, TypeOK
<1>5. lives \in Uids /\ last.uid \in Uids /\ last.gen \in Generations
  BY DEF TypeInv, TypeOK
<1> QED
  BY <1>1, <1>3, <1>4, <1>5

LEMMA Created ==
  ASSUME TypeInv, NEW u, <<u, DestroyName>> \in created
  PROVE  DestroyStarted
BY DEF TypeInv, TypeOK, DestroyStarted
-----------------------------------------------------------------------------
(* A calm step keeps the invariant.                                        *)
LEMMA CalmCopies ==
  ASSUME TypeInv, CoreInv, Calm
  PROVE  /\ \A run \in {obj', cache', my'} :
              \/ run = NoRun
              \/ \E old \in {obj, cache, my} : Exists(old) /\ SameRun(run, old)
         /\ SameRun(obj', obj) /\ SameRun(cache', cache)
         /\ my' = NoRun \/ SameRun(my', my)
<1>1. obj' = NoRun \/ (Exists(obj) /\ SameRun(obj', obj))
  BY DEF Calm, StoreCalm, SameRun, CoreInv, AbsentInv
<1>2. cache' = NoRun \/ (Exists(cache) /\ SameRun(cache', cache))
  BY DEF Calm, StoreCalm, SameRun, CoreInv, AbsentInv
<1>3. my' = NoRun \/ (Exists(my) /\ SameRun(my', my))
  BY DEF Calm, WorkerCalm, SameRun, CoreInv, AbsentInv, TypeInv, ApplySteps, DeletionSteps
<1>4. SameRun(obj', obj) /\ SameRun(cache', cache) /\ (my' = NoRun \/ SameRun(my', my))
  BY DEF Calm, StoreCalm, WorkerCalm, SameRun
<1> QED
  BY <1>1, <1>2, <1>3, <1>4

LEMMA CalmCore ==
  ASSUME TypeInv, CoreInv, Calm
  PROVE  CoreInv'
<1> USE Numbers, NoRunFacts
<1>1. UNCHANGED <<cache, lives, created, last>> /\ SameRun(obj', obj)
        /\ (obj' = obj \/ Exists(obj)) /\ (cacheFresh' => cacheFresh /\ obj' = obj)
  BY DEF Calm, StoreCalm, SameRun
<1>2. WorkerCalm
  BY DEF Calm
<1>3. pc # "idle" => Exists(my)
  BY DEF TypeInv
<1>4. UidInv'
  BY <1>1, <1>2 DEF CoreInv, UidInv, WorkerCalm, SameRun
<1>5. AbsentInv'
  <2>1. \A run \in {obj', cache'} : /\ ~Exists(run) => run = NoRun
                                    /\ Exists(run) => run.gen >= 1
    BY <1>1 DEF CoreInv, AbsentInv, SameRun, Exists
  <2>2. /\ ~Exists(my') => my' = NoRun
        /\ Exists(my') => my'.gen >= 1
        /\ pc' = "idle" => my' = NoRun /\ ~fresh'
    BY <1>2, <1>3 DEF CoreInv, AbsentInv, SameRun, Exists, WorkerCalm, ApplySteps, DeletionSteps
  <2> QED
    BY <2>1, <2>2 DEF AbsentInv, Exists
<1>6. CopyInv'
  <2>1. cacheFresh' => cache' = obj'
    BY <1>1 DEF CoreInv, CopyInv
  <2>2. fresh' => /\ my'.uid = obj'.uid /\ my'.gen = obj'.gen
                  /\ my'.deleting = obj'.deleting /\ my'.finalizer = obj'.finalizer
    BY <1>1, <1>2 DEF CoreInv, CopyInv, SameRun, WorkerCalm
  <2>3. Behind(cache', obj')
    BY <1>1 DEF CoreInv, CopyInv, SameRun, Behind, Exists
  <2>4. (cache'.finalizer \/ my'.deleting => Behind(my', cache')) /\ Behind(my', obj')
    BY <1>1, <1>2 DEF CoreInv, CopyInv, SameRun, Behind, Exists, WorkerCalm
  <2>5. Exists(cache') /\ cache'.uid = obj'.uid /\ cache'.finalizer => obj'.finalizer
    BY <1>1 DEF CoreInv, CopyInv, SameRun, Exists
  <2> QED
    BY <2>1, <2>2, <2>3, <2>4, <2>5 DEF CopyInv, Behind, Exists
<1>7. FinalizerInv'
  BY <1>1, <1>2 DEF CoreInv, FinalizerInv, SameRun, Exists, WorkerCalm,
                    ApplySteps, DeletionSteps
<1>8. HistoryInv'
  <2>1. ASSUME NEW run \in {obj', cache', my'}
        PROVE  /\ <<run.uid, DestroyName>> \in created' => run.deleting
               /\ run.finalizer /\ last'.uid = run.uid => last'.gen <= run.gen
    <3>1. CASE run = NoRun
      BY <1>1, <3>1 DEF CoreInv, UidInv
    <3>2. CASE \E old \in {obj, cache, my} : Exists(old) /\ SameRun(run, old)
      BY <1>1, <3>2 DEF CoreInv, HistoryInv, SameRun, Exists
    <3> QED
      BY <2>1, <3>1, <3>2, CalmCopies
  <2>2. Exists(obj') /\ last'.uid = obj'.uid => obj'.finalizer
    BY <1>1 DEF CoreInv, HistoryInv, SameRun, Exists
  <2> QED
    BY <2>1, <2>2 DEF HistoryInv, Exists
<1> QED
  BY <1>4, <1>5, <1>6, <1>7, <1>8 DEF CoreInv

LEMMA CalmDestroy ==
  ASSUME TypeInv, DestroyInv, Calm
  PROVE  DestroyInv'
<1>1. created' = created /\ (DestroyStarted <=> DestroyStarted')
  BY DEF Calm, StoreCalm, DestroyStarted
<1>2. ASSUME NEW name \in JobNames
      PROVE  /\ Exists(jobs'[name]) => <<jobs'[name].uid, name>> \in created'
             /\ Exists(jobCache'[name]) => <<jobCache'[name].uid, name>> \in created'
  BY <1>1 DEF Calm, JobsCalm, DestroyInv, Exists
<1>3. /\ obj'.status.activeDestroy => DestroyStarted
      /\ cache'.status.activeDestroy => DestroyStarted
  BY DEF Calm, StoreCalm, DestroyInv, Marks
<1>4. /\ my'.status.activeDestroy => DestroyStarted
      /\ pc' \in DeletionSteps \ {"deletion"} => DestroyStarted
  BY NoRunFacts DEF Calm, WorkerCalm, DestroyInv, Marks, ApplySteps, DeletionSteps
<1> QED
  BY <1>1, <1>2, <1>3, <1>4 DEF DestroyInv, Exists
-----------------------------------------------------------------------------
(* The other kinds, one by one.                                            *)

(* A reconcile begins with the informer's copy.                            *)
LEMMA StartsCore ==
  ASSUME TypeInv, CoreInv, Starts
  PROVE  CoreInv'
<1> USE Numbers, NoRunFacts
<1>1. /\ my' = cache /\ fresh' = cacheFresh /\ Exists(cache)
      /\ pc' = IF cache.finalizer THEN AfterFinalizer(cache) ELSE "addFinalizer"
      /\ UNCHANGED <<obj, cache, cacheFresh, lives, created, last>>
  BY DEF Starts, Begin, store, jobVars, outside
<1>2. /\ pc' \in ApplySteps => cache.finalizer /\ ~cache.deleting
      /\ pc' \in DeletionSteps => cache.finalizer /\ cache.deleting
      /\ pc' = "addFinalizer" => ~cache.finalizer
      /\ pc' # "idle"
  BY <1>1 DEF AfterFinalizer, ApplySteps, DeletionSteps
<1>3. UidInv'
  BY <1>1 DEF CoreInv, UidInv
<1>4. AbsentInv'
  BY <1>1, <1>2 DEF CoreInv, AbsentInv, Exists
<1>5. CopyInv'
  BY <1>1 DEF CoreInv, CopyInv, Behind, Exists
<1>6. FinalizerInv'
  BY <1>1, <1>2 DEF CoreInv, CopyInv, FinalizerInv, Exists
<1>7. HistoryInv'
  BY <1>1 DEF CoreInv, HistoryInv, Exists
<1> QED
  BY <1>3, <1>4, <1>5, <1>6, <1>7 DEF CoreInv

(* The finalizer is added to the copy at hand, which is the stored one and *)
(* has none: nothing was applied for it, and no informer has seen one.     *)
LEMMA AddsFacts ==
  ASSUME TypeInv, CoreInv, Adds
  PROVE  /\ Exists(obj) /\ ~obj.finalizer /\ ~obj.deleting /\ last.uid # obj.uid
         /\ ~(cache.finalizer /\ cache.uid = obj.uid)
         /\ my.uid = obj.uid /\ my.deleting = obj.deleting
         /\ obj'.uid = obj.uid /\ obj'.deleting = obj.deleting
         /\ obj'.finalizer = TRUE /\ obj'.status = obj.status
         /\ obj'.gen \in {obj.gen, obj.gen + 1} /\ my' = obj'
<1> USE Numbers
<1>1. Exists(my) /\ pc = "addFinalizer" /\ fresh
  BY DEF Adds, TypeInv
<1>2. /\ my.uid = obj.uid /\ my.deleting = obj.deleting /\ my.finalizer = obj.finalizer
      /\ ~my.finalizer
  BY <1>1 DEF CoreInv, CopyInv, FinalizerInv
<1>3. Exists(obj)
  BY <1>1, <1>2 DEF Exists
<1>4. RunOK(obj) /\ GenBounded(obj)
  BY TypeParts DEF StoreOK
<1>5. /\ obj'.uid = obj.uid /\ obj'.deleting = obj.deleting
      /\ obj'.finalizer = TRUE /\ obj'.status = obj.status
      /\ obj'.gen \in {obj.gen, obj.gen + 1} /\ my' = obj'
  BY <1>3, <1>4, FinalizerTypes DEF Adds
<1>6. /\ last.uid # obj.uid /\ ~(cache.finalizer /\ cache.uid = obj.uid)
      /\ ~obj.deleting
  BY <1>2, <1>3 DEF CoreInv, HistoryInv, CopyInv, FinalizerInv, Exists
<1> QED
  BY <1>2, <1>3, <1>5, <1>6

LEMMA AddsCore ==
  ASSUME TypeInv, CoreInv, Adds
  PROVE  CoreInv'
<1> USE Numbers, NoRunFacts
<1>1. /\ obj'.uid = obj.uid /\ obj'.gen \in {obj.gen, obj.gen + 1}
      /\ obj'.deleting = obj.deleting /\ obj'.finalizer = TRUE /\ my' = obj'
      /\ last.uid # obj.uid /\ ~(cache.finalizer /\ cache.uid = obj.uid)
      /\ ~obj.deleting
  BY AddsFacts
<1>2. /\ cacheFresh' = FALSE /\ pc = "addFinalizer" /\ fresh /\ pc' = AfterFinalizer(my)
      /\ UNCHANGED <<fresh, cache, lives, created, last>>
  BY DEF Adds, jobVars, outside
<1>3. /\ pc' \in ApplySteps => ~my.deleting
      /\ pc' \in DeletionSteps => my.deleting
      /\ pc' \notin {"idle", "addFinalizer"}
  BY <1>2 DEF AfterFinalizer, ApplySteps, DeletionSteps
<1>4. Exists(my) /\ my.uid = obj.uid /\ my.deleting = obj.deleting /\ Exists(obj)
  BY <1>2, AddsFacts DEF TypeInv
<1>5. UidInv'
  BY <1>1, <1>2 DEF CoreInv, UidInv
<1>6. AbsentInv'
  BY <1>1, <1>2, <1>3, <1>4 DEF CoreInv, AbsentInv, Exists
<1>7. CopyInv'
  BY <1>1, <1>2, <1>4 DEF CoreInv, CopyInv, Behind, Exists
<1>8. FinalizerInv'
  BY <1>1, <1>2, <1>3, <1>4 DEF CoreInv, FinalizerInv, Exists
<1>9. HistoryInv'
  BY <1>1, <1>2, <1>4 DEF CoreInv, HistoryInv, Exists
<1> QED
  BY <1>5, <1>6, <1>7, <1>8, <1>9 DEF CoreInv

(* The finalizer is removed from the informer's copy, which is the stored  *)
(* one: it is the worker's own object, being deleted.                      *)
LEMMA RemovesDeleted ==
  ASSUME TypeInv, CoreInv, Removes
  PROVE  /\ obj.deleting /\ obj.finalizer /\ Exists(obj) /\ cache = obj
         /\ my.uid = obj.uid /\ obj' = NoRun
<1> USE Numbers, NoRunFacts
<1>1. cache = obj /\ obj.finalizer
  BY DEF Removes, CoreInv, CopyInv
<1>2. pc = "removeFinalizer" /\ pc \in DeletionSteps
  BY DEF Removes, DeletionSteps
<1>3. my.uid = obj.uid /\ my.deleting /\ Exists(my)
  BY <1>1, <1>2 DEF CoreInv, FinalizerInv, TypeInv
<1>4. obj.deleting
  BY <1>3 DEF CoreInv, CopyInv, Behind
<1> QED
  BY <1>1, <1>3, <1>4 DEF Removes, Exists

LEMMA RemovesCore ==
  ASSUME TypeInv, CoreInv, Removes
  PROVE  CoreInv'
<1> USE Numbers, NoRunFacts
<1>1. /\ obj' = NoRun /\ my' = NoRun /\ cache' = cache /\ cache.deleting
      /\ pc' = "idle" /\ fresh' = FALSE /\ cacheFresh' = FALSE
      /\ UNCHANGED <<lives, created, last>>
  BY RemovesDeleted DEF Removes, jobVars, outside
<1>2. UidInv'
  BY <1>1 DEF CoreInv, UidInv
<1>3. AbsentInv'
  BY <1>1 DEF CoreInv, AbsentInv, Exists
<1>4. CopyInv'
  BY <1>1 DEF CopyInv, Behind, Exists
<1>5. FinalizerInv'
  BY <1>1 DEF CoreInv, FinalizerInv, Exists, ApplySteps, DeletionSteps
<1>6. HistoryInv'
  BY <1>1 DEF CoreInv, UidInv, HistoryInv, Exists
<1> QED
  BY <1>2, <1>3, <1>4, <1>5, <1>6 DEF CoreInv

(* An apply job is started by a worker whose object lives with it.         *)
LEMMA ApplyFacts ==
  ASSUME TypeInv, CoreInv, pc \in ApplySteps
  PROVE  /\ Exists(my) /\ my.uid = obj.uid /\ obj.finalizer /\ ~my.deleting
         /\ my.uid \in 1..lives /\ my.gen \in 1..obj.gen
         /\ <<my.uid, DestroyName>> \notin created
         /\ last.uid = my.uid => last.gen <= my.gen
<1> USE Numbers
<1>1. Exists(my) /\ my.uid = obj.uid /\ obj.finalizer /\ ~my.deleting /\ my.finalizer
  BY DEF CoreInv, FinalizerInv, TypeInv, ApplySteps
<1>2. my.uid \in 1..lives /\ my.gen \in 1..obj.gen
  BY <1>1 DEF CoreInv, UidInv, AbsentInv, CopyInv, Behind, Exists
<1> QED
  BY <1>1, <1>2 DEF CoreInv, HistoryInv

LEMMA StartsApplyCore ==
  ASSUME TypeInv, CoreInv, StartsApply
  PROVE  CoreInv'
<1> USE Numbers
<1>1. PICK h \in Hashes : Store(buildJobName(BuildRunID(my.gen, h)))
  BY DEF StartsApply
<1> DEFINE name == buildJobName(BuildRunID(my.gen, h))
<1>2. pc = "jobs" /\ pc' = "record"
        /\ last' = [uid |-> my.uid, gen |-> my.gen, content |-> my.spec.hash]
        /\ UNCHANGED <<obj, cache, cacheFresh, my, fresh, lives>>
  BY DEF StartsApply, store, outside
<1>3. pc \in ApplySteps /\ pc' \in ApplySteps /\ pc' \notin DeletionSteps /\ pc' # "idle"
  BY <1>2 DEF ApplySteps, DeletionSteps
<1>4. name # DestroyName
  BY <1>2, BusyTypes, RunIDTypes
<1> HIDE DEF name
<1>5. /\ created' = created \cup {<<my.uid, name>>}
      /\ last'.uid = my.uid /\ last'.gen = my.gen
  BY <1>1, <1>2 DEF Store, name
<1>6. /\ Exists(my) /\ my.uid = obj.uid /\ obj.finalizer /\ ~my.deleting
      /\ my.uid \in 1..lives
  BY <1>3, ApplyFacts
<1>7. UidInv'
  BY <1>2, <1>5, <1>6 DEF CoreInv, UidInv
<1>8. AbsentInv'
  BY <1>2, <1>3 DEF CoreInv, AbsentInv, Exists
<1>9. CopyInv'
  BY <1>2 DEF CoreInv, CopyInv, Behind, Exists
<1>10. FinalizerInv'
  BY <1>2, <1>3 DEF CoreInv, FinalizerInv, Exists
<1>11. HistoryInv'
  <2>1. ASSUME NEW run \in {obj, cache, my}
        PROVE  <<run.uid, DestroyName>> \in created' => run.deleting
    BY <1>4, <1>5 DEF CoreInv, HistoryInv
  <2>2. ASSUME NEW run \in {obj, cache, my}
        PROVE  run.finalizer /\ last'.uid = run.uid => last'.gen <= run.gen
    BY <1>5, <1>6 DEF CoreInv, CopyInv, Behind
  <2> QED
    BY <1>2, <1>6, <2>1, <2>2 DEF HistoryInv, Exists
<1> QED
  BY <1>7, <1>8, <1>9, <1>10, <1>11 DEF CoreInv

(* A destroy job is started for an incarnation that every copy of it knows *)
(* to be deleted.                                                          *)
LEMMA StartsDestroyCore ==
  ASSUME TypeInv, CoreInv, StartsDestroy
  PROVE  CoreInv'
<1> USE Numbers
<1>1. pc = "deletion" /\ pc' = "destroyRecord"
        /\ UNCHANGED <<obj, cache, cacheFresh, my, fresh, lives, last>>
        /\ created' = created \cup {<<my.uid, DestroyName>>}
  BY DEF StartsDestroy, Store, store, outside
<1>2. /\ pc \in DeletionSteps /\ pc' \in DeletionSteps
      /\ pc' \notin ApplySteps /\ pc' # "idle"
  BY <1>1 DEF ApplySteps, DeletionSteps
<1>3. Exists(my) /\ my.deleting /\ my.uid \in 1..lives
  BY <1>1, <1>2 DEF CoreInv, FinalizerInv, TypeInv, UidInv, Exists
<1>4. UidInv'
  BY <1>1, <1>3 DEF CoreInv, UidInv
<1>5. AbsentInv'
  BY <1>1, <1>2 DEF CoreInv, AbsentInv, Exists
<1>6. CopyInv'
  BY <1>1 DEF CoreInv, CopyInv, Behind, Exists
<1>7. FinalizerInv'
  BY <1>1, <1>2 DEF CoreInv, FinalizerInv, Exists
<1>8. HistoryInv'
  <2>1. ASSUME NEW run \in {obj, cache, my}
        PROVE  <<run.uid, DestroyName>> \in created' => run.deleting
    BY <1>1, <1>3 DEF CoreInv, CopyInv, Behind, HistoryInv
  <2> QED
    BY <1>1, <2>1 DEF CoreInv, HistoryInv, Exists
<1> QED
  BY <1>4, <1>5, <1>6, <1>7, <1>8 DEF CoreInv
-----------------------------------------------------------------------------
(* The informer and the restart bring copies up to the stored object.      *)
LEMMA SyncCore ==
  ASSUME TypeInv, CoreInv, SyncRun
  PROVE  CoreInv'
<1> USE Numbers, NoRunFacts
<1>1. /\ cache' = obj /\ cacheFresh' = TRUE
      /\ UNCHANGED <<obj, pc, my, fresh, lives, created, last>>
  BY DEF SyncRun, jobVars, reconcileVars
<1>2. UidInv' /\ AbsentInv'
  BY <1>1 DEF CoreInv, UidInv, AbsentInv, Exists
<1>3. CopyInv'
  BY <1>1 DEF CoreInv, CopyInv, Behind, Exists
<1>4. FinalizerInv' /\ HistoryInv'
  BY <1>1 DEF CoreInv, FinalizerInv, HistoryInv, Exists
<1> QED
  BY <1>2, <1>3, <1>4 DEF CoreInv

LEMMA RestartCore ==
  ASSUME TypeInv, CoreInv, Restart
  PROVE  CoreInv'
<1> USE Numbers, NoRunFacts
<1>1. /\ cache' = obj /\ cacheFresh' = TRUE
      /\ pc' = "idle" /\ my' = NoRun /\ fresh' = FALSE
      /\ UNCHANGED <<obj, lives, created, last>>
  BY DEF Restart
<1>2. UidInv' /\ AbsentInv'
  BY <1>1 DEF CoreInv, UidInv, AbsentInv, Exists
<1>3. CopyInv'
  BY <1>1 DEF CoreInv, CopyInv, Behind, Exists
<1>4. FinalizerInv'
  BY <1>1 DEF CoreInv, FinalizerInv, Exists, ApplySteps, DeletionSteps
<1>5. HistoryInv'
  BY <1>1 DEF CoreInv, UidInv, HistoryInv, Exists
<1> QED
  BY <1>2, <1>3, <1>4, <1>5 DEF CoreInv

(* What the users write.                                                   *)
LEMMA UserRuns ==
  ASSUME TypeInv
  PROVE  /\ \A spec \in Specs : UserCreate(spec) =>
              /\ ~Exists(obj) /\ lives' = lives + 1
              /\ obj'.uid = lives + 1 /\ obj'.gen = 1 /\ obj'.deleting = FALSE
              /\ obj'.finalizer = FALSE /\ obj'.status.activeDestroy = FALSE
         /\ \A spec \in Specs : UserEdit(spec) =>
              /\ Exists(obj) /\ lives' = lives
              /\ obj'.uid = obj.uid /\ obj'.gen = obj.gen + 1
              /\ obj'.deleting = obj.deleting /\ obj'.finalizer = obj.finalizer
              /\ obj'.status = obj.status
         /\ UserDelete =>
              /\ Exists(obj) /\ ~obj.deleting /\ lives' = lives
              /\ ~obj.finalizer => obj' = NoRun
              /\ obj.finalizer =>
                   /\ obj'.uid = obj.uid /\ obj'.gen = obj.gen + 1
                   /\ obj'.deleting = TRUE /\ obj'.finalizer = TRUE
                   /\ obj'.status = obj.status
<1>1. obj \in Run /\ NoRun \in Run
  BY Numbers, NoRunFacts
<1>2. ASSUME NEW spec \in Specs, UserCreate(spec)
      PROVE  /\ ~Exists(obj) /\ lives' = lives + 1
             /\ obj'.uid = lives + 1 /\ obj'.gen = 1 /\ obj'.deleting = FALSE
             /\ obj'.finalizer = FALSE /\ obj'.status.activeDestroy = FALSE
  BY <1>1, <1>2, NoRunFacts DEF UserCreate, Written, Run
<1>3. ASSUME NEW spec \in Specs, UserEdit(spec)
      PROVE  /\ Exists(obj) /\ lives' = lives
             /\ obj'.uid = obj.uid /\ obj'.gen = obj.gen + 1
             /\ obj'.deleting = obj.deleting /\ obj'.finalizer = obj.finalizer
             /\ obj'.status = obj.status
  BY <1>1, <1>3 DEF UserEdit, Written, Run, outside
<1>4. ASSUME UserDelete
      PROVE  /\ Exists(obj) /\ ~obj.deleting /\ lives' = lives
             /\ ~obj.finalizer => obj' = NoRun
             /\ obj.finalizer =>
                  /\ obj'.uid = obj.uid /\ obj'.gen = obj.gen + 1
                  /\ obj'.deleting = TRUE /\ obj'.finalizer = TRUE
                  /\ obj'.status = obj.status
  BY <1>1, <1>4 DEF UserDelete, Written, Run, outside
<1> QED
  BY <1>2, <1>3, <1>4

LEMMA UserFrame ==
  ASSUME UserDelete \/ \E spec \in Specs : UserCreate(spec) \/ UserEdit(spec)
  PROVE  /\ cacheFresh' = FALSE /\ fresh' = FALSE
         /\ UNCHANGED <<cache, jobCache, pc, my, jobs, created, last>>
BY DEF UserDelete, UserCreate, UserEdit, Written, jobVars, outside

LEMMA UserCreateCore ==
  ASSUME TypeInv, CoreInv, NEW spec \in Specs, UserCreate(spec)
  PROVE  CoreInv'
<1> USE Numbers
<1>1. /\ ~Exists(obj) /\ lives' = lives + 1
      /\ obj'.uid = lives + 1 /\ obj'.gen = 1 /\ obj'.deleting = FALSE
      /\ obj'.finalizer = FALSE
  BY UserRuns
<1>2. /\ cacheFresh' = FALSE /\ fresh' = FALSE
      /\ UNCHANGED <<cache, pc, my, created, last>>
  BY UserFrame
<1>3. UidInv'
  BY <1>1, <1>2 DEF CoreInv, UidInv
<1>4. AbsentInv'
  BY <1>1, <1>2 DEF CoreInv, AbsentInv, Exists
<1>5. CopyInv'
  BY <1>1, <1>2 DEF CoreInv, UidInv, CopyInv, Behind, Exists
<1>6. FinalizerInv'
  <2>1. pc \notin ApplySteps
    BY <1>1, ApplyFacts DEF Exists
  <2>2. ~(Exists(cache) /\ cache.finalizer /\ ~cache.deleting)
    BY <1>1 DEF CoreInv, FinalizerInv, Exists
  <2> QED
    BY <1>1, <1>2, <2>1, <2>2 DEF CoreInv, UidInv, FinalizerInv, Exists
<1>7. HistoryInv'
  BY <1>1, <1>2 DEF CoreInv, UidInv, HistoryInv, Exists
<1> QED
  BY <1>3, <1>4, <1>5, <1>6, <1>7 DEF CoreInv

(* An edit, or the stamp of a deletion, makes a new version.               *)
LEMMA NewVersionCore ==
  ASSUME TypeInv, CoreInv, Exists(obj), lives' = lives,
         obj'.uid = obj.uid, obj'.gen = obj.gen + 1, obj'.finalizer = obj.finalizer,
         obj.deleting => obj'.deleting, obj'.deleting \in BOOLEAN,
         obj'.deleting => obj'.finalizer,
         cacheFresh' = FALSE, fresh' = FALSE, UNCHANGED <<cache, pc, my, created, last>>
  PROVE  CoreInv'
<1> USE Numbers
<1>1. UidInv' /\ AbsentInv'
  BY DEF CoreInv, UidInv, AbsentInv, Exists
<1>2. CopyInv'
  BY DEF CoreInv, CopyInv, Behind, Exists
<1>3. FinalizerInv'
  BY DEF CoreInv, FinalizerInv, Exists
<1>4. HistoryInv'
  BY DEF CoreInv, HistoryInv, Exists
<1> QED
  BY <1>1, <1>2, <1>3, <1>4 DEF CoreInv

(* Without a finalizer the object goes at once; no worker works on it.     *)
LEMMA GoneCore ==
  ASSUME TypeInv, CoreInv, Exists(obj), ~obj.finalizer, lives' = lives, obj' = NoRun,
         cacheFresh' = FALSE, fresh' = FALSE, UNCHANGED <<cache, pc, my, created, last>>
  PROVE  CoreInv'
<1> USE Numbers, NoRunFacts
<1>1. UidInv' /\ AbsentInv'
  BY DEF CoreInv, UidInv, AbsentInv, Exists
<1>2. CopyInv'
  BY DEF CoreInv, CopyInv, Behind, Exists
<1>3. FinalizerInv'
  <2>1. pc \notin ApplySteps
    BY ApplyFacts
  <2>2. ~(Exists(cache) /\ cache.finalizer /\ ~cache.deleting)
    BY DEF CoreInv, FinalizerInv, CopyInv
  <2> QED
    BY <2>1, <2>2 DEF CoreInv, FinalizerInv, Exists
<1>4. HistoryInv'
  BY DEF CoreInv, UidInv, HistoryInv, Exists
<1> QED
  BY <1>1, <1>2, <1>3, <1>4 DEF CoreInv

LEMMA UserCore ==
  ASSUME TypeInv, CoreInv,
         UserDelete \/ \E spec \in Specs : UserCreate(spec) \/ UserEdit(spec)
  PROVE  CoreInv'
<1>1. ASSUME NEW spec \in Specs, UserEdit(spec)
      PROVE  CoreInv'
  BY <1>1, UserRuns, UserFrame, NewVersionCore, Numbers DEF CoreInv, FinalizerInv
<1>2. CASE UserDelete
  BY <1>2, UserRuns, UserFrame, NewVersionCore, GoneCore, Numbers
<1> QED
  BY <1>1, <1>2, UserCreateCore

LEMMA KindCore == TypeInv /\ CoreInv /\ Kind => CoreInv'
BY CalmCore, StartsCore, AddsCore, RemovesCore, StartsApplyCore, StartsDestroyCore,
   SyncCore, RestartCore, UserCore DEF Kind
-----------------------------------------------------------------------------
(* The history of the jobs, by kinds.                                      *)
JobsKnown ==
  \A name \in JobNames :
    /\ Exists(jobs[name]) => <<jobs[name].uid, name>> \in created
    /\ Exists(jobCache[name]) => <<jobCache[name].uid, name>> \in created

LEMMA StoreKnown ==
  ASSUME TypeInv, JobsKnown, pc # "idle", NEW name \in JobNames, Store(name),
         jobCache' = jobCache
  PROVE  JobsKnown' /\ <<my.uid, name>> \in created' /\ created \subseteq created'
<1>1. jobs \in [JobNames -> Job] /\ my.spec.hash \in Hashes /\ my.uid \in Uids
  BY BusyTypes DEF TypeInv, TypeOK
<1> DEFINE new == NewJob(my.uid, my.spec.hash)
<1>2. new.uid = my.uid
  BY <1>1, JobTypes
<1>3. jobs' = [jobs EXCEPT ![name] = new] /\ created' = created \cup {<<my.uid, name>>}
  BY DEF Store
<1> HIDE DEF new
<1>4. ASSUME NEW n \in JobNames, Exists(jobs'[n])
      PROVE  <<jobs'[n].uid, n>> \in created'
  BY <1>1, <1>2, <1>3, <1>4 DEF JobsKnown, Exists
<1> QED
  BY <1>3, <1>4 DEF JobsKnown, Exists

LEMMA StartedStays ==
  ASSUME created \subseteq created', DestroyStarted
  PROVE  DestroyStarted'
BY DEF DestroyStarted

LEMMA KindDestroy ==
  ASSUME TypeInv, CoreInv, DestroyInv, Kind
  PROVE  DestroyInv'
<1> USE NoRunFacts
<1> DEFINE Marked == /\ \A run \in {obj, cache, my} : run.status.activeDestroy => DestroyStarted
                     /\ pc \in DeletionSteps \ {"deletion"} => DestroyStarted
<1>1. JobsKnown /\ Marked
  BY DEF DestroyInv, JobsKnown
<1>2. JobsKnown' /\ Marked' => DestroyInv'
  BY DEF DestroyInv, JobsKnown
<1>3. UNCHANGED <<jobs, jobCache, created>> => JobsKnown' /\ (DestroyStarted' <=> DestroyStarted)
  BY <1>1 DEF JobsKnown, DestroyStarted, Exists
<1>4. CASE Starts
  <2>1. /\ my' = cache /\ pc' \in {"deletion", "workspace", "addFinalizer"}
        /\ UNCHANGED <<obj, cache, jobs, jobCache, created>>
    BY <1>4 DEF Starts, Begin, store, jobVars, outside, AfterFinalizer
  <2> QED
    BY <1>1, <1>2, <1>3, <2>1 DEF DeletionSteps
<1>5. CASE Adds
  <2>1. obj'.status = obj.status /\ my' = obj'
    BY <1>5, AddsFacts
  <2>2. /\ pc' \in {"deletion", "workspace"}
        /\ UNCHANGED <<cache, jobs, jobCache, created>>
    BY <1>5 DEF Adds, jobVars, outside, AfterFinalizer
  <2> QED
    BY <1>1, <1>2, <1>3, <2>1, <2>2 DEF DeletionSteps
<1>6. CASE Removes
  <2>1. /\ obj' = NoRun /\ my' = NoRun /\ pc' = "idle"
        /\ UNCHANGED <<cache, jobs, jobCache, created>>
    BY <1>6, RemovesDeleted DEF Removes, jobVars, outside
  <2> QED
    BY <1>1, <1>2, <1>3, <2>1 DEF DeletionSteps
<1>7. CASE StartsApply
  <2>1. PICK h \in Hashes : Store(buildJobName(BuildRunID(my.gen, h)))
    BY <1>7 DEF StartsApply
  <2>2. UNCHANGED <<obj, cache, my, jobCache>> /\ pc = "jobs" /\ pc' = "record"
    BY <1>7 DEF StartsApply, store, outside
  <2>3. JobsKnown' /\ created \subseteq created'
    BY <1>1, <2>1, <2>2, StoreKnown, BusyTypes, RunIDTypes
  <2> QED
    BY <1>1, <1>2, <2>2, <2>3, StartedStays DEF DeletionSteps
<1>8. CASE StartsDestroy
  <2>1. /\ Store(DestroyName) /\ pc = "deletion"
        /\ UNCHANGED <<obj, cache, my, jobCache>>
    BY <1>8 DEF StartsDestroy, store, outside
  <2>2. DestroyName \in JobNames
    BY DEF JobNames
  <2>3. JobsKnown' /\ <<my.uid, DestroyName>> \in created' /\ created \subseteq created'
    BY <1>1, <2>1, <2>2, StoreKnown
  <2>4. my.uid \in Uids
    BY <2>1, BusyTypes
  <2>5. DestroyStarted'
    BY <2>1, <2>3, <2>4 DEF DestroyStarted
  <2> QED
    BY <1>2, <2>3, <2>5
<1>9. CASE SyncRun
  <2>1. cache' = obj /\ UNCHANGED <<obj, my, pc, jobs, jobCache, created>>
    BY <1>9 DEF SyncRun, jobVars, reconcileVars
  <2> QED
    BY <1>1, <1>2, <1>3, <2>1
<1>10. CASE Restart
  <2>1. /\ cache' = obj /\ my' = NoRun /\ pc' = "idle" /\ jobCache' = jobs
        /\ UNCHANGED <<obj, jobs, created>>
    BY <1>10 DEF Restart
  <2>2. JobsKnown' /\ (DestroyStarted' <=> DestroyStarted)
    BY <1>1, <2>1 DEF JobsKnown, DestroyStarted, Exists
  <2> QED
    BY <1>1, <1>2, <2>1, <2>2 DEF DeletionSteps
<1>11. CASE UserDelete \/ \E spec \in Specs : UserCreate(spec) \/ UserEdit(spec)
  <2>1. obj'.status.activeDestroy => obj.status.activeDestroy
    BY <1>11, UserRuns, Numbers
  <2>2. UNCHANGED <<cache, my, pc, jobs, jobCache, created>>
    BY <1>11, UserFrame
  <2> QED
    BY <1>1, <1>2, <1>3, <2>1, <2>2
<1> QED
  BY <1>4, <1>5, <1>6, <1>7, <1>8, <1>9, <1>10, <1>11, CalmDestroy DEF Kind
-----------------------------------------------------------------------------
(* Every step is of one of the kinds.  First what is calm about the ways a *)
(* status is written and a reconcile goes on.                              *)
LEMMA StatusMarks ==
  ASSUME NEW st \in Status, Marks(st)
  PROVE  /\ Marks(AsFailed(st))
         /\ \A p : Marks([st EXCEPT !.phase = p])
         /\ \A h : Marks([st EXCEPT !.pendingHash = h])
         /\ Marks([st EXCEPT !.nextRun = 0])
         /\ Marks([st EXCEPT !.activeDestroy = FALSE])
         /\ Marks([st EXCEPT !.phase = "Failed", !.activeDestroy = FALSE])
         /\ \A n, g : Marks([st EXCEPT !.activeJob = n, !.phase = "Running",
                                      !.observedGen = g])
         /\ \A n, h, g, t :
              Marks([st EXCEPT !.activeJob = n, !.lastHash = h, !.phase = "Running",
                               !.observedGen = g, !.pendingHash = NoHash, !.nextRun = t])
BY DEF Status, Marks, AsFailed

LEMMA MyMarks ==
  ASSUME TypeInv, DestroyInv
  PROVE  /\ my.status \in Status /\ Marks(my.status)
         /\ cache.status \in Status /\ Marks(cache.status)
BY Numbers DEF DestroyInv, Marks

LEMMA FreshExists ==
  ASSUME TypeInv, CoreInv
  PROVE  /\ fresh /\ pc # "idle" => Exists(obj)
         /\ cacheFresh /\ Exists(cache) => Exists(obj)
BY DEF TypeInv, CoreInv, CopyInv, Exists

LEMMA StoredCalm ==
  ASSUME TypeInv, NEW st, Marks(st), Exists(obj), StatusStored(st),
         UNCHANGED <<cache, lives, created, last>>
  PROVE  StoreCalm
<1>1. obj \in Run /\ obj' = [obj EXCEPT !.status = st]
  BY Numbers DEF StatusStored
<1>2. /\ SameRun(obj', obj) /\ obj'.status = st
      /\ st = obj.status => obj' = obj
  BY <1>1 DEF Run, SameRun
<1>3. cacheFresh' => cacheFresh /\ st = obj.status
  BY DEF StatusStored
<1> QED
  BY <1>2, <1>3 DEF StoreCalm

LEMMA UnwrittenCalm ==
  ASSUME UNCHANGED store, UNCHANGED <<cache, lives, created, last>>
  PROVE  StoreCalm
BY DEF StoreCalm, store

LEMMA SavedCalm ==
  ASSUME TypeInv, NEW st, Marks(st), NEW current, current => Exists(obj),
         SaveIgnoringError(current, st), UNCHANGED <<cache, lives, created, last>>
  PROVE  StoreCalm
BY StoredCalm, UnwrittenCalm DEF SaveIgnoringError

LEMMA ReturnCalm ==
  ASSUME NEW requeue, NEW after, Return(requeue, after)
  PROVE  WorkerCalm
BY DEF Return, WorkerCalm

LEMMA SaveReturnCalm ==
  ASSUME TypeInv, NEW st, Marks(st), NEW current, current => Exists(obj), NEW after,
         SaveThenReturn(current, st, after), UNCHANGED <<cache, lives, created, last>>
  PROVE  StoreCalm /\ WorkerCalm
BY StoredCalm, UnwrittenCalm, ReturnCalm DEF SaveThenReturn

LEMMA JobsKeptCalm ==
  ASSUME UNCHANGED <<jobs, jobCache>>
  PROVE  JobsCalm
BY DEF JobsCalm

LEMMA FrameCalm ==
  ASSUME UNCHANGED <<jobVars, outside>>
  PROVE  JobsCalm /\ UNCHANGED <<cache, lives, created, last>>
BY JobsKeptCalm DEF jobVars, outside

(* What the workspace calls and the end of a destroy job make of the copy  *)
(* at hand.                                                                *)
LEMMA WorkspaceCalm ==
  ASSUME TypeInv, DestroyInv,
         NEW run \in {WorkspaceFailed, WorkspacePending,
                      [my EXCEPT !.status.phase = "Failed", !.status.wsReady = FALSE,
                                 !.status.wsID = 0],
                      [my EXCEPT !.status.activeDestroy = FALSE]}
                     \cup {WorkspaceReady(id) : id \in 0..MaxWs}
  PROVE  SameRun(run, my) /\ Marks(run.status)
<1>1. my \in Run /\ my.status \in Status /\ Marks(my.status)
  BY Numbers, MyMarks
<1>2. CASE run = WorkspaceFailed
  BY <1>1, <1>2 DEF WorkspaceFailed, Run, Status, SameRun, Marks
<1>3. CASE run = WorkspacePending
  BY <1>1, <1>3 DEF WorkspacePending, Run, Status, SameRun, Marks
<1>4. CASE run = [my EXCEPT !.status.phase = "Failed", !.status.wsReady = FALSE,
                            !.status.wsID = 0]
  BY <1>1, <1>4 DEF Run, Status, SameRun, Marks
<1>5. CASE run = [my EXCEPT !.status.activeDestroy = FALSE]
  BY <1>1, <1>5 DEF Run, Status, SameRun, Marks
<1>6. ASSUME NEW id \in 0..MaxWs, run = WorkspaceReady(id)
      PROVE  SameRun(run, my) /\ Marks(run.status)
  BY <1>1, <1>6 DEF WorkspaceReady, Run, Status, SameRun, Marks
<1> QED
  BY <1>2, <1>3, <1>4, <1>5, <1>6
-----------------------------------------------------------------------------
LEMMA BeginKind ==
  ASSUME TypeInv, CoreInv, DestroyInv, Begin \/ EnsureFinalizer
  PROVE  Kind
<1>1. CASE Begin
  <2>1. CASE Exists(cache)
    BY <1>1, <2>1 DEF Kind, Starts
  <2>2. CASE ~Exists(cache)
    <3>1. StoreCalm /\ JobsCalm
      BY <1>1, FrameCalm, UnwrittenCalm DEF Begin
    <3>2. WorkerCalm
      BY <1>1, <2>2 DEF Begin, WorkerCalm, reconcileVars
    <3> QED
      BY <3>1, <3>2 DEF Kind, Calm
  <2> QED
    BY <2>1, <2>2
<1>2. CASE EnsureFinalizer
  <2>1. CASE fresh
    BY <1>2, <2>1 DEF EnsureFinalizer, Goto, Kind, Adds
  <2>2. CASE ~fresh
    BY <1>2, <2>2, FrameCalm, UnwrittenCalm, ReturnCalm DEF EnsureFinalizer, Kind, Calm
  <2> QED
    BY <2>1, <2>2
<1> QED
  BY <1>1, <1>2

(* A worker that goes on within the applying or the deleting steps.        *)
LEMMA GoesOnCalm ==
  ASSUME TypeInv, CoreInv, DestroyInv, fresh' = fresh,
         SameRun(my', my) /\ Marks(my'.status),
         \/ pc \in ApplySteps /\ pc' \in ApplySteps
         \/ pc \in DeletionSteps /\ pc' \in DeletionSteps /\ DestroyStarted
  PROVE  WorkerCalm
BY DEF WorkerCalm

LEMMA StaysCalm ==
  ASSUME TypeInv, CoreInv, DestroyInv, UNCHANGED <<my, fresh>>,
         \/ pc \in ApplySteps /\ pc' \in ApplySteps
         \/ pc \in DeletionSteps /\ pc' \in DeletionSteps /\ DestroyStarted
  PROVE  WorkerCalm
BY MyMarks, GoesOnCalm DEF SameRun

LEMMA WorkspaceKind ==
  ASSUME TypeInv, CoreInv, DestroyInv,
         SkipWorkspace \/ VerifyWorkspace \/ WorkspaceLost \/ ReconcileWorkspace
           \/ SaveWorkspace
  PROVE  Calm
<1>1. JobsCalm /\ UNCHANGED <<cache, lives, created, last>>
  BY FrameCalm DEF SkipWorkspace, VerifyWorkspace, WorkspaceLost, ReconcileWorkspace,
                   SaveWorkspace
<1>2. CASE SkipWorkspace
  <2>1. WorkerCalm
    BY <1>2, StaysCalm DEF SkipWorkspace, Goto, ApplySteps
  <2> QED
    BY <1>1, <1>2, <2>1, UnwrittenCalm DEF SkipWorkspace, Calm
<1>3. CASE VerifyWorkspace
  <2>1. SameRun(my', my) /\ Marks(my'.status)
    BY <1>3, WorkspaceCalm, MyMarks DEF VerifyWorkspace, WorkspaceFailed, SameRun
  <2>2. WorkerCalm
    BY <1>3, <2>1, GoesOnCalm DEF VerifyWorkspace, Goto, ApplySteps
  <2> QED
    BY <1>1, <1>3, <2>2, UnwrittenCalm DEF VerifyWorkspace, Calm
<1>4. CASE WorkspaceLost
  <2>1. fresh => Exists(obj)
    BY <1>4, FreshExists DEF WorkspaceLost
  <2> QED
    BY <1>1, <1>4, <2>1, MyMarks, SavedCalm, ReturnCalm DEF WorkspaceLost, Calm
<1>5. CASE ReconcileWorkspace
  <2>1. my' \in {WorkspaceFailed, WorkspacePending}
                  \cup {WorkspaceReady(id) : id \in 0..MaxWs}
    <3>1. CASE importScalrWorkspace
      BY <3>1, ImportTypes DEF importScalrWorkspace
    <3>2. CASE CreateScalrWorkspace
      <4>1. wsCount < MaxWs => wsCount + 1 \in 0..MaxWs
        BY BoundsAssumption DEF TypeInv, TypeOK
      <4> QED
        BY <3>2, <4>1 DEF CreateScalrWorkspace
    <3> QED
      BY <1>5, <3>1, <3>2 DEF ReconcileWorkspace
  <2>2. WorkerCalm
    BY <1>5, <2>1, WorkspaceCalm, GoesOnCalm DEF ReconcileWorkspace, Goto, ApplySteps
  <2> QED
    BY <1>1, <1>5, <2>2, UnwrittenCalm DEF ReconcileWorkspace, Calm
<1>6. CASE SaveWorkspace
  <2>1. CASE fresh /\ StatusStored(my.status) /\ Goto("jobs") /\ UNCHANGED <<my, fresh>>
    <3>1. Exists(obj)
      BY <1>6, <2>1, FreshExists DEF SaveWorkspace
    <3>2. WorkerCalm
      BY <1>6, <2>1, StaysCalm DEF SaveWorkspace, Goto, ApplySteps
    <3> QED
      BY <1>1, <2>1, <3>1, <3>2, MyMarks, StoredCalm DEF Calm
  <2>2. CASE UNCHANGED store /\ Return(TRUE, FALSE)
    BY <1>1, <2>2, UnwrittenCalm, ReturnCalm DEF Calm
  <2> QED
    BY <1>6, <2>1, <2>2 DEF SaveWorkspace
<1> QED
  BY <1>2, <1>3, <1>4, <1>5, <1>6

LEMMA CreateNewJobKind ==
  ASSUME TypeInv, CoreInv, DestroyInv, pc = "jobs", NEW hash \in Hashes,
         createNewJob(hash), UNCHANGED outside
  PROVE  Kind
<1> DEFINE name == buildJobName(BuildRunID(my.gen, hash))
<1>1. fresh => Exists(obj)
  BY FreshExists
<1>2. Marks(AsFailed(my.status))
  BY MyMarks, StatusMarks
<1>3. CASE SaveThenReturn(fresh, AsFailed(my.status), FALSE) /\ UNCHANGED jobVars
  BY <1>1, <1>2, <1>3, FrameCalm, SaveReturnCalm DEF Kind, Calm
<1>4. CASE Goto("adopt") /\ UNCHANGED <<store, jobVars, my, fresh>>
  <2>1. WorkerCalm
    BY <1>4, StaysCalm DEF Goto, ApplySteps
  <2> QED
    BY <1>4, <2>1, FrameCalm, UnwrittenCalm DEF Kind, Calm
<1>5. CASE /\ SaveIgnoringError(fresh, AsFailed(my.status)) /\ Return(TRUE, FALSE)
           /\ UNCHANGED jobVars
  BY <1>1, <1>2, <1>5, FrameCalm, SavedCalm, ReturnCalm DEF Kind, Calm
<1>6. CASE /\ Store(name) /\ Goto("record") /\ UNCHANGED <<store, my, fresh>>
           /\ last' = [uid |-> my.uid, gen |-> my.gen, content |-> my.spec.hash]
  BY <1>6 DEF Goto, Kind, StartsApply
<1>7. CASE UNCHANGED store /\ Return(TRUE, FALSE) /\ UNCHANGED jobVars
  BY <1>7, FrameCalm, UnwrittenCalm, ReturnCalm DEF Kind, Calm
<1> QED
  BY <1>3, <1>4, <1>5, <1>6, <1>7 DEF createNewJob

LEMMA JobsKind ==
  ASSUME TypeInv, CoreInv, DestroyInv,
         \/ DeferSpecChange \/ WaitForJob \/ RecordCompletion
         \/ RunSpecChange \/ RunPending \/ RunInterval \/ NoIntervalRun
         \/ RecordJob \/ AdoptJob
  PROVE  Kind
<1>1. fresh /\ pc # "idle" => Exists(obj)
  BY FreshExists
<1>2. CASE RunSpecChange \/ RunPending \/ RunInterval
  <2>1. pc = "jobs" /\ UNCHANGED outside
    BY <1>2 DEF RunSpecChange, RunPending, RunInterval
  <2>2. my.spec.hash \in Hashes /\ my.status.pendingHash \in Hashes \cup {NoHash}
    BY <2>1, BusyTypes DEF Status
  <2>3. \E hash \in Hashes : createNewJob(hash)
    BY <1>2, <2>2 DEF RunSpecChange, RunPending, RunInterval, PendingExists,
                      computeSpecHash
  <2> QED
    BY <2>1, <2>3, CreateNewJobKind
<1>3. CASE DeferSpecChange \/ WaitForJob \/ RecordCompletion \/ NoIntervalRun
           \/ RecordJob \/ AdoptJob
  <2>1. JobsCalm /\ UNCHANGED <<cache, lives, created, last>>
    BY <1>3, FrameCalm DEF DeferSpecChange, WaitForJob, RecordCompletion, NoIntervalRun,
                           RecordJob, AdoptJob
  <2>2. CASE DeferSpecChange
    BY <1>1, <2>1, <2>2, MyMarks, StatusMarks, SaveReturnCalm DEF DeferSpecChange, Kind, Calm
  <2>3. CASE WaitForJob
    BY <2>1, <2>3, UnwrittenCalm, ReturnCalm DEF WaitForJob, Kind, Calm
  <2>4. CASE RecordCompletion
    BY <1>1, <2>1, <2>4, MyMarks, StatusMarks, SaveReturnCalm
       DEF RecordCompletion, Kind, Calm
  <2>5. CASE NoIntervalRun
    <3>1. fresh => Exists(obj)
      BY <1>1, <2>5 DEF NoIntervalRun
    <3>2. \/ SaveThenReturn(fresh, [my.status EXCEPT !.nextRun = 0], FALSE)
          \/ SaveIgnoringError(fresh, AsFailed(my.status)) /\ Return(FALSE, FALSE)
          \/ UNCHANGED store /\ Return(FALSE, my.spec.interval = "valid")
      BY <2>5 DEF NoIntervalRun
    <3>3. Marks([my.status EXCEPT !.nextRun = 0]) /\ Marks(AsFailed(my.status))
      BY MyMarks, StatusMarks
    <3> QED
      BY <2>1, <3>1, <3>2, <3>3, SaveReturnCalm, SavedCalm, UnwrittenCalm, ReturnCalm
         DEF Kind, Calm
  <2>6. CASE RecordJob
    BY <1>1, <2>1, <2>6, MyMarks, StatusMarks, SaveReturnCalm DEF RecordJob, Kind, Calm
  <2>7. CASE AdoptJob
    BY <2>1, <2>7, FreshExists, MyMarks, StatusMarks, SaveReturnCalm, UnwrittenCalm,
       ReturnCalm DEF AdoptJob, Kind, Calm
  <2> QED
    BY <1>3, <2>2, <2>3, <2>4, <2>5, <2>6, <2>7
<1> QED
  BY <1>2, <1>3
-----------------------------------------------------------------------------
LEMMA DestroySeen ==
  ASSUME TypeInv, DestroyInv,
         \/ Exists(jobCache[DestroyName]) \/ Exists(jobs[DestroyName])
         \/ my.status.activeDestroy
         \/ pc \in DeletionSteps \ {"deletion"}
  PROVE  DestroyStarted
<1>1. DestroyName \in JobNames
  BY DEF JobNames
<1> QED
  BY <1>1, Created DEF DestroyInv

LEMMA CreateDestroyJobKind ==
  ASSUME TypeInv, CoreInv, DestroyInv, CreateDestroyJob
  PROVE  Kind
<1>1. pc = "deletion" /\ UNCHANGED outside
  BY DEF CreateDestroyJob
<1>2. fresh => Exists(obj)
  BY <1>1, FreshExists
<1>3. CASE /\ SaveIgnoringError(fresh, AsFailed(my.status)) /\ Return(TRUE, FALSE)
           /\ UNCHANGED jobVars
  BY <1>1, <1>2, <1>3, MyMarks, StatusMarks, FrameCalm, SavedCalm, ReturnCalm DEF Kind, Calm
<1>4. CASE /\ Exists(jobs[DestroyName])
           /\ SaveIgnoringError(fresh, DestroyStatus) /\ Return(FALSE, TRUE)
           /\ UNCHANGED jobVars
  <2>1. Marks(DestroyStatus)
    BY <1>4, DestroySeen DEF Marks
  <2> QED
    BY <1>1, <1>2, <1>4, <2>1, FrameCalm, SavedCalm, ReturnCalm DEF Kind, Calm
<1>5. CASE Return(TRUE, FALSE) /\ UNCHANGED <<store, jobVars>>
  BY <1>1, <1>5, FrameCalm, UnwrittenCalm, ReturnCalm DEF Kind, Calm
<1>6. CASE Store(DestroyName) /\ Goto("destroyRecord") /\ UNCHANGED <<store, last, my, fresh>>
  BY <1>1, <1>6 DEF Goto, Kind, StartsDestroy
<1> QED
  BY <1>3, <1>4, <1>5, <1>6 DEF CreateDestroyJob

LEMMA DeletionKind ==
  ASSUME TypeInv, CoreInv, DestroyInv,
         \/ CannotDestroy \/ AdoptDestroyJob \/ RecordDestroyJob \/ FinishDestroy
         \/ AwaitDestroyJob \/ CleanupWorkspace \/ RemoveFinalizer
  PROVE  Kind
<1>1. JobsCalm /\ UNCHANGED <<cache, lives, created, last>>
  BY FrameCalm DEF CannotDestroy, AdoptDestroyJob, RecordDestroyJob, FinishDestroy,
                   AwaitDestroyJob, CleanupWorkspace, RemoveFinalizer
<1>2. fresh /\ pc # "idle" => Exists(obj)
  BY FreshExists
<1>9. CASE CannotDestroy
  BY <1>1, <1>9, UnwrittenCalm, ReturnCalm DEF CannotDestroy, Kind, Calm
<1>3. CASE AdoptDestroyJob
  <2>1. DestroyStarted
    BY <1>3, DestroySeen DEF AdoptDestroyJob
  <2> QED
    BY <1>1, <1>3, <2>1, FreshExists, SaveReturnCalm, UnwrittenCalm, ReturnCalm
       DEF AdoptDestroyJob, Marks, Kind, Calm
<1>4. CASE RecordDestroyJob
  <2>1. Marks(DestroyStatus)
    BY <1>4, DestroySeen DEF RecordDestroyJob, DeletionSteps, Marks
  <2> QED
    BY <1>1, <1>2, <1>4, <2>1, SaveReturnCalm DEF RecordDestroyJob, Kind, Calm
<1>5. CASE FinishDestroy
  <2>1. DestroyStarted
    BY <1>5, DestroySeen DEF FinishDestroy
  <2>2. WorkerCalm
    BY <1>5, <2>1, WorkspaceCalm, GoesOnCalm DEF FinishDestroy, Goto, DeletionSteps
  <2>3. StoreCalm
    BY <1>1, <1>2, <1>5, <2>1, SavedCalm DEF FinishDestroy, Marks
  <2> QED
    BY <1>1, <2>2, <2>3 DEF Kind, Calm
<1>6. CASE AwaitDestroyJob
  <2>1. \/ /\ SaveIgnoringError(fresh,
                 [my.status EXCEPT !.phase = "Failed", !.activeDestroy = FALSE])
           /\ Return(FALSE, FALSE)
        \/ UNCHANGED store /\ Return(FALSE, TRUE)
    BY <1>6 DEF AwaitDestroyJob
  <2>2. fresh => Exists(obj)
    BY <1>2, <1>6 DEF AwaitDestroyJob
  <2> QED
    BY <1>1, <2>1, <2>2, MyMarks, StatusMarks, SavedCalm, UnwrittenCalm, ReturnCalm
       DEF Kind, Calm
<1>7. CASE CleanupWorkspace
  <2>1. WorkerCalm
    <3>1. CASE \E requeue, after \in BOOLEAN : Return(requeue, after)
      BY <3>1, ReturnCalm
    <3>2. CASE Goto("removeFinalizer") /\ UNCHANGED <<my, fresh>>
      BY <1>7, <3>2, DestroySeen, StaysCalm DEF CleanupWorkspace, Goto, DeletionSteps
    <3> QED
      BY <1>7, <3>1, <3>2 DEF CleanupWorkspace, deleteRemoteWorkspace
  <2> QED
    BY <1>1, <1>7, <2>1, UnwrittenCalm DEF CleanupWorkspace, Kind, Calm
<1>8. CASE RemoveFinalizer
  <2>1. CASE cache.finalizer /\ cacheFresh
    BY <1>8, <2>1 DEF RemoveFinalizer, Return, Kind, Removes
  <2>2. CASE UNCHANGED store /\ \E requeue : Return(requeue, FALSE)
    BY <1>1, <2>2, UnwrittenCalm, ReturnCalm DEF Kind, Calm
  <2> QED
    BY <1>8, <2>1, <2>2 DEF RemoveFinalizer
<1> QED
  BY <1>3, <1>4, <1>5, <1>6, <1>7, <1>8, <1>9

LEMMA ManagerKind ==
  ASSUME TypeInv, Manager
  PROVE  Kind
<1>1. CASE TimerFires \/ Resync
  BY <1>1, FrameCalm, UnwrittenCalm DEF TimerFires, Resync, Kind, Calm, WorkerCalm, reconcileVars
<1>2. ASSUME NEW name \in JobNames, SyncJob(name)
      PROVE  Calm
  <2>1. jobCache' = [jobCache EXCEPT ![name] = jobs[name]] /\ jobs' = jobs
          /\ UNCHANGED <<store, cache, lives, created, last, reconcileVars>>
    BY <1>2 DEF SyncJob
  <2>2. jobCache \in [JobNames -> Job]
    BY DEF TypeInv, TypeOK
  <2>3. JobsCalm
    BY <2>1, <2>2 DEF JobsCalm
  <2> QED
    BY <2>1, <2>3, UnwrittenCalm DEF Calm, WorkerCalm, reconcileVars
<1> QED
  BY <1>1, <1>2 DEF Manager, Kind

(* The job controller keeps a job's owner, or removes the job.             *)
LEMMA ClusterKind ==
  ASSUME TypeInv, Cluster
  PROVE  Kind
<1>1. jobs \in [JobNames -> Job]
  BY DEF TypeInv, TypeOK
<1>2. PICK name \in JobNames :
        StartPod(name) \/ PodSucceeds(name) \/ PodFails(name)
          \/ ExpireJob(name) \/ CollectJob(name)
  BY DEF Cluster
<1>3. PICK job : JobStep(name, job) /\ (Exists(job) => job.uid = jobs[name].uid)
  <2>1. \A j \in Job : /\ [j EXCEPT !.active = 1].uid = j.uid
                        /\ [j EXCEPT !.active = 0, !.succeeded = 1].uid = j.uid
                        /\ [j EXCEPT !.active = 0, !.failed = @ + 1].uid = j.uid
    BY DEF Job
  <2>2. ~Exists(NoJob)
    BY DEF NoJob, Exists
  <2> QED
    BY <1>1, <1>2, <2>1, <2>2 DEF StartPod, PodSucceeds, PodFails, ExpireJob, CollectJob
<1>4. jobs' = [jobs EXCEPT ![name] = job]
        /\ UNCHANGED <<store, cache, jobCache, lives, created, last, reconcileVars>>
  BY <1>3 DEF JobStep
<1>5. JobsCalm
  BY <1>1, <1>3, <1>4 DEF JobsCalm, Exists
<1> QED
  BY <1>4, <1>5, UnwrittenCalm DEF Kind, Calm, WorkerCalm, reconcileVars

LEMMA StepKinds ==
  ASSUME TypeInv, CoreInv, DestroyInv, [Next]_vars
  PROVE  Kind
<1>1. CASE Reconcile
  BY <1>1, BeginKind, WorkspaceKind, JobsKind, CreateDestroyJobKind, DeletionKind
     DEF Reconcile, Kind
<1>2. CASE Users
  BY <1>2 DEF Users, Kind
<1>3. CASE Surroundings
  <2>1. UNCHANGED <<store, jobs, jobCache, cache, lives, created, last, reconcileVars>>
    BY <1>3 DEF Surroundings, WorkspaceVanishes, SecretVanishes, SecretReturns, Tick,
                outside, jobVars
  <2> QED
    BY <2>1, JobsKeptCalm, UnwrittenCalm DEF Kind, Calm, WorkerCalm, reconcileVars
<1>4. CASE UNCHANGED vars
  <2>1. UNCHANGED <<store, jobVars, outside, reconcileVars>>
    BY <1>4 DEF vars
  <2> QED
    BY <2>1, FrameCalm, UnwrittenCalm DEF Kind, Calm, WorkerCalm, reconcileVars
<1> QED
  BY <1>1, <1>2, <1>3, <1>4, ManagerKind, ClusterKind DEF Next
-----------------------------------------------------------------------------
(* The inductive invariant.                                                *)
LEMMA InitInv == Init => BaseInv
<1> SUFFICES ASSUME Init PROVE BaseInv
  OBVIOUS
<1> USE NoRunFacts
<1>1. TypeInv
  BY InitTypes
<1>2. /\ obj = NoRun /\ cache = NoRun /\ my = NoRun /\ lives = 0
      /\ pc = "idle" /\ fresh = FALSE /\ created = {} /\ last.uid = 0
  BY DEF Init
<1>3. UidInv /\ AbsentInv
  BY <1>2 DEF UidInv, AbsentInv, Exists
<1>4. CopyInv /\ FinalizerInv
  BY <1>2 DEF CopyInv, FinalizerInv, Behind, Exists, ApplySteps, DeletionSteps
<1>5. HistoryInv
  BY <1>2 DEF HistoryInv, Exists
<1>6. DestroyInv
  <2>1. \A name \in JobNames : ~Exists(jobs[name]) /\ ~Exists(jobCache[name])
    BY DEF Init, NoJob, Exists
  <2> QED
    BY <1>2, <2>1 DEF DestroyInv, DeletionSteps
<1> QED
  BY <1>1, <1>3, <1>4, <1>5, <1>6 DEF BaseInv, CoreInv

LEMMA NextInv == BaseInv /\ [Next]_vars => BaseInv'
<1> SUFFICES ASSUME BaseInv, [Next]_vars PROVE BaseInv'
  OBVIOUS
<1>1. TypeInv'
  BY NextTypes DEF BaseInv, CoreInv, CopyInv
<1> QED
  BY <1>1, StepKinds, KindCore, KindDestroy DEF BaseInv

(* The copies of the run, the worker's position and the history of the     *)
(* jobs agree as BaseInv says, at every step.                              *)
THEOREM BaseInvariance == Spec => []BaseInv
BY InitInv, NextInv, PTL DEF Spec

(* Every variable keeps its type: no handler writes a phase, a job name or *)
(* a generation the object does not admit, and no bound is overrun.        *)
THEOREM TypeSafety == Spec => []TypeOK
<1>1. BaseInv => TypeOK
  BY DEF BaseInv, TypeInv
<1> QED
  BY <1>1, BaseInvariance, PTL
-----------------------------------------------------------------------------
(* What the properties say of one step.                                    *)
LEMMA NewJobs ==
  ASSUME BaseInv, Kind, NEW name \in JobNames, JobCreated(name)
  PROVE  \/ name = DestroyName
         \/ pc \in ApplySteps /\ jobs'[name].uid = my.uid
            /\ <<my.uid, DestroyName>> \notin created
<1> USE DEF BaseInv
<1>1. jobs \in [JobNames -> Job]
  BY DEF TypeInv, TypeOK
<1>2. CASE Calm
  BY <1>2 DEF Calm, JobsCalm, JobCreated, Exists
<1>3. CASE \/ Starts \/ Adds \/ Removes \/ SyncRun \/ Restart
           \/ UserDelete \/ \E spec \in Specs : UserCreate(spec) \/ UserEdit(spec)
  <2>1. jobs' = jobs
    BY <1>3, UserFrame DEF Starts, Begin, Adds, Removes, SyncRun, Restart, jobVars
  <2> QED
    BY <2>1 DEF JobCreated, Exists
<1>4. CASE StartsDestroy
  <2>1. jobs' = [jobs EXCEPT ![DestroyName] = NewJob(my.uid, my.spec.hash)]
    BY <1>4 DEF StartsDestroy, Store
  <2> QED
    BY <1>1, <2>1 DEF JobCreated, Exists
<1>5. CASE StartsApply
  <2>1. pc = "jobs"
    BY <1>5 DEF StartsApply
  <2>2. PICK h \in Hashes : Store(buildJobName(BuildRunID(my.gen, h)))
    BY <1>5 DEF StartsApply
  <2>3. my.uid \in Uids /\ my.spec.hash \in Hashes
    BY <2>1, BusyTypes
  <2> DEFINE new == NewJob(my.uid, my.spec.hash)
  <2>4. new.uid = my.uid
    BY <2>3, JobTypes
  <2>5. jobs' = [jobs EXCEPT ![buildJobName(BuildRunID(my.gen, h))] = new]
    BY <2>2 DEF Store
  <2> HIDE DEF new
  <2>6. jobs'[name].uid = my.uid
    BY <1>1, <2>4, <2>5 DEF JobCreated, Exists
  <2>7. pc \in ApplySteps
    BY <2>1 DEF ApplySteps
  <2> QED
    BY <2>6, <2>7, ApplyFacts
<1> QED
  BY <1>2, <1>3, <1>4, <1>5 DEF Kind
-----------------------------------------------------------------------------
(* A finalizer that goes, goes with a deleted object, by the worker's hand. *)
LEMMA LostFinalizer ==
  ASSUME BaseInv, Kind, obj.finalizer, ~obj'.finalizer
  PROVE  obj.deleting /\ obj' = NoRun /\ DestroyStarted /\ obj.uid # 0
<1> USE Numbers, NoRunFacts DEF BaseInv
<1>1. ~Calm /\ ~Adds
  BY AddsFacts DEF Calm, StoreCalm, SameRun
<1>2. ~Starts /\ ~StartsApply /\ ~StartsDestroy /\ ~SyncRun /\ ~Restart
  BY DEF Starts, Begin, StartsApply, StartsDestroy, SyncRun, Restart, store
<1>3. Exists(obj)
  BY DEF CoreInv, AbsentInv
<1>4. ~(UserDelete \/ \E spec \in Specs : UserCreate(spec) \/ UserEdit(spec))
  BY <1>3, UserRuns
<1>5. Removes
  BY <1>1, <1>2, <1>4 DEF Kind
<1>6. DestroyStarted
  BY <1>5, DestroySeen DEF Removes, DeletionSteps
<1> QED
  BY <1>5, <1>6, RemovesDeleted DEF Exists

(* No apply job is created for an incarnation once its destroy job has     *)
(* been: what handleDeletion's precedence in Reconcile is for.             *)
THEOREM ApplyPrecedesDestroy == Spec => NoApplyAfterDestroy
<1>1. BaseInv /\ [Next]_vars =>
        [\A name \in JobNames \ {DestroyName} :
           JobCreated(name) => <<jobs'[name].uid, DestroyName>> \notin created]_vars
  BY StepKinds, NewJobs DEF BaseInv
<1> QED
  BY <1>1, BaseInvariance, PTL DEF Spec, NoApplyAfterDestroy

(* removeFinalizer is reached, for a run being deleted, only after a       *)
(* destroy job of its name was created.                                    *)
THEOREM FinalizerHeld == Spec => FinalizerHeldUntilDestroy
<1>1. BaseInv /\ [Next]_vars =>
        [obj.deleting /\ obj.finalizer /\ ~obj'.finalizer => DestroyStarted]_vars
  BY StepKinds, LostFinalizer DEF BaseInv
<1> QED
  BY <1>1, BaseInvariance, PTL DEF Spec, FinalizerHeldUntilDestroy

(* removeFinalizer never takes the finalizer of a run that lives, however  *)
(* late it reads the informer again.                                       *)
THEOREM LivingKept == Spec => LivingKeepsFinalizer
<1>1. BaseInv /\ [Next]_vars =>
        [obj.finalizer /\ ~obj.deleting /\ obj'.uid = obj.uid => obj'.finalizer]_vars
  BY StepKinds, LostFinalizer DEF BaseInv
<1> QED
  BY <1>1, BaseInvariance, PTL DEF Spec, LivingKeepsFinalizer

(* deleteRemoteWorkspace is called only after a destroy job of the run's   *)
(* name was created.                                                       *)
THEOREM WorkspaceKept == Spec => WorkspaceAwaitsDestroy
<1>1. BaseInv => [pc = "cleanup" /\ remote' # remote => DestroyStarted]_vars
  BY DestroySeen DEF BaseInv, DeletionSteps
<1> QED
  BY <1>1, BaseInvariance, PTL DEF Spec, WorkspaceAwaitsDestroy
-----------------------------------------------------------------------------
(* The refinement: every kind of step is a step of the promise or none.    *)
LEMMA PromiseKept ==
  ASSUME lives' = lives, obj'.uid = obj.uid, obj'.gen = obj.gen,
         obj'.deleting = obj.deleting, UNCHANGED <<last, created>>
  PROVE  UNCHANGED Promise!vars
BY DEF Promise!vars

LEMMA PromiseQuiet ==
  ASSUME BaseInv, Calm \/ Starts \/ SyncRun \/ Restart
  PROVE  UNCHANGED Promise!vars
<1>1. obj'.uid = obj.uid /\ obj'.gen = obj.gen /\ obj'.deleting = obj.deleting
        /\ UNCHANGED <<lives, last, created>>
  BY DEF Calm, StoreCalm, SameRun, Starts, Begin, SyncRun, Restart, store, jobVars, outside
<1> QED
  BY <1>1, PromiseKept

(* The defaults the finalizer's update fills in are an edit.               *)
LEMMA PromiseAdds ==
  ASSUME BaseInv, Adds
  PROVE  Promise!Edit \/ UNCHANGED Promise!vars
<1> USE DEF BaseInv
<1>1. /\ Exists(obj) /\ obj'.uid = obj.uid /\ obj'.deleting = obj.deleting
      /\ obj'.gen \in {obj.gen, obj.gen + 1}
      /\ UNCHANGED <<lives, last, created>>
  BY AddsFacts DEF Adds, jobVars, outside
<1>2. CASE obj'.gen = obj.gen
  BY <1>1, <1>2, PromiseKept
<1>3. CASE obj'.gen = obj.gen + 1
  BY <1>1, <1>3 DEF Promise!Edit, Promise!Absent, Exists
<1> QED
  BY <1>1, <1>2, <1>3

LEMMA PromiseApply ==
  ASSUME BaseInv, StartsApply
  PROVE  Promise!Apply
<1> USE DEF BaseInv
<1>1. PICK h \in Hashes : Store(buildJobName(BuildRunID(my.gen, h)))
  BY DEF StartsApply
<1> DEFINE name == buildJobName(BuildRunID(my.gen, h))
<1>2. pc = "jobs" /\ pc \in ApplySteps /\ UNCHANGED <<obj, lives>>
        /\ last' = [uid |-> my.uid, gen |-> my.gen, content |-> my.spec.hash]
  BY DEF StartsApply, ApplySteps, store, outside
<1>3. name # DestroyName
  BY <1>2, BusyTypes, RunIDTypes
<1> HIDE DEF name
<1>4. /\ created' = created \cup {<<my.uid, name>>}
      /\ last'.uid = my.uid /\ last'.gen = my.gen
  BY <1>1, <1>2 DEF Store, name
<1>5. /\ Exists(my) /\ my.uid = obj.uid /\ my.gen \in 1..obj.gen
      /\ <<my.uid, DestroyName>> \notin created
      /\ last.uid = my.uid => last.gen <= my.gen
  BY <1>2, ApplyFacts
<1>6. {u \in Uids : <<u, DestroyName>> \in created'}
        = {u \in Uids : <<u, DestroyName>> \in created}
  BY <1>3, <1>4
<1> QED
  BY <1>2, <1>4, <1>5, <1>6 DEF Promise!Apply, Promise!Absent, Exists

LEMMA PromiseDestroy ==
  ASSUME BaseInv, StartsDestroy
  PROVE  Promise!Destroy
<1> USE Numbers DEF BaseInv
<1>1. /\ pc \in DeletionSteps /\ pc # "idle"
      /\ UNCHANGED <<obj, lives, last>> /\ created' = created \cup {<<my.uid, DestroyName>>}
  BY DEF StartsDestroy, DeletionSteps, store, outside, Store
<1>2. my.uid \in 1..lives /\ my.uid \in Uids /\ my.deleting
  BY <1>1, BusyTypes DEF CoreInv, UidInv, FinalizerInv
<1>3. obj.uid = my.uid => obj.deleting
  BY <1>2 DEF CoreInv, CopyInv, Behind, Exists
<1>4. {u \in Uids : <<u, DestroyName>> \in created'}
        = {u \in Uids : <<u, DestroyName>> \in created} \cup {my.uid}
  BY <1>1, <1>2
<1> QED
  BY <1>1, <1>2, <1>3, <1>4 DEF Promise!Destroy

LEMMA PromiseRemove ==
  ASSUME BaseInv, Removes
  PROVE  Promise!Remove
<1> USE NoRunFacts DEF BaseInv
<1>1. obj.deleting /\ Exists(obj) /\ obj' = NoRun /\ UNCHANGED <<lives, last, created>>
  BY RemovesDeleted DEF Removes, jobVars, outside
<1>2. DestroyStarted
  BY DestroySeen DEF Removes, DeletionSteps
<1> QED
  BY <1>1, <1>2 DEF Promise!Remove, Promise!Absent, Exists, DestroyStarted

LEMMA PromiseUsers ==
  ASSUME BaseInv, UserDelete \/ \E spec \in Specs : UserCreate(spec) \/ UserEdit(spec)
  PROVE  Promise!Create \/ Promise!Edit \/ Promise!Delete \/ Promise!Remove
<1> USE NoRunFacts, Numbers DEF BaseInv
<1>1. UNCHANGED <<last, created>>
  BY UserFrame
<1>2. ASSUME NEW spec \in Specs, UserCreate(spec)
      PROVE  Promise!Create
  <2>1. obj = NoRun
    BY <1>2, UserRuns DEF CoreInv, AbsentInv
  <2> QED
    BY <1>1, <1>2, <2>1, UserRuns DEF Promise!Create, Promise!Absent
<1>3. ASSUME NEW spec \in Specs, UserEdit(spec)
      PROVE  Promise!Edit
  BY <1>1, <1>3, UserRuns DEF Promise!Edit, Promise!Absent, Exists
<1>4. CASE UserDelete /\ obj.finalizer
  <2>1. /\ Exists(obj) /\ obj.deleting = FALSE /\ lives' = lives
        /\ obj'.uid = obj.uid /\ obj'.gen = obj.gen + 1 /\ obj'.deleting = TRUE
    BY <1>4, UserRuns
  <2> DEFINE r == [uid |-> obj.uid, gen |-> obj.gen, deleting |-> obj.deleting]
             s == [uid |-> obj'.uid, gen |-> obj'.gen, deleting |-> obj'.deleting]
  <2>2. s = [r EXCEPT !.gen = @ + 1, !.deleting = TRUE]
    <3>1. obj.deleting \in BOOLEAN /\ obj'.deleting \in BOOLEAN
      BY <2>1, Zenon
    <3>2. obj.uid \in Nat /\ obj.gen \in Nat
      BY Numbers
    <3>3. obj.uid \in Nat /\ obj.gen \in Nat /\ obj.deleting \in BOOLEAN
            /\ obj'.uid \in Nat /\ obj'.gen \in Nat /\ obj'.deleting \in BOOLEAN
      BY <2>1, <3>1, <3>2
    <3>4. r \in [uid : Nat, gen : Nat, deleting : BOOLEAN]
      BY <3>3
    <3>5. s \in [uid : Nat, gen : Nat, deleting : BOOLEAN]
      BY <3>3
    <3>6. s.uid = r.uid /\ s.gen = r.gen + 1 /\ s.deleting = TRUE
      BY <2>1
    <3> HIDE DEF r, s
    <3> QED
      BY <3>4, <3>5, <3>6
  <2>3. r # Promise!Absent /\ ~r.deleting
    BY <2>1 DEF Promise!Absent, Exists
  <2> QED
    BY <1>1, <2>1, <2>2, <2>3 DEF Promise!Delete
<1>5. CASE UserDelete /\ ~obj.finalizer
  <2>1. last.uid # obj.uid
    BY <1>5, UserRuns DEF CoreInv, HistoryInv
  <2> QED
    BY <1>1, <1>5, <2>1, UserRuns DEF Promise!Remove, Promise!Absent, Exists
<1> QED
  BY <1>2, <1>3, <1>4, <1>5

(* The reconciler in its cluster implements TfRunPromise: applies come in  *)
(* the order of generations, none after a destroy job, and the object goes *)
(* only after a destroy job or before anything was applied for it.         *)
THEOREM Refinement == Spec => KeepsPromise
<1>1. Init => Promise!Init
  <2>1. Init => /\ lives = 0 /\ obj = NoRun /\ created = {}
                /\ last.uid = 0 /\ last.gen = 0
    BY DEF Init
  <2> QED
    BY <2>1, NoRunFacts DEF Promise!Init, Promise!Absent
<1>2. BaseInv /\ [Next]_vars => [Promise!Next]_(Promise!vars)
  BY StepKinds, PromiseQuiet, PromiseAdds, PromiseApply, PromiseDestroy, PromiseRemove, PromiseUsers
     DEF BaseInv, Kind, Promise!Next
<1> QED
  BY <1>1, <1>2, BaseInvariance, PTL DEF Spec, KeepsPromise, Promise!Spec
=============================================================================
