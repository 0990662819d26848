----------------------------- MODULE TfRunPromise -----------------------------
(***************************************************************************)
(* What the operator promises of a TfRun, without reconciles, informers,   *)
(* statuses or pods: the order in which the object of one name, the apply  *)
(* jobs and the destroy jobs started for it may come.                      *)
(***************************************************************************)
EXTENDS Integers

VARIABLES
  born,      \* how many incarnations of the object there have been
  run,       \* the object: its incarnation (0: none), generation, deletion
  started,   \* the incarnation and generation last applied
  torn       \* the incarnations a destroy job has been started for

vars == <<born, run, started, torn>>

Absent == [uid |-> 0, gen |-> 0, deleting |-> FALSE]

Init == born = 0 /\ run = Absent /\ started = [uid |-> 0, gen |-> 0] /\ torn = {}

Create ==
  /\ run = Absent
  /\ born' = born + 1
  /\ run' = [uid |-> born', gen |-> 1, deleting |-> FALSE]
  /\ UNCHANGED <<started, torn>>

Edit ==
  /\ run # Absent
  /\ run' = [run EXCEPT !.gen = @ + 1]
  /\ UNCHANGED <<born, started, torn>>

Delete ==
  /\ run # Absent /\ ~run.deleting
  /\ run' = [run EXCEPT !.gen = @ + 1, !.deleting = TRUE]
  /\ UNCHANGED <<born, started, torn>>

(* An apply job is started for the object that exists, for the generation  *)
(* last applied or a later one, and never once a destroy job was started.  *)
Apply ==
  /\ run # Absent /\ run.uid \notin torn
  /\ \E g \in 1..run.gen :
       /\ started.uid = run.uid => started.gen <= g
       /\ started' = [uid |-> run.uid, gen |-> g]
  /\ UNCHANGED <<born, run, torn>>

(* A destroy job is started for an incarnation that is not alive.          *)
Destroy ==
  /\ \E u \in 1..born :
       /\ run.uid = u => run.deleting
       /\ torn' = torn \cup {u}
  /\ UNCHANGED <<born, run, started>>

(* The object goes after a destroy job was started, or when nothing was    *)
(* ever applied for it.                                                    *)
Remove ==
  /\ run # Absent
  /\ \/ run.deleting /\ torn # {}
     \/ ~run.deleting /\ started.uid # run.uid
  /\ run' = Absent
  /\ UNCHANGED <<born, started, torn>>

Next == Create \/ Edit \/ Delete \/ Apply \/ Destroy \/ Remove

Spec == Init /\ [][Next]_vars
=============================================================================
