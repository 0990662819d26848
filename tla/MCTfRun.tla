------------------------------- MODULE MCTfRun -------------------------------
(* Values of TfRunSystem's constants for the model checker.                *)
EXTENDS TfRunClaims, TLC

CONSTANTS a, b, c, d    \* spec hashes

(* Environments and names of workspaces.                                   *)
At(env, name) == [env |-> env, name |-> name]

Prod == At("prod", "net")
Moved == At("dev", "net")
Default == At("my-org", "my-workspace")

AllPlaces == {Prod, Moved, Default}
KnownEnvironments == {"prod", "dev"}

(* What is in Scalr before the run: nothing; the workspace it imports;     *)
(* a workspace of somebody else.                                           *)
Nothing == <<>>
OneThere == <<Prod>>
Taken == <<Moved>>

SpecOf(h, interval, engine, backend, place) ==
  [hash |-> h, interval |-> interval, engine |-> engine, backend |-> backend,
   place |-> place]

In(h, place) == SpecOf(h, "none", "opentofu", "scalr", place)
Scalr(h) == In(h, Prod)
Periodic(h) == SpecOf(h, "valid", "opentofu", "scalr", Prod)
TooOften(h, place) == SpecOf(h, "short", "terraform", "scalr", place)
NoEngine(h) == SpecOf(h, "none", "none", "scalr", Prod)
Unsupported(h) == SpecOf(h, "none", "opentofu", "unsupported", Prod)
Local(h) == SpecOf(h, "none", "none", "none", NoPlace)

FourHashes == {a, b, c, d}
ThreeHashes == {a, b, c}
TwoHashes == {a, b}
OneHash == {a}

TwoModules == {Scalr(a), Scalr(b)}
OneModule == {Scalr(a)}
OneProvider == {Scalr(a), Unsupported(c)}
Schedules == {Scalr(a), Periodic(b)}
Moves == {Scalr(a), TooOften(b, Moved), Local(c)}
Bare == {NoEngine(a)}

(* The schema's defaults: opentofu, and a workspace in an environment that *)
(* is not there.                                                           *)
Filled == [s \in {NoEngine(a), Local(c)} |->
             IF s = Local(c) THEN In(d, Default) ELSE Scalr(a)]

(* Values of the TTL variables that are below the minimum.                 *)
Negative == -1

(* The two hashes are interchangeable where the specs are.                 *)
HashSymmetry == Permutations(TwoHashes)
=============================================================================
