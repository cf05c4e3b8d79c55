---------------------------- MODULE MCSpawnQueue ----------------------------
(* Small instances of SpawnQueue for TLC.  Each names what may happen, and  *)
(* how often; what it does not name does not happen.                       *)
EXTENDS SpawnQueue, TLC

Upto(n, kinds) == [e \in Events |-> IF e = "any" THEN n ELSE IF e \in kinds THEN 1 ELSE 0]

Troubled == Upto(2, Events \ {"load"})
Loaded   == [Upto(3, {"busy"}) EXCEPT !["load"] = 3]

Symmetry == Permutations(Dispatches) \cup Permutations(Workers)
=============================================================================
