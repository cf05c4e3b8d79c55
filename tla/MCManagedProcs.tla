---------------------------- MODULE MCManagedProcs ----------------------------
(* Small instances of ManagedProcs for TLC.  Each names what may happen, and *)
(* how often; what it does not name does not happen.                       *)
EXTENDS ManagedProcs

Mishaps == [e \in Events |-> IF e = "any" THEN 3 ELSE 1]
Cancels == [e \in Events |-> IF e \in {"cancel", "any"} THEN 1 ELSE 0]
=============================================================================
