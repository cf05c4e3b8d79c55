-------------------------- MODULE MCDeliveryWorker --------------------------
(* Small instances of DeliveryWorker for TLC: which channels each session   *)
(* has, named after the agents that have them.                              *)
EXTENDS DeliveryWorker

ClaudeReach == [t \in Targets |-> {"socket", "typed"}]
TypedReach  == [t \in Targets |-> {"typed"}]
=============================================================================
