---------------------------- MODULE MCDispatcher ----------------------------
(* Instances of Dispatcher for TLC: two processors, with the same and with *)
(* different capacities.                                                   *)
EXTENDS Dispatcher
MCCapacities == {[p \in Processors |-> 1], [p \in Processors |-> 1 + p]}
=============================================================================
