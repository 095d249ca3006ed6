------------------------------- MODULE JobFarm -------------------------------
(* The jobs and the processors that the dispatcher and the servers share.  *)
EXTENDS Naturals

CONSTANTS Processors,   \* 0 .. n - 1
          Jobs,         \* numbered in the order in which they come
          NoJob

ASSUME FarmAssumption == 0 \in Processors /\ Jobs \subseteq Nat /\ NoJob \notin Jobs

=============================================================================
