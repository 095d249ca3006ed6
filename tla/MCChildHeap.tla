---------------------------- MODULE MCChildHeap -----------------------------
(***************************************************************************)
(* ChildHeap for TLC.  Five children make a tree with three levels of      *)
(* matches and padding on two of its rows; three times make ties common.   *)
(***************************************************************************)
EXTENDS ChildHeap, FiniteSets

(* Depth really is ceil(log2(Size)). *)
ASSUME Size <= 2 ^ Depth /\ (Depth > 0 => 2 ^ (Depth - 1) < Size)

=============================================================================
