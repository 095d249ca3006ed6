------------------------------ MODULE MinChild ------------------------------
(***************************************************************************)
(* What a Coupling asks of its ChildHeap (src/engine/common/coupling.cpp): *)
(* next() names a child with the smallest recorded time of next            *)
(* transition, and the one with the smallest index among those.  Nothing   *)
(* is said here of how the answer is found.                                *)
(*                                                                         *)
(*   tn[c]   D[c]->tn, changed by the messages the coupling sends          *)
(*   key[c]  the time of child c that the heap has recorded                *)
(*   next    what next() returns; meaningful while no update is under way  *)
(***************************************************************************)
EXTENDS Integers

CONSTANTS Size,    \* number of children (Dsize)
          Times    \* the times a child may have

Children == 0 .. Size - 1

VARIABLES tn, key, next, busy

minVars == <<tn, key, next, busy>>

(* c precedes d in the order that selects the next child. *)
Precedes(k, c, d) == k[c] < k[d] \/ (k[c] = k[d] /\ c <= d)

IsFirst(k, c) == \A d \in Children : Precedes(k, c, d)

MinInit ==
  /\ tn \in [Children -> Times]
  /\ key = tn
  /\ next \in Children /\ IsFirst(key, next)
  /\ busy = FALSE

(* A message gives child c a new time; the heap does not know it yet. *)
ChildMoves(c) ==
  /\ ~busy
  /\ \E v \in Times : tn' = [tn EXCEPT ![c] = v]
  /\ UNCHANGED <<key, next, busy>>

(* update(c) records the time of c ... *)
Record(c) ==
  /\ ~busy
  /\ key' = [key EXCEPT ![c] = tn[c]]
  /\ busy' = TRUE
  /\ UNCHANGED <<tn, next>>

(* ... and returns once next() answers for the recorded times. *)
Settle ==
  /\ busy
  /\ next' \in Children /\ IsFirst(key, next')
  /\ busy' = FALSE
  /\ UNCHANGED <<tn, key>>

(* With one child there is nothing to play: update(c) is a single step. *)
RecordOnly(c) ==
  /\ ~busy
  /\ key' = [key EXCEPT ![c] = tn[c]]
  /\ next' \in Children /\ IsFirst(key', next')
  /\ UNCHANGED <<tn, busy>>

MinNext ==
  \/ \E c \in Children : ChildMoves(c) \/ Record(c) \/ RecordOnly(c)
  \/ Settle

MinSpec == MinInit /\ [][MinNext]_minVars

=============================================================================
