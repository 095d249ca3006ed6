---------------------------- MODULE BoundedFifo ----------------------------
(***************************************************************************)
(* What a bounded queue before a server and a line promises: it refuses a  *)
(* packet exactly when it does not fit beside those that wait, and all     *)
(* others leave once, in the order in which they came.                     *)
(***************************************************************************)
EXTENDS Naturals, Sequences

CONSTANTS Packets, Length, MaxCapacity

VARIABLES byNumber,   \* the capacity is a number of packets
          waiting,    \* in the queue
          ahead,      \* on the way after it
          refused

vars == <<byNumber, waiting, ahead, refused>>

Weight(p) == IF byNumber THEN 1 ELSE Length[p]
Size      ==
  LET upTo[n \in 0 .. Len(waiting)] ==
        IF n = 0 THEN 0 ELSE upTo[n - 1] + Weight(waiting[n])
  IN  upTo[Len(waiting)]

Init == byNumber \in BOOLEAN /\ waiting = <<>> /\ ahead = <<>> /\ refused = {}

Accept(p) ==
  /\ Size + Weight(p) <= MaxCapacity
  /\ waiting' = Append(waiting, p)
  /\ UNCHANGED <<byNumber, ahead, refused>>

Refuse(p) ==
  /\ Size + Weight(p) > MaxCapacity
  /\ refused' = refused \union {p}
  /\ UNCHANGED <<byNumber, waiting, ahead>>

Serve ==
  /\ waiting # <<>>
  /\ waiting' = Tail(waiting) /\ ahead' = Append(ahead, Head(waiting))
  /\ UNCHANGED <<byNumber, refused>>

Deliver ==
  /\ ahead # <<>>
  /\ ahead' = Tail(ahead)
  /\ UNCHANGED <<byNumber, waiting, refused>>

Next == \/ \E p \in Packets : Accept(p) \/ Refuse(p)
        \/ Serve \/ Deliver

Spec == Init /\ [][Next]_vars

=============================================================================
