----------------------------- MODULE Trajectory -----------------------------
(***************************************************************************)
(* What the quantized models share (qsstools): signals that are pieces of  *)
(* lines, v + s * t, as QSS of the first order has them, with when they    *)
(* come to zero.  Values and times are whole, slopes are -1, 0 and 1, so   *)
(* that no division is rounded.  The models step off a value that is just  *)
(* zero with advance_time(u, 1e-20): too little to change any other value  *)
(* and any time, so that a signal keeps at zero the side, tiny, it was     *)
(* moved to.                                                               *)
(***************************************************************************)
EXTENDS Integers

CONSTANT Inf   \* qsstools' INF

ASSUME InfAssumption == Inf \in Nat \ {0}

Slopes == -1 .. 1
Signal(v, s) == [v |-> v, s |-> s, tiny |-> 0]
Zero == Signal(0, 0)

(* advance_time of the first order. *)
advance_time(u, dt) ==
  IF u.s = 0 THEN u ELSE [u EXCEPT !.v = @ + dt * u.s, !.tiny = IF dt = 0 THEN @ ELSE 0]

(* advance_time(u, 1e-20): u leaves zero the way it goes. *)
Nudged(u) == IF u.v = 0 THEN [u EXCEPT !.tiny = u.s] ELSE u

Above(u) == u.v > 0 \/ (u.v = 0 /\ u.tiny = 1)
Below(u) == u.v < 0 \/ (u.v = 0 /\ u.tiny = -1)

(* The time to the next zero: none for a signal that a nudge took off zero *)
(* along its slope, at once for any other that moves and is zero.          *)
minposroot(u) ==
  IF u.s = 0 \/ u.v * u.s > 0 \/ (u.v = 0 /\ u.tiny = u.s)
  THEN Inf ELSE -(u.v * u.s)

(* sigma - e. *)
Less(sigma, e) == IF sigma = Inf THEN Inf ELSE sigma - e
Sooner(a, b) == IF a < b THEN a ELSE b
Distance(a, b) == IF a > b THEN a - b ELSE b - a

=============================================================================
