--------------------------- MODULE QssIntegrator ----------------------------
(***************************************************************************)
(* qss, the integrator of the first order: it sends its state X when X     *)
(* leaves the value q it sent last by the quantum dQ, and plans that       *)
(* instant again with every derivative it is sent.  qss_bounded is qss     *)
(* with a state that stops at lowerBound.  The quantum is absolute         *)
(* (dQrel = 0).                                                            *)
(***************************************************************************)
EXTENDS Trajectory

lowerBound == 0

IntegratorInit(dQ, x, bounded) ==
  [X |-> Signal(x, 0), q |-> x, dQ |-> dQ, sigma |-> 0,
   bounded |-> bounded, atBound |-> FALSE]

(* Slip: only when X falls. *)
QuantumLeftBelow(X, q, dQ) ==
  IF Distance(X.v, q) > dQ THEN 0 ELSE minposroot(Signal(q - X.v - dQ, -X.s))

(* When X will be dQ away from q, or at once when it is farther. *)
QuantumLeft(X, q, dQ) ==
  IF Distance(X.v, q) > dQ THEN 0
  ELSE Sooner(minposroot(Signal(q - X.v - dQ, -X.s)), minposroot(Signal(q - X.v + dQ, -X.s)))

(* The bounded one: X seen from the bound, which it leaves the way it goes. *)
Boundary(X) == Nudged(Signal(X.v - lowerBound, X.s))

Stays(b, s) == b.bounded /\ b.atBound /\ s < 0

(* dext on port 0: a derivative. *)
DerivativeHeard(b, s, e) ==
  LET X == Signal(b.X.v + b.X.s * e, IF Stays(b, s) THEN 0 ELSE s)
      past == b.bounded /\ b.sigma > 0 /\ Below(Boundary(X))
  IN [b EXCEPT !.X = X,
               !.atBound = Stays(b, s) \/ past,
               !.sigma = IF b.sigma = 0 \/ past THEN 0
                         ELSE IF b.bounded THEN Sooner(QuantumLeft(X, b.q, b.dQ), minposroot(Boundary(X)))
                         ELSE QuantumLeft(X, b.q, b.dQ)]

(* dext on port 1: a new state; the derivative stays. *)
StateHeard(b, x) == [b EXCEPT !.X.v = x, !.sigma = 0]

IntegratorDext(b, port, x, e) ==
  IF port = 0 THEN DerivativeHeard(b, x.v, e) ELSE StateHeard(b, x.v)

IntegratorOutput(b) == Signal(b.X.v + b.X.s * b.sigma, 0)

IntegratorDint(b) ==
  LET x == b.X.v + b.X.s * b.sigma
      stop == b.bounded /\ x <= lowerBound
      X == Signal(x, IF stop THEN 0 ELSE b.X.s)
  IN [b EXCEPT !.X = X, !.q = x, !.atBound = @ \/ stop,
               !.sigma = IF X.s = 0 THEN Inf ELSE b.dQ]

=============================================================================
