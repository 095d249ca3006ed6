----------------------------- MODULE QssLevels ------------------------------
(***************************************************************************)
(* qss_saturation, which sends its input cut to xl .. xu; qss_quantizer,   *)
(* which sends the multiple of dQ below its input; and qss_signal_filter,  *)
(* which sends its input when it has come to differ by dQmin from what was *)
(* sent.  They plan the next level that the input comes to.  soon tells a  *)
(* sigma of 1e-3, or of the 1e-10 dQ by which a falling input has to pass  *)
(* its level, from one of 0.                                               *)
(***************************************************************************)
EXTENDS Trajectory

Since(u, level) == [u EXCEPT !.v = @ - level]

(* 1e-20 moves u off the level 0, and is lost beside any other number.     *)
Crossed(u, level) == IF level = 0 THEN Nudged(u) ELSE u

OnLevel(u, level) == u.v = level /\ u.tiny = 0

(* u at the end of sigma. *)
Moved(b) == IF b.soon THEN [b.u EXCEPT !.tiny = b.u.s] ELSE advance_time(b.u, b.sigma)

Planned(b) == b.sigma > 0 \/ b.soon

-----------------------------------------------------------------------------
SaturationInit(xl, xu) ==
  [u |-> Zero, xl |-> xl, xu |-> xu, sigma |-> 0, soon |-> FALSE,
   sw |-> IF xl > 0 THEN -1 ELSE IF xu < 0 THEN 1 ELSE 0]

(* From outside the limits: the way back over the level nearby. *)
Outside(b, u) ==
  LET level == IF b.sw = -1 THEN b.xl ELSE b.xu
      v == Crossed(u, level)
      left == IF b.sw = -1 THEN Above(Since(v, level)) ELSE Below(Since(v, level))
  IN [b EXCEPT !.u = v, !.soon = FALSE,
               !.sigma = IF left THEN 0 ELSE minposroot(Since(v, level))]

SaturationDext(b, x) ==
  IF b.sw = 0 THEN [b EXCEPT !.u = x, !.sigma = 0, !.soon = FALSE] ELSE Outside(b, x)

(* lambda and dint agree on where u is: by the change that was planned, or *)
(* by the value.                                                           *)
Zone(b, u) ==
  IF Planned(b) THEN IF b.sw # 0 THEN 0 ELSE IF 2 * u.v > b.xl + b.xu THEN 1 ELSE -1
  ELSE IF ~Above(Since(u, b.xl)) THEN -1 ELSE IF ~Below(Since(u, b.xu)) THEN 1 ELSE 0

SaturationOutput(b) ==
  CASE Zone(b, Moved(b)) = -1 -> Signal(b.xl, 0)
    [] Zone(b, Moved(b)) = 1  -> Signal(b.xu, 0)
    [] OTHER                  -> Moved(b)

Inside(b, u) ==
  LET v == Crossed(Crossed(u, b.xl), b.xu) IN
  [b EXCEPT !.u = v, !.soon = FALSE,
            !.sigma = IF Below(Since(v, b.xl)) \/ Above(Since(v, b.xu)) THEN 0
                      ELSE Sooner(minposroot(Since(v, b.xl)), minposroot(Since(v, b.xu)))]

(* "in such case we would cycle indefinitely": an input on the level that  *)
(* moves is looked at again 1e-3 later.                                    *)
Workaround(b) ==
  [b EXCEPT !.soon = b.sigma = 0 /\ OnLevel(b.u, IF b.sw = -1 THEN b.xl ELSE b.xu)]

(* Slip: without the workaround. *)
SaturationDintCycles(b) ==
  LET c == [b EXCEPT !.sw = Zone(b, Moved(b))]
  IN IF c.sw = 0 THEN Inside(c, Moved(b)) ELSE Outside(c, Moved(b))

SaturationDint(b) ==
  LET c == [b EXCEPT !.sw = Zone(b, Moved(b))]
  IN IF c.sw = 0 THEN Inside(c, Moved(b)) ELSE Workaround(Outside(c, Moved(b)))

-----------------------------------------------------------------------------
(* eps is dQ with hysteresis, else too little to count. *)
QuantizerInit(dQ, eps) ==
  [u |-> Zero, dQ |-> dQ, eps |-> eps, q |-> 0, sigma |-> 0, soon |-> FALSE]

(* A falling input ends sigma below its level. *)
Arrived(b) ==
  LET u == advance_time(b.u, b.sigma) IN
  IF Planned(b) /\ b.eps = 0 /\ u.s < 0 THEN [u EXCEPT !.tiny = -1] ELSE u

(* "we compute next crossing time": of u with q + dQ and with q - eps. *)
UpperCrossing(b, u) == minposroot(Since(u, b.q + b.dQ))
LowerCrossing(b, u) ==
  LET d == Since(u, b.q - b.eps) IN
  minposroot(IF b.eps = 0 /\ OnLevel(u, b.q) THEN [d EXCEPT !.tiny = 1] ELSE d)

WrongLevel(b, u) == ~Below(Since(u, b.q + b.dQ)) \/ u.v < b.q - b.eps

PlanLevel(b, u) ==
  LET next == Sooner(UpperCrossing(b, u), LowerCrossing(b, u)) IN
  [b EXCEPT !.u = u, !.sigma = IF WrongLevel(b, u) THEN 0 ELSE next,
            !.soon = ~WrongLevel(b, u) /\ next = 0 /\ b.eps = 0]

QuantizerDext(b, x) == PlanLevel(b, x)

NextLevel(b) ==
  IF ~Planned(b) THEN b.dQ * (b.u.v \div b.dQ)
  ELSE IF 2 * (Arrived(b).v - b.q) > b.dQ THEN b.q + b.dQ ELSE b.q - b.dQ

QuantizerOutput(b) == Signal(NextLevel(b), 0)
QuantizerDint(b) == PlanLevel([b EXCEPT !.q = NextLevel(b)], Arrived(b))

-----------------------------------------------------------------------------
FilterInit(dQmin) == [u |-> Zero, y |-> Zero, tol |-> dQmin, sigma |-> Inf]

FilterDext(b, x, e) ==
  LET y == advance_time(b.y, e)
      diff(d) == Signal(x.v - y.v + d, x.s - y.s)
  IN [b EXCEPT !.u = x, !.y = y,
        !.sigma = IF x.v >= y.v + b.tol \/ x.v < y.v - b.tol THEN 0
                  ELSE Sooner(minposroot(diff(b.tol)), minposroot(diff(-b.tol)))]

FilterOutput(b) == advance_time(b.u, b.sigma)
FilterDint(b) == [b EXCEPT !.u = FilterOutput(b), !.y = FilterOutput(b), !.sigma = Inf]

=============================================================================
