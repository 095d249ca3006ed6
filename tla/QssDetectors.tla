--------------------------- MODULE QssDetectors -----------------------------
(***************************************************************************)
(* hysteretic, whose output goes up when its input rises over the higher   *)
(* level and down when it falls below the lower one; and cross_detect,     *)
(* which sends an event whenever its input crosses the level.  Both keep   *)
(* the distance to the level they wait for, and the side they are on.      *)
(* compare does so with the difference of two inputs; its output is up     *)
(* while u0 > u1.                                                          *)
(***************************************************************************)
EXTENDS Trajectory

(* ud[0] and ud[1], here from 1; sw is the index of the level left behind. *)
HystereticInit(low, high) ==
  [ud |-> <<low, high>>, u |-> Zero, sw |-> IF low < 0 THEN 0 ELSE 1, sigma |-> 0]

Waited(b) == b.ud[2 - b.sw]   \* ud[1-sw]

HystereticDext(b, x, begun) ==
  LET u == Nudged([x EXCEPT !.v = @ - Waited(b)])
      wrong == (Above(u) /\ b.sw = 0) \/ (~Above(u) /\ b.sw = 1)
  IN [b EXCEPT !.u = u,
               !.sigma = IF wrong THEN 0
                         ELSE IF b.sigma > 0 \/ begun THEN minposroot(u) ELSE b.sigma]

(* lambda sends yd[1-sw], of which the index is kept. *)
HystereticOutput(b) == Signal(1 - b.sw, 0)

(* Slip: the level is changed to 0. *)
HystereticDintHalf(b) ==
  LET moved == advance_time(b.u, b.sigma)
      u == [moved EXCEPT !.v = @ + Waited(b)]
  IN [b EXCEPT !.u = u, !.sigma = minposroot(u), !.sw = 1 - b.sw]

HystereticDint(b) ==
  LET moved == advance_time(b.u, b.sigma)
      u == [moved EXCEPT !.v = @ + Waited(b) + Waited(b)]
  IN [b EXCEPT !.u = u, !.sigma = minposroot(u), !.sw = 1 - b.sw]

-----------------------------------------------------------------------------
(* y is the output, which port 1 of cross_detect_withDynamicOutput sets. *)
CrossInit(level, y) == [u |-> Zero, sw |-> 0, sigma |-> Inf, level |-> level, y |-> y]

OutputHeard(b, x, e) == [b EXCEPT !.y = x, !.sigma = Less(@, e)]

CrossDext(b, x) ==
  LET u == [x EXCEPT !.v = @ - b.level] IN
  IF (b.sw = 1 /\ u.v < 0) \/ (b.sw = -1 /\ u.v > 0)
  THEN [b EXCEPT !.u = u, !.sigma = 0]
  ELSE [b EXCEPT !.u = u, !.sigma = minposroot(u),
                 !.sw = IF b.sw # 0 THEN b.sw ELSE IF u.v > 0 THEN 1 ELSE -1]

(* Slip: the side is changed after u. *)
CrossDintSwapped(b) ==
  LET u == [b.u EXCEPT !.v = 0, !.tiny = b.sw]
  IN [b EXCEPT !.u = u, !.sw = -b.sw, !.sigma = minposroot(u)]

(* "to correct numerical errors": u is put next to the level, on the other *)
(* side, wherever it was.                                                  *)
CrossDint(b) ==
  LET u == [b.u EXCEPT !.v = 0, !.tiny = -b.sw]
  IN [b EXCEPT !.u = u, !.sw = -b.sw, !.sigma = minposroot(u)]

-----------------------------------------------------------------------------
(* soon tells a sigma of 1e-6, which is no time here, from one of 0. *)
CompareInit ==
  [u |-> [i \in 0 .. 1 |-> Zero], du |-> Zero, sw |-> "UNDEFINED",
   sigma |-> 0, soon |-> FALSE]

Difference(u) == Signal(u[0].v - u[1].v, u[0].s - u[1].s)

(* sw is the state that the next output will show. *)
CompareDext(b, port, x, e, begun) ==
  LET u == [i \in 0 .. 1 |-> IF i = port THEN x ELSE advance_time(b.u[i], e)]
      du == Nudged(Difference(u))
      wrong == (Above(du) /\ b.sw = "UP") \/ (~Above(du) /\ b.sw = "LOW")
  IN [b EXCEPT !.u = u, !.du = du, !.soon = FALSE,
               !.sigma = IF wrong THEN 0
                         ELSE IF b.sigma > 0 \/ b.soon \/ begun THEN minposroot(du) ELSE 0]

(* lambda: "at the very beginning we check were we are" *)
CompareLambda(b) ==
  IF b.sw # "UNDEFINED" THEN b
  ELSE [b EXCEPT !.sw = IF Above(b.du) THEN "UP" ELSE "LOW"]
CompareOutput(b) == Signal(IF CompareLambda(b).sw = "LOW" THEN 0 ELSE 1, 0)

(* Slip: the state is not changed at a crossing. *)
CompareDintSame(b) ==
  LET u == [i \in 0 .. 1 |-> advance_time(b.u[i], b.sigma)]
      du == Difference(u)
  IN [b EXCEPT !.u = u, !.du = du, !.sigma = minposroot(Nudged(du))]

(* "difference is too small and might cause many iterations": it is made   *)
(* 1e-6, of the sign of the state left behind.                             *)
CompareDint(b) ==
  LET u == [i \in 0 .. 1 |-> advance_time(b.u[i], b.sigma)]
      d == Difference(u)
      du == IF d.v # 0 THEN d ELSE [d EXCEPT !.tiny = IF b.sw = "LOW" THEN 1 ELSE -1]
  IN [b EXCEPT !.u = u, !.du = du, !.sigma = minposroot(du), !.soon = minposroot(du) = 0,
               !.sw = IF b.sw = "UP" THEN "LOW" ELSE "UP"]

=============================================================================
