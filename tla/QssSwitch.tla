----------------------------- MODULE QssSwitch ------------------------------
(***************************************************************************)
(* qss_switch, which sends u0 while its control u1 is above the level, and *)
(* u2 while it is not.  It plans its change of side for the instant in     *)
(* which the control crosses the level; sw is the side selected, change    *)
(* whether the internal transition planned changes it or sends the         *)
(* selected input again.  Its state is one record, of which dext, lambda   *)
(* and dint are functions.                                                 *)
(***************************************************************************)
EXTENDS Trajectory

SwitchInit(level) ==
  [u |-> [i \in 0 .. 2 |-> Zero], sw |-> IF level > 0 THEN 2 ELSE 0, level |-> level,
   change |-> FALSE, tcross |-> Inf, sigma |-> Inf]

(* The inputs not heard of move on; the one heard of is replaced. *)
Heard(b, port, x, e) ==
  [i \in 0 .. 2 |->
    IF i # port THEN advance_time(b.u[i], e)
    ELSE IF port = 1 THEN Nudged([x EXCEPT !.v = @ - b.level])
    ELSE x]

(* "we might be in the wrong position" *)
WrongSide(b, control) ==
  (Above(control) /\ b.sw = 2) \/ (~Above(control) /\ b.sw = 0)

(* Slip: an output scheduled for now is lost. *)
ControlHeardForgets(b, x, e) ==
  LET u == Heard(b, 1, x, e) tcross == minposroot(u[1]) IN
  [b EXCEPT !.u = u, !.tcross = tcross, !.change = TRUE,
            !.sigma = IF WrongSide(b, u[1]) THEN 0 ELSE tcross]

ControlHeard(b, x, e) ==
  LET u == Heard(b, 1, x, e) tcross == minposroot(u[1]) IN
  IF WrongSide(b, u[1]) THEN [b EXCEPT !.u = u, !.tcross = tcross, !.sigma = 0, !.change = TRUE]
  ELSE IF b.sigma # 0 THEN [b EXCEPT !.u = u, !.tcross = tcross, !.sigma = tcross, !.change = TRUE]
  ELSE [b EXCEPT !.u = u, !.tcross = tcross]

DataHeard(b, port, x, e) ==
  LET tcross == Less(b.tcross, e)
      selected == b.sw = port /\ e < b.sigma
  IN [b EXCEPT !.u = Heard(b, port, x, e), !.tcross = tcross, !.change = ~selected,
               !.sigma = IF selected \/ e >= b.sigma THEN 0 ELSE tcross]

SwitchDext(b, port, x, e) ==
  IF port = 1 THEN ControlHeard(b, x, e) ELSE DataHeard(b, port, x, e)

(* lambda brings the inputs to the present, and corrects a side that the   *)
(* control, farther than 1e-10 from the level, does not bear out.          *)
AtCrossing(b) == [i \in 0 .. 2 |-> advance_time(b.u[i], b.sigma)]
Side(b) ==
  LET far == AtCrossing(b)[1].v
      shown == IF b.change THEN 2 - b.sw ELSE b.sw
  IN IF far > 0 THEN (IF shown = 2 THEN 2 - b.sw ELSE b.sw)
     ELSE IF far < 0 THEN (IF shown = 0 THEN 2 - b.sw ELSE b.sw)
     ELSE b.sw
SwitchLambda(b) == [b EXCEPT !.u = AtCrossing(b), !.sw = Side(b)]
SwitchOutput(b) == LET c == SwitchLambda(b) IN c.u[IF b.change THEN 2 - c.sw ELSE c.sw]

SwitchDint(b) ==
  IF ~b.change THEN [b EXCEPT !.sigma = b.tcross, !.change = TRUE]
  ELSE IF b.sigma = 0 THEN [b EXCEPT !.sigma = b.tcross, !.sw = 2 - b.sw]
  ELSE LET control == Nudged([b.u[1] EXCEPT !.v = 0, !.tiny = 0]) IN
       [b EXCEPT !.u[1] = control, !.sigma = minposroot(control),
                 !.tcross = minposroot(control), !.sw = 2 - b.sw]

=============================================================================
