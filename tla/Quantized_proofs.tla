-------------------------- MODULE Quantized_proofs --------------------------
(***************************************************************************)
(* Proofs about the quantized blocks, for every quantum, level, band and   *)
(* bound of the signals that QuantizedAssumption allows.  A block keeps    *)
(* its input as of its last transition, and a time until which it means to *)
(* do nothing; what the properties say is about the input now.  So each    *)
(* block has an invariant that ties the two together: what it has planned  *)
(* is when its input, moving as it does, comes to the next level, and      *)
(* until then it is on the side of that level that the output says.        *)
(*                                                                         *)
(* For each block: the lemmas on the operators that make its plan, one     *)
(* lemma per action, and the property from the invariant.  The theorems    *)
(* are at the end.                                                         *)
(***************************************************************************)
EXTENDS Quantized, TLAPS

(* What a trajectory is: its value, its slope and, next to a level, the    *)
(* side it is on.                                                          *)
Signals == [v : Int, s : Slopes, tiny : -1 .. 1]

(* A line through v of slope s, t later. *)
At(v, s, t) == IF s = 0 THEN v ELSE IF s = 1 THEN v + t ELSE v - t

(* The times that are planned: within twice MaxV, or never. *)
Sigmas == 0 .. 2 * MaxV \cup {Inf}

(* Types: the signals are lines through V, the time since the last         *)
(* transition is cut off.                                                  *)
TypeOK ==
  /\ e \in 0 .. 2 * MaxV
  /\ truth \in [0 .. 2 -> Signals] /\ out \in Signals
  /\ \A i \in 0 .. 2 : truth[i].v \in V
  /\ begun \in BOOLEAN /\ heard \in BOOLEAN /\ astray \in BOOLEAN

(* At most one transition at an instant: it plans a later one. *)
OnlyOnce == turns = 0 \/ (turns = 1 /\ e = 0 /\ block.sigma > 0)

-----------------------------------------------------------------------------
(* cross_detect and cross_detect_withDynamicOutput: how far the input is   *)
(* from the level, and that distance seen from the side the detector is    *)
(* on.                                                                     *)
Detectors == [u : Signals, sw : -1 .. 1, sigma : Sigmas, level : V, y : Signals]

Gap == truth[0].v - block.level
SideNow(d) == IF block.sw = 1 THEN d ELSE 0 - d

(* Before any input nothing is planned. *)
Unheard == block.u = Zero /\ block.sw = 0 /\ block.sigma = Inf
(* The input comes to the level at the end of sigma; it has left the       *)
(* level, and is due at once; or it goes away from it.                     *)
Toward  == block.sigma # Inf /\ SideNow(Gap) = block.sigma - e
           /\ (Gap = 0 \/ SideNow(truth[0].s) = -1)
Across  == block.sigma = e /\ SideNow(Gap) < 0 /\ SideNow(truth[0].s) <= 0
Away    == block.sigma = Inf /\ SideNow(Gap) >= 0 /\ SideNow(truth[0].s) >= 0

(* A detector plans the instant its input reaches the level from the side  *)
(* it knows it on, and knows the slope. At a crossing it puts its input on *)
(* the other side of the level, and looks once more.                       *)
DetectorInv ==
  Detects =>
    /\ \/ turns = 0
       \/ turns \in {1, 2} /\ e = 0 /\ block.sigma > 0
       \/ turns = 1 /\ block.u.v = 0 /\ block.u.tiny = block.sw /\ block.u.s = -block.sw
    /\ block \in Detectors /\ e <= block.sigma
    /\ ~heard => Unheard
    /\ heard => block.sw # 0 /\ block.u.s = truth[0].s
    /\ heard /\ ~astray => Toward \/ Across \/ Away

-----------------------------------------------------------------------------
(* qss_signal_filter: how far its input was from its output at the last    *)
(* transition.                                                             *)
Filters == [u : Signals, y : Signals, tol : Quanta, sigma : Sigmas]

Drift == block.u.v - block.y.v

(* A filter plans the instant at which its input and its last output, both *)
(* moving, come to differ by tol.                                          *)
FilterInv ==
  kind = "qss_signal_filter" =>
    /\ OnlyOnce
    /\ block \in Filters /\ e <= block.sigma /\ block.u.v \in V
    /\ truth[0].s = block.u.s /\ truth[0].v = At(block.u.v, block.u.s, e)
    /\ out.s = block.y.s /\ out.v = At(block.y.v, block.y.s, e)
    /\ \/ block.sigma = 0
       \/ /\ Drift \in -block.tol .. block.tol
          /\ \/ block.u.s = block.y.s /\ block.sigma = Inf
             \/ block.u.s = block.y.s + 1 /\ block.sigma = block.tol - Drift
             \/ block.u.s = block.y.s - 1 /\ block.sigma = block.tol + Drift

-----------------------------------------------------------------------------
(* qss and qss_bounded. *)
Integrators ==
  [X : Signals, q : Int, dQ : Quanta, sigma : Sigmas, bounded : BOOLEAN, atBound : BOOLEAN]

(* The state e after the last transition, and cut to the bound. *)
Now == At(block.X.v, block.X.s, e)
Bounded(x) == IF block.bounded /\ x < 0 THEN 0 ELSE x

(* The plan: an integrator is due before its state has left the last       *)
(* output by a quantum.                                                    *)
InPlan ==
  \/ block.sigma = 0
  \/ /\ block.X.s = 0 => block.sigma = Inf /\ Distance(block.X.v, block.q) <= block.dQ
     /\ block.X.s = 1 =>  block.sigma <= block.q + block.dQ - block.X.v
                          /\ block.q - block.dQ <= block.X.v
     /\ block.X.s = -1 => block.sigma <= block.X.v - block.q + block.dQ
                          /\ block.X.v <= block.q + block.dQ

(* A bounded integrator has a state and an output above minus one quantum, *)
(* and does not move below that before it is due.                          *)
LowestX ==
  block.bounded =>
    /\ -block.dQ <= block.q /\ -block.dQ <= block.X.v
    /\ block.X.s = -1 => -block.dQ <= block.X.v - block.sigma
    /\ block.X.s = 1 /\ block.X.v < 0 => block.sigma = 0

(* The block's state and the integral agree, but for a derivative that the *)
(* bound takes away; what it has sent last is q unless it is due at once.  *)
IntegratorInv ==
  Integrates =>
    /\ OnlyOnce
    /\ block \in Integrators /\ e <= block.sigma
    /\ block.bounded = (kind = "qss_bounded")
    /\ ~block.bounded => ~block.atBound /\ ~astray
    /\ out.s = 0 /\ (out.v = block.q \/ block.sigma = 0)
    /\ InPlan /\ LowestX
    /\ block.bounded => truth[1].v >= 0
    /\ block.X.s = 0 => block.sigma \in {0, Inf}
    /\ ~block.atBound => truth[1].s = block.X.s
    /\ ~astray =>
         /\ truth[1].v = Bounded(Now)
         /\ block.atBound => Now <= 0 /\ (block.X.s = 1 => block.sigma = 0)
         /\ truth[1].s = block.X.s \/ (block.X.s = 0 /\ truth[1].s = -1)

-----------------------------------------------------------------------------
(* hysteretic: how far the input is past the level it waits for, and that  *)
(* distance seen from the side its output is on.                           *)
Hysteretics == [ud : {<<band[1], band[2]>> : band \in Bands}, u : Signals, sw : {0, 1}, sigma : Nat]

Past == truth[0].v - Waited(block)
Turned(d) == IF block.sw = 0 THEN 0 - d ELSE d

(* Before its first output it is due at once; else it plans the instant    *)
(* its input comes to the level, is beyond it and due at once, or goes     *)
(* away from it.                                                           *)
First == ~begun /\ block.sigma = 0 /\ e = 0
Nears == /\ block.sigma \in 0 .. 2 * MaxV /\ Turned(Past) = block.sigma - e
         /\ Past = At(block.u.v, block.u.s, e)
         /\ Past # 0 => Turned(truth[0].s) = -1
Beyond == /\ block.sigma = 0 /\ e = 0 /\ Turned(Past) <= 0
          /\ Past = At(block.u.v, block.u.s, e)
Leaves == block.sigma = Inf /\ Turned(Past) >= 0 /\ Turned(truth[0].s) >= 0

(* At most three transitions at an instant: after one that leaves its      *)
(* input on the level, the next adds twice the level it waits for, which   *)
(* takes it off the level unless that is 0; and two levels are not both 0. *)
TurnsOfHysteresis ==
  \/ turns = 0
  \/ /\ e = 0 /\ turns \in 1 .. 3
     /\ block.sigma = 0 => block.u.v = 0 /\ turns <= (IF Waited(block) = 0 THEN 1 ELSE 2)

(* A hysteresis that has heard of its input is in one of the four, and its *)
(* last output is sw unless the first is still to be sent.                 *)
HystereticInv ==
  kind = "hysteretic" =>
    /\ block \in Hysteretics /\ e <= block.sigma
    /\ ~heard => block.u.s = 0
    /\ out.s = 0 /\ (out.v = block.sw \/ First)
    /\ TurnsOfHysteresis
    /\ heard /\ ~astray =>
         /\ block.u.s = truth[0].s
         /\ First \/ Nears \/ Beyond \/ Leaves

-----------------------------------------------------------------------------
(* compare: by how much the first input is ahead, how that changes, and    *)
(* both seen from the side the block shows.                                *)
Comparers ==
  [u : [0 .. 1 -> Signals], du : Signals, sw : {"UNDEFINED", "LOW", "UP"},
   sigma : Sigmas, soon : BOOLEAN]

(* By how much the first input is ahead, and how fast that changes. *)
Lead == truth[0].v - truth[1].v
LeadSlope == truth[0].s - truth[1].s
(* A lead, seen from the side the block shows. *)
Shown(d) == IF block.sw = "LOW" THEN d ELSE 0 - d

(* Before its first output it is due at once; else it plans the instant    *)
(* the lead is over, shows the wrong side and is due at once, or has a     *)
(* lead that grows.                                                        *)
Opening == ~begun /\ block.sigma = 0 /\ ~block.soon /\ e = 0
Closes == /\ block.sigma # Inf /\ Shown(Lead) = block.sigma - e
          /\ Lead # 0 => Shown(LeadSlope) = -1
Wrong  == block.sigma = 0 /\ e = 0 /\ Shown(Lead) <= 0
Opens  == block.sigma = Inf /\ Shown(Lead) >= 0 /\ Shown(LeadSlope) >= 0

(* At most two transitions at an instant: the first that leaves no lead    *)
(* puts the difference on the side it has left, the second on the other.   *)
TurnsOfComparison ==
  \/ turns = 0
  \/ /\ e = 0 /\ turns \in 1 .. 2
     /\ block.sigma = 0 => /\ turns = 1 /\ block.du.v = 0 /\ block.sw # "UNDEFINED"
                           /\ block.du.s = (IF block.sw = "UP" THEN -1 ELSE 1)

(* The difference a comparison keeps is that of its inputs at its last     *)
(* transition; it is in one of the four unless it has gone astray.         *)
CompareInv ==
  kind = "compare" =>
    /\ block \in Comparers /\ e <= block.sigma
    /\ \A i \in 0 .. 1 : /\ block.u[i].s = truth[i].s /\ block.u[i].v \in V
                         /\ truth[i].v = At(block.u[i].v, block.u[i].s, e)
    /\ block.du.v = block.u[0].v - block.u[1].v
    /\ truth[0].s = 0 \/ truth[1].s = 0
    /\ block.du.s = LeadSlope
    /\ block.sw = "UNDEFINED" => Opening /\ (block.du.v = 0 => block.du.tiny = block.du.s)
    /\ out.s = 0 /\ (out.v = (IF block.sw = "LOW" THEN 1 ELSE 0) \/ Opening)
    /\ TurnsOfComparison
    /\ ~astray => Opening \/ Closes \/ Wrong \/ Opens

-----------------------------------------------------------------------------
(* qss_switch: how far the control is above the level, and the input that  *)
(* this selects.                                                           *)
Switches ==
  [u : [0 .. 2 -> Signals], sw : {0, 2}, level : V, change : BOOLEAN,
   tcross : Sigmas, sigma : Sigmas]

(* How far the control is above the level. *)
Control == truth[1].v - block.level
(* The input that the control selects; on the level, the one that it is    *)
(* about to select.                                                        *)
RightSide(sw) ==
  /\ Control > 0 \/ (Control = 0 /\ truth[1].s = 1) => sw = 0
  /\ Control < 0 \/ (Control = 0 /\ truth[1].s = -1) => sw = 2
(* How long a line through v of slope s takes to 0. *)
Root(v, s) == IF s = 0 \/ (v > 0 /\ s = 1) \/ (v < 0 /\ s = -1) THEN Inf
              ELSE IF v > 0 THEN v ELSE 0 - v

(* A switch is due at once after an input, off the level or on it; or it   *)
(* plans the crossing; or its control goes away from the level.            *)
OffLevel == block.sigma = 0 /\ Control # 0 /\ block.tcross = Root(Control, truth[1].s)
OnTheLevel == /\ block.sigma = 0 /\ Control = 0 /\ block.tcross = Inf
              /\ RightSide(IF block.change THEN 2 - block.sw ELSE block.sw)
Crossing == /\ block.sigma # 0 /\ block.change /\ block.sigma # Inf
            /\ block.sw = 0 => Control = block.sigma - e /\ truth[1].s = -1
            /\ block.sw = 2 => 0 - Control = block.sigma - e /\ truth[1].s = 1
Leaving == /\ block.sigma = Inf /\ block.change /\ RightSide(block.sw)
           /\ Control > 0 => truth[1].s >= 0
           /\ Control < 0 => truth[1].s <= 0

(* A switch sends the selected input, as it moves, unless it is due at     *)
(* once; tcross, the crossing, is planned again by whatever comes.         *)
SwitchInv ==
  kind = "qss_switch" =>
    /\ block \in Switches /\ e <= block.sigma
    /\ block.sigma \in {0, block.tcross} /\ (block.tcross = 0 => block.change)
    /\ OnlyOnce \/ Cycling
    /\ \A i \in {0, 2} : /\ block.u[i].s = truth[i].s /\ block.u[i].v \in V
                         /\ truth[i].v = At(block.u[i].v, block.u[i].s, e)
    /\ block.sigma = 0 \/ (out.v = truth[block.sw].v /\ out.s = truth[block.sw].s)
    /\ ~heard => block.tcross = Inf
    /\ heard /\ ~astray =>
         /\ block.u[1].s = truth[1].s /\ block.u[1].v + block.level \in V
         /\ Control = At(block.u[1].v, block.u[1].s, e)
         /\ OffLevel \/ OnTheLevel \/ Crossing \/ Leaving

-----------------------------------------------------------------------------
(* qss_saturation: the limit that is sent, and the input. *)
Saturations ==
  [u : Signals, xl : V, xu : V, sigma : Sigmas, soon : BOOLEAN, sw : -1 .. 1]

(* The limit that is sent. *)
Limit == IF block.sw = -1 THEN block.xl ELSE block.xu
(* The input of a saturation, a quantizer. *)
In == truth[0].v
(* Its first output, at time 0, is still to come. *)
Unsent == ~begun /\ block.sigma = 0 /\ e = 0 /\ ~block.soon

(* The transitions that follow at this instant: an input on a limit is     *)
(* looked at again, and then a little later.                               *)
Inward == (block.u.v = block.xl /\ block.u.s = 1) \/ (block.u.v = block.xu /\ block.u.s = -1)
SaturationRank ==
  IF block.sigma > 0 THEN 0
  ELSE IF block.soon THEN (IF Inward THEN 1 ELSE 2)
  ELSE IF block.u.v \notin {block.xl, block.xu} \/ block.u.s = 0 \/ block.u.tiny = block.u.s THEN 1
  ELSE IF Inward THEN 2 ELSE 3

(* A saturation sends a limit while its input is beyond it and plans the   *)
(* way back; inside it sends the input and plans the limit it comes to.    *)
(* The transitions of one instant and the rank of those to come are three  *)
(* at most.                                                                *)
SaturationInv ==
  kind = "qss_saturation" =>
    /\ turns = 0 \/ (turns \in 1 .. 3 /\ e = 0 /\ turns + SaturationRank <= 3)
    /\ block \in Saturations /\ e <= block.sigma /\ block.xl < block.xu
    /\ block.u.s = truth[0].s /\ block.u.tiny \in {0, block.u.s}
    /\ block.sigma # Inf => In = At(block.u.v, block.u.s, e)
    /\ block.soon => block.sigma = 0 /\ block.sw # 0 /\ OnLevel(block.u, Limit)
                     /\ block.u.s # 0
    /\ block.sw # 0 => (out.s = 0 /\ out.v = Limit) \/ astray \/ Unsent
    /\ block.sigma > 0 =>
         /\ block.sw = -1 =>
              IF block.sigma = Inf THEN In <= block.xl /\ truth[0].s <= 0
              ELSE block.xl - In = block.sigma - e /\ truth[0].s = 1
         /\ block.sw = 1 =>
              IF block.sigma = Inf THEN In >= block.xu /\ truth[0].s >= 0
              ELSE In - block.xu = block.sigma - e /\ truth[0].s = -1
         /\ block.sw = 0 =>
              /\ out.v = In /\ out.s = truth[0].s /\ block.xl <= In /\ In <= block.xu
              /\ truth[0].s = 0 <=> block.sigma = Inf
              /\ truth[0].s = 1 => block.sigma - e = block.xu - In
              /\ truth[0].s = -1 => block.sigma - e = In - block.xl

-----------------------------------------------------------------------------
(* qss_quantizer. *)
Quantizers ==
  [u : Signals, dQ : Quanta, eps : Nat, q : Int, sigma : Nat, soon : BOOLEAN]

(* A quantizer at rest has its input in the band of the level it has sent, *)
(* and plans the end it moves to. Only an input that falls may stand on    *)
(* the upper end, and only without hysteresis.                             *)
QuantizerInv ==
  kind = "qss_quantizer" =>
    /\ \/ turns = 0
       \/ turns \in {1, 2} /\ e = 0 /\ block.sigma > 0
       \/ turns = 1 /\ block.soon
    /\ block \in Quantizers /\ e <= block.sigma /\ block.eps \in {0, block.dQ}
    /\ block.u.s = truth[0].s /\ out.s = 0 /\ out.v = block.q
    /\ block.sigma # Inf => In = At(block.u.v, block.u.s, e) /\ block.sigma <= 2 * MaxV
    /\ block.u.tiny # 0 => block.u.tiny = -1 /\ block.u.s = -1 /\ block.sigma # 0
    /\ block.soon => block.sigma = 0 /\ block.eps = 0 /\ block.u.v = block.q /\ block.u.s = -1
    /\ block.sigma > 0 =>
         /\ truth[0].s = 0 <=> block.sigma = Inf
         /\ block.q - block.eps <= In /\ In <= block.q + block.dQ
         /\ truth[0].s # 1 /\ In = block.q + block.dQ => truth[0].s = -1 /\ block.eps = 0
         /\ truth[0].s = 1 => block.sigma - e = block.q + block.dQ - In
         /\ truth[0].s = -1 => block.sigma - e = In - (block.q - block.eps)

-----------------------------------------------------------------------------
(* What the assumptions give: bounds of values, quanta and times. *)
LEMMA Bounds ==
  /\ MaxV \in Nat /\ Inf \in Nat /\ 2 * MaxV < Inf
  /\ Data \subseteq V
  /\ \A v \in V : v \in Int /\ -MaxV <= v /\ v <= MaxV
  /\ \A s \in Slopes : s = -1 \/ s = 0 \/ s = 1
  /\ \A dQ \in Quanta : dQ \in Nat /\ 1 <= dQ /\ dQ <= MaxV
  /\ \A s \in Sigmas : s \in Nat /\ (s = Inf \/ s <= 2 * MaxV)
BY QuantizedAssumption, InfAssumption DEF V, Data, Slopes, Sigmas

(* Members of these sets, for provers that do not compute. *)
LEMMA Members == 0 \in Sigmas /\ Inf \in Sigmas /\ 0 \in V
BY Bounds DEF Sigmas, V

(* A signal put next to the level 0, on the side y. *)
LEMMA NextToZero ==
  ASSUME NEW u \in Signals, NEW y \in -1 .. 1
  PROVE  /\ [u EXCEPT !.v = 0, !.tiny = y] \in Signals
         /\ [u EXCEPT !.v = 0, !.tiny = y].v = 0
         /\ [u EXCEPT !.v = 0, !.tiny = y].s = u.s
         /\ [u EXCEPT !.v = 0, !.tiny = y].tiny = y
<1>1. PICK z \in Int : z = 0
  OBVIOUS
<1>2. /\ [u EXCEPT !.v = z, !.tiny = y] \in Signals
      /\ [u EXCEPT !.v = z, !.tiny = y].v = z
      /\ [u EXCEPT !.v = z, !.tiny = y].s = u.s
      /\ [u EXCEPT !.v = z, !.tiny = y].tiny = y
  BY DEF Signals
<1> QED
  BY <1>1, <1>2, Zenon

(* advance_time moves a signal along its slope, and takes it off its       *)
(* level.                                                                  *)
LEMMA Advanced ==
  ASSUME NEW u \in Signals, NEW t \in Nat
  PROVE  /\ advance_time(u, t) \in Signals
         /\ advance_time(u, t).s = u.s
         /\ advance_time(u, t).v = At(u.v, u.s, t)
         /\ t = 0 \/ u.s = 0 => advance_time(u, t) = u
         /\ t > 0 /\ u.s # 0 => advance_time(u, t).tiny = 0
<1> DEFINE w == u.v + t * u.s
           y == IF t = 0 THEN u.tiny ELSE 0
           z == [u EXCEPT !.v = w, !.tiny = y]
<1>1. u.v \in Int /\ u.s \in {-1, 0, 1} /\ u.tiny \in -1 .. 1
  BY DEF Signals, Slopes
<1>2. w \in Int /\ w = At(u.v, u.s, t)
  BY <1>1 DEF At
<1>3. y \in -1 .. 1 /\ (t = 0 => y = u.tiny) /\ (t > 0 => y = 0)
  BY <1>1
<1>4. advance_time(u, t) = IF u.s = 0 THEN u ELSE z
  BY DEF advance_time
<1> HIDE DEF w, y
<1>5. z \in Signals /\ z.v = w /\ z.s = u.s /\ z.tiny = y
  BY <1>2, <1>3 DEF Signals
<1>6. t = 0 => z = u
  <2>1. t = 0 => w = u.v /\ y = u.tiny
    BY <1>1, <1>3 DEF w
  <2> QED
    BY <2>1 DEF Signals
<1> HIDE DEF z
<1> QED
  BY <1>1, <1>2, <1>3, <1>4, <1>5, <1>6 DEF At

(* A signal that has moved for t is moved for one unit more. *)
LEMMA OneMore ==
  ASSUME NEW u \in Signals, NEW v \in Int, NEW t \in Nat, NEW t1 \in Nat,
         u.v = At(v, u.s, t), u.s = 0 \/ t1 = t + 1
  PROVE  /\ advance_time(u, 1) \in Signals
         /\ advance_time(u, 1).s = u.s
         /\ advance_time(u, 1).v = At(v, u.s, t1)
<1>1. u.s \in {-1, 0, 1} /\ u.v \in Int
  BY DEF Signals, Slopes
<1>2. advance_time(u, 1).s = u.s /\ advance_time(u, 1).v = At(u.v, u.s, 1)
      /\ advance_time(u, 1) \in Signals
  BY Advanced
<1> QED
  BY <1>1, <1>2 DEF At

(* minposroot is the time to 0, if the line comes there. *)
LEMMA RootOf ==
  ASSUME NEW u \in Signals
  PROVE  /\ minposroot(u) \in Nat
         /\ u.s = 0 => minposroot(u) = Inf
         /\ u.v > 0 /\ u.s = 1 => minposroot(u) = Inf
         /\ u.v < 0 /\ u.s = -1 => minposroot(u) = Inf
         /\ u.v = 0 /\ u.tiny = u.s => minposroot(u) = Inf
         /\ u.v > 0 /\ u.s = -1 => minposroot(u) = u.v
         /\ u.v < 0 /\ u.s = 1 => minposroot(u) = -u.v
         /\ u.v = 0 /\ u.s # 0 /\ u.tiny # u.s => minposroot(u) = 0
<1>1. CASE u.s = 0
  BY <1>1, InfAssumption DEF minposroot, Signals, Slopes
<1>2. CASE u.s = 1
  BY <1>2, InfAssumption DEF minposroot, Signals, Slopes
<1>3. CASE u.s = -1
  BY <1>3, InfAssumption DEF minposroot, Signals, Slopes
<1> QED
  BY <1>1, <1>2, <1>3 DEF Signals, Slopes

(* What Signal makes. *)
LEMMA ASignal ==
  ASSUME NEW v \in Int, NEW s \in Slopes
  PROVE  /\ Signal(v, s) \in Signals
         /\ Signal(v, s).v = v /\ Signal(v, s).s = s /\ Signal(v, s).tiny = 0
BY DEF Signal, Signals, Slopes

(* What Zero is. *)
LEMMA ZeroSignal == Zero \in Signals /\ Zero.v = 0 /\ Zero.s = 0 /\ Zero.tiny = 0
BY DEF Zero, Signal, Signals, Slopes

-----------------------------------------------------------------------------
(* One step of a filter, as a case of the next-state relation. *)
LEMMA FilterCases ==
  ASSUME kind = "qss_signal_filter", Next
  PROVE  \/ \E v \in V, s \in Slopes : LevelsHear(Signal(v, s))
         \/ LevelsSend \/ TimePasses
BY DEF Next, Input, Internal, SwitchHears, IntegratorHears, CompareHears, HystereticHears,
       CrossHears, OutputHears, SwitchSends, IntegratorSends, HystereticSends, CrossSends,
       CompareSends, Integrates, Detects

(* An input of a filter: the last output is moved to the same instant, and *)
(* the next difference of tol planned.                                     *)
LEMMA FilterHears ==
  ASSUME NEW v \in V, NEW s \in Slopes, TypeOK, FilterInv, kind = "qss_signal_filter",
         LevelsHear(Signal(v, s))
  PROVE  FilterInv'
<1> DEFINE x == Signal(v, s)
           y == advance_time(block.y, e)
           d == v - y.v
<1>1. /\ Distance(s, out.s) <= 1 /\ turns' = 0
      /\ block' = FilterDext(block, x, e) /\ e' = 0
      /\ truth' = [truth EXCEPT ![0] = x] /\ kind' = kind /\ out' = out
  BY ASignal, QuantizedAssumption DEF LevelsHear, Hears, V
<1>2. /\ x \in Signals /\ x.v = v /\ x.s = s /\ x.tiny = 0
      /\ v \in Int /\ e \in Nat /\ block.y \in Signals
      /\ block \in Filters /\ block.sigma \in Nat
  BY Bounds, ASignal DEF FilterInv, Filters, TypeOK
<1>3. y \in Signals /\ y.s = out.s /\ y.v = out.v
  BY <1>2, Advanced DEF FilterInv
<1> DEFINE tol == block.tol
           ds  == s - y.s
           lo  == minposroot(Signal(d + tol, ds))
           hi  == minposroot(Signal(d - tol, ds))
           far == v >= y.v + tol \/ v < y.v - tol
           sg  == IF far THEN 0 ELSE Sooner(lo, hi)
<1>4. block' = [block EXCEPT !.u = x, !.y = y, !.sigma = sg]
  BY <1>1, <1>2, <1>3 DEF FilterDext
<1>5. /\ tol \in Int /\ 1 <= tol /\ tol <= MaxV /\ tol \in Quanta
      /\ y.v \in Int /\ y.s \in Int /\ d \in Int /\ ds \in Slopes
      /\ s = y.s + ds
  <2>1. tol \in Quanta
    BY <1>2 DEF Filters
  <2>2. y.v \in Int /\ y.s \in Slopes
    BY <1>3 DEF Signals
  <2>3. s \in {-1, 0, 1} /\ y.s \in {-1, 0, 1}
    BY <2>2 DEF Slopes
  <2>4. ds \in {-1, 0, 1} /\ s = y.s + ds
    BY <2>3, <1>1, <1>3 DEF Distance
  <2> QED
    BY <2>1, <2>2, <2>3, <2>4, <1>2, Bounds DEF Slopes
<1>6. ~far => d \in -tol .. tol - 1
  BY <1>2, <1>3, <1>5
<1>7. ~far => /\ sg \in Sigmas
              /\ \/ ds = 0 /\ sg = Inf
                 \/ ds = 1 /\ (sg = 0 \/ sg = tol - d)
                 \/ ds = -1 /\ (sg = 0 \/ sg = tol + d)
  <2> SUFFICES ASSUME ~far
               PROVE  /\ sg \in Sigmas
                      /\ \/ ds = 0 /\ sg = Inf
                         \/ ds = 1 /\ (sg = 0 \/ sg = tol - d)
                         \/ ds = -1 /\ (sg = 0 \/ sg = tol + d)
    OBVIOUS
  <2> DEFINE a == Signal(d + tol, ds)
             b == Signal(d - tol, ds)
  <2>1. /\ a \in Signals /\ a.v = d + tol /\ a.s = ds /\ a.tiny = 0
        /\ b \in Signals /\ b.v = d - tol /\ b.s = ds /\ b.tiny = 0
    BY <1>5, ASignal
  <2> HIDE DEF a, b, d, ds, far, tol
  <2>2. ds = 0 => lo = Inf /\ hi = Inf
    BY <2>1, RootOf DEF a, b
  <2>3. ds = 1 => hi = tol - d /\ (lo = 0 \/ lo = Inf)
    BY <2>1, RootOf, <1>5, <1>6 DEF a, b
  <2>4. ds = -1 => lo = tol + d /\ hi = Inf
    BY <2>1, RootOf, <1>5, <1>6 DEF a, b
  <2> QED
    BY <2>2, <2>3, <2>4, <1>5, <1>6, Bounds DEF Sooner, Sigmas, Slopes
<1>8. sg \in Sigmas
  BY <1>7, Bounds DEF Sigmas
<1> HIDE DEF sg, tol, x, y, d, ds
<1>9. /\ block' \in Filters /\ block'.u = x /\ block'.y = y /\ block'.sigma = sg
      /\ block'.tol = tol
  BY <1>2, <1>3, <1>4, <1>8 DEF Filters, tol
<1>10. truth'[0] = x
  BY <1>1 DEF TypeOK
<1> HIDE DEF far
<1>11. block'.sigma = 0 \/ ~far
  BY <1>9 DEF sg
<1>12. \/ block'.sigma = 0
       \/ /\ Drift' \in -tol .. tol
          /\ \/ s = y.s /\ sg = Inf
             \/ s = y.s + 1 /\ sg = tol - Drift'
             \/ s = y.s - 1 /\ sg = tol + Drift'
  BY <1>2, <1>5, <1>6, <1>7, <1>9, <1>11 DEF Drift, d
<1>13. /\ truth'[0].s = block'.u.s /\ truth'[0].v = At(block'.u.v, block'.u.s, e')
       /\ out'.s = block'.y.s /\ out'.v = At(block'.y.v, block'.y.s, e')
  BY <1>1, <1>2, <1>3, <1>5, <1>9, <1>10 DEF At
<1>14. e' <= block'.sigma /\ block'.u.v \in V
  BY <1>1, <1>2, <1>8, <1>9, Bounds
<1> QED
  BY <1>1, <1>2, <1>9, <1>12, <1>13, <1>14 DEF FilterInv, OnlyOnce

(* At the end of sigma its input is what the filter makes of it. *)
LEMMA FilterSends ==
  ASSUME TypeOK, FilterInv, kind = "qss_signal_filter", LevelsSend
  PROVE  FilterInv' /\ out' \in Signals
<1> DEFINE x == advance_time(block.u, block.sigma)
<1>1. /\ Due /\ kind' = kind /\ e' = 0 /\ truth' = truth
      /\ out' = FilterOutput(block) /\ block' = FilterDint(block)
  BY DEF LevelsSend, Sends
<1>2. /\ block \in Filters /\ e \in Nat /\ e <= 2 * MaxV /\ e <= block.sigma
      /\ block.sigma \in Nat
  BY Bounds DEF FilterInv, Filters, TypeOK
<1>3. block.sigma = e /\ e # Inf
  BY <1>1, <1>2, Bounds DEF Due
<1>4. x \in Signals /\ x.s = truth[0].s /\ x.v = truth[0].v
  BY <1>2, <1>3, Advanced DEF FilterInv, Filters
<1>5. out' = x /\ block' = [block EXCEPT !.u = x, !.y = x, !.sigma = Inf]
  BY <1>1 DEF FilterOutput, FilterDint
<1> HIDE DEF x
<1>6. /\ block' \in Filters /\ block'.u = x /\ block'.y = x /\ block'.sigma = Inf
      /\ block'.tol = block.tol
  BY <1>2, <1>4, <1>5 DEF Filters, Sigmas
<1>7. x.v \in V /\ x.v \in Int /\ x.s \in {-1, 0, 1}
  BY <1>4, Bounds DEF TypeOK, Signals, Slopes
<1>8. Drift' = 0 /\ Drift' \in -block.tol .. block.tol
  BY <1>2, <1>6, <1>7, Bounds DEF Drift, Filters
<1>9. At(x.v, x.s, e') = x.v
  BY <1>1, <1>7 DEF At
<1>10. turns' = 1 /\ block'.sigma > 0
  BY <1>1, <1>2, <1>3, <1>6, Bounds DEF FilterInv, OnlyOnce, LevelsSend, Sends, MaxTurns
<1> QED
  BY <1>1, <1>4, <1>5, <1>6, <1>7, <1>8, <1>9, <1>10, Bounds DEF FilterInv, OnlyOnce

(* Time moves input and output of a filter, and its state stays. *)
LEMMA FilterPasses ==
  ASSUME TypeOK, FilterInv, kind = "qss_signal_filter", TimePasses
  PROVE  FilterInv'
<1>1. /\ e < block.sigma /\ kind' = kind /\ block' = block
      /\ truth'[0] = advance_time(truth[0], 1) /\ out' = advance_time(out, 1)
      /\ truth'[0].v \in V
      /\ e' = IF e < 2 * MaxV THEN e + 1 ELSE e
      /\ turns' = 0
  BY Bounds DEF TimePasses, Due, Later, TypeOK, FilterInv, Filters
<1>2. /\ block \in Filters /\ e \in Nat /\ e <= 2 * MaxV
      /\ block.sigma \in Nat /\ (block.sigma = Inf \/ block.sigma <= 2 * MaxV)
      /\ block.u \in Signals /\ block.y \in Signals
  BY Bounds DEF FilterInv, Filters, TypeOK
<1>3. /\ block.u.v \in Int /\ block.u.s \in {-1, 0, 1} /\ block.u.v \in V
      /\ block.y.v \in Int /\ block.y.s \in {-1, 0, 1}
  BY <1>2 DEF FilterInv, Signals, Slopes
<1>4. block.u.s # 0 \/ block.y.s # 0 => e' = e + 1
  <2>1. CASE block.u.s # 0
    <3>1. truth[0] \in Signals
      BY DEF TypeOK
    <3>2. truth'[0].v = At(block.u.v, block.u.s, e + 1)
      <4>1. truth[0].s = block.u.s /\ truth[0].v = At(block.u.v, truth[0].s, e)
        BY DEF FilterInv
      <4>2. advance_time(truth[0], 1).v = At(block.u.v, truth[0].s, e + 1)
        BY <4>1, <3>1, <1>2, <1>3, OneMore
      <4> QED
        BY <4>1, <4>2, <1>1
    <3>3. e + 1 <= 2 * MaxV
      BY <2>1, <3>2, <1>1, <1>2, <1>3, Bounds DEF At
    <3> QED
      BY <3>3, <1>1, <1>2, Bounds
  <2>2. CASE block.u.s = 0 /\ block.y.s # 0
    <3>1. block.sigma # Inf
      BY <2>2, <1>1, <1>2, <1>3, Bounds DEF FilterInv, Drift, Filters
    <3> QED
      BY <3>1, <1>1, <1>2, Bounds
  <2> QED
    BY <2>1, <2>2
<1>5. truth[0] \in Signals /\ out \in Signals /\ e' \in Nat
  BY <1>1, <1>2 DEF TypeOK
<1>6. truth'[0].s = block.u.s /\ truth'[0].v = At(block.u.v, block.u.s, e')
  BY <1>1, <1>2, <1>3, <1>4, <1>5, OneMore DEF FilterInv
<1>7. out'.s = block.y.s /\ out'.v = At(block.y.v, block.y.s, e')
  BY <1>1, <1>2, <1>3, <1>4, <1>5, OneMore DEF FilterInv
<1>8. e' <= block.sigma
  BY <1>1, <1>2, Bounds
<1>9. Drift' = Drift
  BY <1>1 DEF Drift
<1> QED
  BY <1>1, <1>6, <1>7, <1>8, <1>9 DEF FilterInv, OnlyOnce

(* A filter starts with nothing planned. *)
LEMMA FilterStarts ==
  ASSUME Init
  PROVE  FilterInv
<1> SUFFICES ASSUME kind = "qss_signal_filter"
             PROVE  FilterInv
  BY DEF FilterInv
<1>1. PICK dQ \in Quanta : block = FilterInit(dQ)
  BY DEF Init, BlockInit
<1>2. /\ block \in Filters /\ block.u = Zero /\ block.y = Zero /\ block.tol = dQ
      /\ block.sigma = Inf
  BY <1>1, ZeroSignal DEF FilterInit, Filters, Sigmas
<1>3. e = 0 /\ out = Zero /\ truth[0] = Zero /\ turns = 0
  BY DEF Init, Integrates
<1>4. 0 \in V
  BY Bounds DEF V
<1> QED
  BY <1>2, <1>3, <1>4, ZeroSignal, Bounds DEF FilterInv, Drift, At, OnlyOnce

-----------------------------------------------------------------------------
(* How long a state takes to leave the last output by a quantum. *)
LEMMA QuantumLeftIs ==
  ASSUME NEW X \in Signals, NEW q \in Int, NEW dQ \in Quanta
  PROVE  /\ QuantumLeft(X, q, dQ) \in Sigmas
         /\ Distance(X.v, q) > dQ => QuantumLeft(X, q, dQ) = 0
         /\ Distance(X.v, q) <= dQ =>
              /\ X.s = 0 => QuantumLeft(X, q, dQ) = Inf
              /\ X.s = 1 => QuantumLeft(X, q, dQ) <= q + dQ - X.v
              /\ X.s = -1 => QuantumLeft(X, q, dQ) <= X.v - q + dQ
<1> DEFINE a == Signal(q - X.v - dQ, -X.s)
           b == Signal(q - X.v + dQ, -X.s)
<1>1. /\ X.v \in Int /\ X.s \in {-1, 0, 1} /\ -X.s \in Slopes
      /\ dQ \in Int /\ 1 <= dQ /\ dQ <= MaxV
  BY Bounds DEF Signals, Slopes
<1>2. /\ a \in Signals /\ a.v = q - X.v - dQ /\ a.s = -X.s /\ a.tiny = 0
      /\ b \in Signals /\ b.v = q - X.v + dQ /\ b.s = -X.s /\ b.tiny = 0
  BY <1>1, ASignal
<1>3. QuantumLeft(X, q, dQ) = IF Distance(X.v, q) > dQ THEN 0
                              ELSE Sooner(minposroot(a), minposroot(b))
  BY DEF QuantumLeft
<1> HIDE DEF a, b
<1>4. CASE Distance(X.v, q) > dQ
  BY <1>1, <1>3, <1>4, Bounds DEF Sigmas, Distance
<1>5. CASE Distance(X.v, q) <= dQ
  <2>1. q - X.v - dQ <= 0 /\ 0 <= q - X.v + dQ /\ QuantumLeft(X, q, dQ) = Sooner(minposroot(a), minposroot(b))
    BY <1>1, <1>3, <1>5 DEF Distance
  <2>2. CASE X.s = 0
    <3>1. minposroot(a) = Inf /\ minposroot(b) = Inf
      BY <2>2, <1>2, RootOf
    <3> QED
      BY <2>1, <2>2, <3>1, <1>1, <1>5, Bounds DEF Sooner, Sigmas, Distance
  <2>3. CASE X.s = 1
    <3>1. minposroot(b) = q - X.v + dQ /\ minposroot(a) \in {0, Inf}
      BY <2>1, <2>3, <1>1, <1>2, RootOf
    <3> QED
      BY <2>1, <2>3, <3>1, <1>1, <1>5, Bounds DEF Sooner, Sigmas, Distance
  <2>4. CASE X.s = -1
    <3>1. minposroot(a) = X.v - q + dQ /\ minposroot(b) \in {0, Inf}
      BY <2>1, <2>4, <1>1, <1>2, RootOf
    <3> QED
      BY <2>1, <2>4, <3>1, <1>1, <1>5, Bounds DEF Sooner, Sigmas, Distance
  <2> QED
    BY <2>2, <2>3, <2>4, <1>1
<1>6. Distance(X.v, q) \in Int
  BY <1>1 DEF Distance
<1> QED
  BY <1>1, <1>4, <1>5, <1>6

(* How long it takes to the bound. *)
LEMMA BoundaryIs ==
  ASSUME NEW X \in Signals
  PROVE  /\ Below(Boundary(X)) <=> X.v < 0 \/ (X.v = 0 /\ X.s = -1)
         /\ minposroot(Boundary(X)) \in Nat
         /\ X.s = 0 => minposroot(Boundary(X)) = Inf
         /\ X.s = -1 /\ X.v > 0 => minposroot(Boundary(X)) = X.v
<1> DEFINE a == Signal(X.v, X.s)
<1>1. X.v \in Int /\ X.s \in Slopes /\ X.v - lowerBound = X.v /\ X.s \in {-1, 0, 1}
  BY DEF Signals, Slopes, lowerBound
<1>2. a \in Signals /\ a.v = X.v /\ a.s = X.s /\ a.tiny = 0
  BY <1>1, ASignal
<1>3. Boundary(X) = IF a.v = 0 THEN [a EXCEPT !.tiny = a.s] ELSE a
  BY <1>1 DEF Boundary, Nudged
<1> HIDE DEF a
<1>4. /\ Boundary(X) \in Signals /\ Boundary(X).v = X.v /\ Boundary(X).s = X.s
      /\ Boundary(X).tiny = IF X.v = 0 THEN X.s ELSE 0
  BY <1>1, <1>2, <1>3 DEF Signals, Slopes
<1> HIDE DEF Boundary
<1> QED
  BY <1>1, <1>4, RootOf DEF Below

(* One step of an integrator, as a case of the next-state relation. *)
LEMMA IntegratorCases ==
  ASSUME Integrates, Next
  PROVE  \/ \E port \in {0, 1}, v \in V, s \in Slopes : IntegratorHears(port, Signal(v, s))
         \/ IntegratorSends \/ TimePasses
<1>1. ASSUME NEW port \in 0 .. 2, NEW v \in V, NEW s \in Slopes, Input(port, Signal(v, s))
      PROVE  port \in {0, 1} /\ IntegratorHears(port, Signal(v, s))
  BY <1>1 DEF Input, SwitchHears, IntegratorHears, CompareHears, HystereticHears,
              CrossHears, OutputHears, LevelsHear, Integrates, Detects
<1>2. Internal => IntegratorSends
  BY DEF Internal, SwitchSends, LevelsSend, HystereticSends, CrossSends, CompareSends,
         Integrates, Detects
<1> QED
  BY <1>1, <1>2 DEF Next

(* A derivative: the state is moved to the instant it comes, and planned   *)
(* from there with the last output of another one.                         *)
LEMMA DerivativeComes ==
  ASSUME NEW v \in V, NEW s \in Slopes, TypeOK, IntegratorInv, Integrates,
         IntegratorHears(0, Signal(v, s))
  PROVE  IntegratorInv'
<1> DEFINE st   == Stays(block, v)
           X    == Signal(block.X.v + block.X.s * e, IF st THEN 0 ELSE v)
           past == block.bounded /\ block.sigma > 0 /\ Below(Boundary(X))
           left == QuantumLeft(X, block.q, block.dQ)
           sg   == IF block.sigma = 0 \/ past THEN 0
                   ELSE IF block.bounded THEN Sooner(left, minposroot(Boundary(X))) ELSE left
<1>1. Signal(v, s).v = v
  BY ASignal, Bounds
<1>2. /\ v \in Slopes /\ v \in {-1, 0, 1} /\ kind' = kind /\ e' = 0 /\ turns' = 0 /\ out' = out
      /\ truth' = [truth EXCEPT ![1] = [truth[1] EXCEPT !.s = v]]
      /\ astray' = (astray /\ block'.X # truth'[1])
      /\ block' = [block EXCEPT !.X = X, !.atBound = st \/ past, !.sigma = sg]
  BY <1>1 DEF IntegratorHears, Hears, IntegratorDext, DerivativeHeard, Slopes
<1>3. /\ block \in Integrators /\ e \in Nat /\ e <= 2 * MaxV /\ e <= block.sigma
      /\ block.X \in Signals /\ block.X.v \in Int /\ block.X.s \in {-1, 0, 1}
      /\ block.q \in Int /\ block.dQ \in Quanta /\ block.dQ \in Nat /\ block.dQ <= MaxV
      /\ block.dQ >= 1 /\ block.sigma \in Nat
      /\ block.bounded \in BOOLEAN /\ block.atBound \in BOOLEAN
  BY Bounds DEF IntegratorInv, Integrators, TypeOK, Signals, Slopes
<1>4. Now \in Int /\ block.X.v + block.X.s * e = Now
  BY <1>3 DEF Now, At
<1>5. st \in BOOLEAN /\ past \in BOOLEAN
  BY <1>3 DEF Stays
<1>6. X \in Signals /\ X.v = Now /\ X.s = IF st THEN 0 ELSE v
  BY <1>2, <1>4, ASignal DEF Slopes
<1> HIDE DEF X
<1>7. /\ left \in Sigmas /\ left \in Nat
      /\ Distance(Now, block.q) > block.dQ => left = 0
      /\ Distance(Now, block.q) <= block.dQ =>
           /\ X.s = 0 => left = Inf
           /\ X.s = 1 => left <= block.q + block.dQ - Now
           /\ X.s = -1 => left <= Now - block.q + block.dQ
  BY <1>3, <1>6, QuantumLeftIs, Bounds
<1> HIDE DEF left
<1>8. past <=> block.bounded /\ block.sigma > 0 /\ (Now < 0 \/ (Now = 0 /\ X.s = -1))
  BY <1>6, BoundaryIs
<1>9. /\ minposroot(Boundary(X)) \in Nat
      /\ X.s = 0 => minposroot(Boundary(X)) = Inf
      /\ X.s = -1 /\ Now > 0 => minposroot(Boundary(X)) = Now
  BY <1>6, BoundaryIs
<1> HIDE DEF past
<1>10. Distance(Now, block.q) \in Nat
  BY <1>3, <1>4 DEF Distance
<1>11. /\ sg \in Sigmas /\ sg <= left
       /\ X.s = 0 => sg \in {0, Inf}
       /\ block.sigma = 0 => sg = 0
       /\ block.bounded /\ X.s = -1 => sg = 0 \/ sg <= Now
       /\ block.bounded /\ X.s = 1 /\ Now < 0 => sg = 0
       /\ sg # 0 /\ block.bounded => Now >= 0
       /\ sg # 0 => Distance(Now, block.q) <= block.dQ
  <2>1. X.s \in {-1, 0, 1} /\ (left # 0 => Distance(Now, block.q) <= block.dQ)
    BY <1>2, <1>6, <1>7, <1>10, <1>3
  <2>2. CASE block.sigma = 0 \/ past
    <3>1. sg = 0
      BY <2>2
    <3> QED
      BY <3>1, <1>7, Bounds DEF Sigmas
  <2>3. CASE ~(block.sigma = 0 \/ past) /\ ~block.bounded
    <3>1. sg = left
      BY <2>3
    <3> QED
      BY <3>1, <2>1, <2>3, <1>7, <1>10, <1>3
  <2>4. CASE ~(block.sigma = 0 \/ past) /\ block.bounded
    <3>1. sg = Sooner(left, minposroot(Boundary(X)))
      BY <2>4
    <3>2. Now >= 0 /\ (X.s = -1 => Now > 0)
      BY <2>4, <1>8, <1>3, <1>4
    <3> DEFINE m == minposroot(Boundary(X))
    <3>3. m \in Nat /\ sg = IF left < m THEN left ELSE m
      BY <3>1, <1>9 DEF Sooner
    <3> HIDE DEF sg, m
    <3>4. CASE X.s = 0
      <4>1. m = Inf /\ (left = 0 \/ left = Inf)
        BY <3>4, <2>1, <1>7, <1>9, <1>10, <1>3 DEF m
      <4> QED
        BY <4>1, <3>2, <3>3, <3>4, <2>1, <2>4, <1>7, Bounds DEF Sigmas
    <3>5. CASE X.s # 0
      <4>1. left <= 2 * MaxV
        BY <3>5, <2>1, <1>3, <1>4, <1>7, <1>10, Bounds DEF Distance
      <4>2. X.s = -1 => m = Now
        BY <3>2, <1>9 DEF m
      <4> QED
        BY <4>1, <4>2, <3>2, <3>3, <3>5, <2>1, <2>4, <1>7, <1>3, <1>4, Bounds DEF Sigmas
    <3> QED
      BY <3>4, <3>5
  <2> QED
    BY <2>2, <2>3, <2>4
<1> HIDE DEF sg, st
<1>12. /\ block' \in Integrators /\ block'.X = X /\ block'.q = block.q /\ block'.dQ = block.dQ
       /\ block'.sigma = sg /\ block'.bounded = block.bounded /\ block'.atBound = (st \/ past)
  BY <1>2, <1>3, <1>5, <1>6, <1>11 DEF Integrators
<1>13. truth'[1].s = v /\ truth'[1].v = truth[1].v
  BY <1>2 DEF TypeOK, Signals
<1>14. Now' = Now
  BY <1>2, <1>4, <1>6, <1>12 DEF At, Now
<1>15. block'.X.v = Now /\ (block'.X.s = IF st THEN 0 ELSE v) /\ block'.X.s \in {-1, 0, 1}
  BY <1>2, <1>6, <1>12
<1>16. InPlan'
  <2>1. CASE sg = 0
    BY <2>1, <1>12 DEF InPlan
  <2>2. CASE sg # 0
    <3>1. Distance(Now, block.q) <= block.dQ
      BY <2>2, <1>11
    <3> QED
      BY <3>1, <2>2, <1>3, <1>4, <1>7, <1>11, <1>12, <1>15, <1>6, Bounds
      DEF InPlan, Distance
  <2> QED
    BY <2>1, <2>2
<1>17. LowestX'
  BY <1>3, <1>4, <1>6, <1>11, <1>12, <1>15, Bounds DEF LowestX, IntegratorInv, Now, At
<1>18. ~(st \/ past) => truth'[1].s = block'.X.s
  BY <1>13, <1>15
<1>19. ~astray' => /\ truth'[1].v = Bounded(Now)'
                   /\ block'.atBound => Now' <= 0 /\ (block'.X.s = 1 => block'.sigma = 0)
                   /\ truth'[1].s = block'.X.s \/ (block'.X.s = 0 /\ truth'[1].s = -1)
  <2> SUFFICES ASSUME ~astray \/ block'.X = truth'[1]
               PROVE  /\ truth'[1].v = Bounded(Now)'
                      /\ st \/ past => Now <= 0 /\ (block'.X.s = 1 => sg = 0)
                      /\ v = block'.X.s \/ (block'.X.s = 0 /\ v = -1)
    BY <1>2, <1>12, <1>13, <1>14
  <2>1. past => Now <= 0 /\ sg = 0
    BY <1>4, <1>8 DEF sg
  <2>2. CASE ~astray
    <3>1. truth'[1].v = Bounded(Now)'
      BY <2>2, <1>12, <1>13, <1>14 DEF IntegratorInv, Bounded
    <3>2. st => Now <= 0 /\ v = -1
      BY <2>2, <1>2 DEF IntegratorInv, st, Stays
    <3> QED
      BY <2>1, <3>1, <3>2, <1>15
  <2>3. CASE block'.X = truth'[1]
    <3>1. truth[1].v = Now /\ v = block'.X.s
      BY <2>3, <1>13, <1>15
    <3>2. block.bounded => Now >= 0
      BY <3>1 DEF IntegratorInv
    <3>3. truth'[1].v = Bounded(Now)'
      BY <3>1, <3>2, <1>4, <1>12, <1>13, <1>14 DEF Bounded
    <3>4. ~st
      BY <3>1, <1>2, <1>15 DEF st, Stays
    <3> QED
      BY <2>1, <3>1, <3>3, <3>4, <1>15
  <2> QED
    BY <2>2, <2>3
<1>20. e' <= block'.sigma /\ block'.sigma \in Nat
  BY <1>2, <1>11, <1>12, Bounds
<1>21. kind' \in {"qss", "qss_bounded"} /\ block.bounded = (kind = "qss_bounded")
       /\ (~block.bounded => ~block.atBound /\ ~astray /\ ~st /\ ~past)
  BY <1>2, <1>8 DEF Integrates, IntegratorInv, st, Stays
<1>21a. block'.bounded => truth'[1].v >= 0
  BY <1>12, <1>13 DEF IntegratorInv
<1>22. out'.s = 0 /\ (out'.v = block'.q \/ block'.sigma = 0)
  BY <1>2, <1>11, <1>12 DEF IntegratorInv
<1>23. (block'.X.s = 0 => block'.sigma \in {0, Inf}) /\ turns' = 0
  BY <1>2, <1>11, <1>12
<1> QED
  BY <1>2, <1>12, <1>16, <1>17, <1>18, <1>19, <1>20, <1>21, <1>21a, <1>22, <1>23
  DEF IntegratorInv, OnlyOnce

(* A new state: it is sent at once. *)
LEMMA StateComes ==
  ASSUME NEW v \in V, NEW s \in Slopes, TypeOK, IntegratorInv, Integrates,
         IntegratorHears(1, Signal(v, s))
  PROVE  IntegratorInv'
<1>1. Signal(v, s).v = v /\ v \in Int
  BY ASignal, Bounds
<1>2. /\ kind' = kind /\ e' = 0 /\ turns' = 0 /\ out' = out
      /\ truth' = [truth EXCEPT ![1] = [truth[1] EXCEPT !.v = v]] /\ astray' = block.atBound
      /\ block' = [block EXCEPT !.X.v = v, !.sigma = 0] /\ (kind = "qss_bounded" => v >= 0)
  BY <1>1 DEF IntegratorHears, Hears, IntegratorDext, StateHeard, lowerBound
<1>3. /\ block \in Integrators /\ block.X \in Signals /\ block.X.s \in {-1, 0, 1}
      /\ block.q \in Int /\ block.dQ \in Quanta /\ block.dQ \in Nat
      /\ block.bounded \in BOOLEAN /\ block.atBound \in BOOLEAN
  BY Bounds DEF IntegratorInv, Integrators, Signals, Slopes
<1> DEFINE X == [block.X EXCEPT !.v = v]
<1>4. X \in Signals /\ X.v = v /\ X.s = block.X.s
  BY <1>1, <1>3 DEF Signals
<1>5. block' = [block EXCEPT !.X = X, !.sigma = 0]
  BY <1>2, <1>3 DEF Integrators
<1> HIDE DEF X
<1>6. /\ block' \in Integrators /\ block'.X = X /\ block'.q = block.q /\ block'.dQ = block.dQ
      /\ block'.sigma = 0 /\ block'.bounded = block.bounded /\ block'.atBound = block.atBound
  BY <1>3, <1>4, <1>5, Members DEF Integrators
<1>7. truth'[1].v = v /\ truth'[1].s = truth[1].s
  BY <1>2 DEF TypeOK, Signals
<1>8. Now' = v /\ Bounded(Now)' = v
  BY <1>1, <1>2, <1>3, <1>4, <1>6, <1>7 DEF Now, At, Bounded, IntegratorInv
<1>9. InPlan'
  BY <1>6 DEF InPlan
<1>10. LowestX'
  <2>1. block.bounded => v >= 0 /\ -block.dQ <= block.q
    BY <1>2 DEF LowestX, IntegratorInv
  <2> QED
    BY <2>1, <1>1, <1>3, <1>4, <1>6 DEF LowestX
<1>11. kind' \in {"qss", "qss_bounded"} /\ block.bounded = (kind = "qss_bounded")
       /\ (~block.bounded => ~block.atBound /\ ~astray')
  BY <1>2 DEF Integrates, IntegratorInv
<1>11a. block'.bounded => truth'[1].v >= 0
  BY <1>2, <1>6, <1>7, <1>11
<1>12. ~block.atBound => truth'[1].s = block'.X.s
  BY <1>4, <1>6, <1>7 DEF IntegratorInv
<1> QED
  BY <1>2, <1>4, <1>6, <1>7, <1>8, <1>9, <1>10, <1>11, <1>11a, <1>12
  DEF IntegratorInv, OnlyOnce

(* The transition of an integrator: it sends the state it has moved to. *)
LEMMA IntegratorSendsIt ==
  ASSUME TypeOK, IntegratorInv, Integrates, IntegratorSends
  PROVE  IntegratorInv' /\ out' \in Signals
<1> DEFINE x    == block.X.v + block.X.s * block.sigma
           stop == block.bounded /\ x <= lowerBound
           X    == Signal(x, IF stop THEN 0 ELSE block.X.s)
           sg   == IF X.s = 0 THEN Inf ELSE block.dQ
<1>1. /\ Due /\ kind' = kind /\ e' = 0 /\ truth' = truth /\ out' = Signal(x, 0)
      /\ block' = [block EXCEPT !.X = X, !.q = x, !.atBound = @ \/ stop, !.sigma = sg]
      /\ astray' = (astray \/ (block.X.s > 0 /\ block'.X.s = 0))
      /\ turns' = IF turns < 4 THEN turns + 1 ELSE turns
  BY DEF IntegratorSends, Sends, IntegratorOutput, IntegratorDint, MaxTurns
<1>2. /\ block \in Integrators /\ e \in Nat /\ e <= 2 * MaxV /\ e <= block.sigma
      /\ block.X \in Signals /\ block.X.v \in Int /\ block.X.s \in {-1, 0, 1}
      /\ block.q \in Int /\ block.dQ \in Quanta /\ block.dQ \in Nat /\ block.dQ <= MaxV
      /\ block.dQ >= 1 /\ block.sigma \in Nat
      /\ block.bounded \in BOOLEAN /\ block.atBound \in BOOLEAN
  BY Bounds DEF IntegratorInv, Integrators, TypeOK, Signals, Slopes
<1>3. block.sigma = e /\ e # Inf
  BY <1>1, <1>2, Bounds DEF Due
<1>4. Now \in Int /\ x = Now
  BY <1>2, <1>3 DEF Now, At
<1>5. stop <=> block.bounded /\ Now <= 0
  BY <1>4 DEF lowerBound
<1> HIDE DEF stop, x
<1>6. X \in Signals /\ X.v = Now /\ X.s = (IF stop THEN 0 ELSE block.X.s)
      /\ Signal(x, 0) \in Signals /\ Signal(x, 0).v = x /\ Signal(x, 0).s = 0
  BY <1>2, <1>4, ASignal DEF Slopes
<1> HIDE DEF X
<1>7. sg \in Sigmas /\ sg > 0 /\ (X.s = 0 => sg = Inf) /\ (X.s # 0 => sg = block.dQ)
  BY <1>2, Bounds DEF Sigmas
<1> HIDE DEF sg
<1>8. /\ block' \in Integrators /\ block'.X = X /\ block'.q = Now /\ block'.dQ = block.dQ
      /\ block'.sigma = sg /\ block'.bounded = block.bounded
      /\ block'.atBound = (block.atBound \/ stop)
  BY <1>1, <1>2, <1>4, <1>5, <1>6, <1>7 DEF Integrators
<1>9. Now' = Now
  BY <1>1, <1>2, <1>4, <1>6, <1>8 DEF Now, At
<1>10. InPlan'
  BY <1>2, <1>4, <1>6, <1>7, <1>8 DEF InPlan, Distance
<1>11. LowestX'
  <2>1. block.bounded => -block.dQ <= Now
    BY <1>2, <1>3, <1>4 DEF IntegratorInv, LowestX, Now, At
  <2> QED
    BY <2>1, <1>2, <1>4, <1>5, <1>6, <1>7, <1>8 DEF LowestX
<1>12. turns' = 1
  BY <1>1, <1>2, <1>3 DEF IntegratorInv, OnlyOnce
<1>13. ~astray' => /\ truth'[1].v = Bounded(Now)'
                   /\ block'.atBound => Now <= 0 /\ block'.X.s # 1
                   /\ truth'[1].s = block'.X.s \/ (block'.X.s = 0 /\ truth'[1].s = -1)
  <2> SUFFICES ASSUME ~astray, ~(block.X.s > 0 /\ X.s = 0)
               PROVE  /\ truth[1].v = Bounded(Now)'
                      /\ block.atBound \/ stop => Now <= 0 /\ X.s # 1
                      /\ truth[1].s = X.s \/ (X.s = 0 /\ truth[1].s = -1)
    BY <1>1, <1>8
  <2>1. truth[1].v = Bounded(Now)'
    BY <1>8, <1>9 DEF IntegratorInv, Bounded
  <2>2. block.atBound => Now <= 0 /\ stop
    BY <1>2, <1>5 DEF IntegratorInv
  <2>3. truth[1].s = block.X.s \/ (block.X.s = 0 /\ truth[1].s = -1)
    BY DEF IntegratorInv
  <2> QED
    BY <2>1, <2>2, <2>3, <1>2, <1>5, <1>6
<1>14. kind' \in {"qss", "qss_bounded"} /\ block.bounded = (kind = "qss_bounded")
  BY <1>1 DEF Integrates, IntegratorInv
<1>15. ~block.bounded => ~block.atBound /\ ~stop /\ ~astray'
  <2>1. ~block.bounded => ~block.atBound /\ ~stop /\ ~astray
    BY <1>5 DEF IntegratorInv
  <2>2. ~block.bounded => ~(block.X.s > 0 /\ block'.X.s = 0)
    BY <2>1, <1>2, <1>6, <1>8
  <2> QED
    BY <2>1, <2>2, <1>1
<1>16. ~(block.atBound \/ stop) => truth[1].s = X.s
  BY <1>6 DEF IntegratorInv
<1>16a. block'.bounded => truth'[1].v >= 0
  BY <1>1, <1>8 DEF IntegratorInv
<1>17. e' <= block'.sigma /\ (block'.X.s = 0 => block'.sigma \in {0, Inf})
  BY <1>1, <1>7, <1>8, Bounds
<1> QED
  BY <1>1, <1>4, <1>6, <1>7, <1>8, <1>9, <1>10, <1>11, <1>12, <1>13, <1>14, <1>15, <1>16,
     <1>16a, <1>17
  DEF IntegratorInv, OnlyOnce

(* Time moves the integral as the plan has it, within sigma. *)
LEMMA IntegratorPasses ==
  ASSUME TypeOK, IntegratorInv, Integrates, TimePasses
  PROVE  IntegratorInv'
<1>1. /\ e < block.sigma /\ kind' = kind /\ block' = block /\ astray' = astray /\ turns' = 0
      /\ truth'[1] = Later(truth[1]) /\ out' = advance_time(out, 1)
      /\ e' = IF e < 2 * MaxV THEN e + 1 ELSE e
  BY Bounds DEF TimePasses, Due, TypeOK, IntegratorInv, Integrators
<1>2. /\ block \in Integrators /\ e \in Nat /\ e <= 2 * MaxV
      /\ block.X \in Signals /\ block.X.v \in Int /\ block.X.s \in {-1, 0, 1}
      /\ block.q \in Int /\ block.dQ \in Quanta /\ block.dQ \in Nat /\ block.dQ <= MaxV
      /\ block.dQ >= 1 /\ block.sigma \in Nat /\ (block.sigma = Inf \/ block.sigma <= 2 * MaxV)
      /\ block.bounded \in BOOLEAN /\ block.atBound \in BOOLEAN
  BY Bounds DEF IntegratorInv, Integrators, TypeOK, Signals, Slopes
<1>3. truth[1] \in Signals /\ truth[1].v \in Int /\ truth[1].s \in {-1, 0, 1} /\ out \in Signals
  BY DEF TypeOK, Signals, Slopes
<1>4. InPlan /\ LowestX /\ block.sigma # 0
  BY <1>1, <1>2 DEF IntegratorInv
<1>5. block.X.s # 0 => e' = e + 1
  BY <1>1, <1>2, <1>4, Bounds DEF InPlan
<1>6. Now \in Int /\ Now' = Now + block.X.s
  BY <1>1, <1>2, <1>5 DEF Now, At
<1>7. Later(truth[1]) = IF block.bounded /\ truth[1].v <= 0 /\ truth[1].s = -1 THEN truth[1]
                        ELSE advance_time(truth[1], 1)
  <2>1. block.bounded <=> kind = "qss_bounded"
    BY DEF IntegratorInv
  <2>2. truth[1].s < 0 <=> truth[1].s = -1
    BY <1>3
  <2> QED
    BY <2>1, <2>2 DEF Later, lowerBound
<1>8. /\ advance_time(truth[1], 1).s = truth[1].s
      /\ advance_time(truth[1], 1).v = truth[1].v + truth[1].s
  BY <1>3, Advanced DEF At
<1>9. truth'[1].s = truth[1].s
  BY <1>1, <1>7, <1>8
<1>10. ~astray => /\ truth'[1].v = Bounded(Now)'
                  /\ block.atBound => Now' <= 0 /\ block.X.s # 1
  <2> SUFFICES ASSUME ~astray
               PROVE  /\ truth'[1].v = Bounded(Now)'
                      /\ block.atBound => Now' <= 0 /\ block.X.s # 1
    OBVIOUS
  <2>1. /\ truth[1].v = Bounded(Now)
        /\ block.atBound => Now <= 0 /\ block.X.s # 1
        /\ truth[1].s = block.X.s \/ (block.X.s = 0 /\ truth[1].s = -1)
        /\ ~block.atBound => truth[1].s = block.X.s
    BY <1>4 DEF IntegratorInv
  <2>2. Bounded(Now)' = IF block.bounded /\ Now' < 0 THEN 0 ELSE Now'
    BY <1>1 DEF Bounded
  <2>3. CASE block.X.s = 0
    BY <2>1, <2>2, <2>3, <1>1, <1>2, <1>3, <1>6, <1>7, <1>8 DEF Bounded, IntegratorInv
  <2>4. CASE block.X.s = 1
    <3>1. block.bounded => Now >= 0
      BY <2>4, <1>2, <1>4 DEF LowestX, Now, At
    <3> QED
      BY <2>1, <2>2, <2>4, <3>1, <1>1, <1>2, <1>3, <1>6, <1>7, <1>8 DEF Bounded
  <2>5. CASE block.X.s = -1
    BY <2>1, <2>2, <2>5, <1>1, <1>2, <1>3, <1>6, <1>7, <1>8 DEF Bounded
  <2> QED
    BY <2>3, <2>4, <2>5, <1>2
<1>11. out' = out
  BY <1>1, <1>3, Advanced DEF IntegratorInv
<1>12. InPlan' /\ LowestX'
  BY <1>1, <1>4 DEF InPlan, LowestX
<1>12a. block.bounded => truth'[1].v >= 0
  BY <1>1, <1>3, <1>7, <1>8 DEF IntegratorInv
<1>13. e' <= block.sigma
  BY <1>1, <1>2
<1> QED
  BY <1>1, <1>9, <1>10, <1>11, <1>12, <1>12a, <1>13 DEF IntegratorInv, OnlyOnce, Integrates

(* The initial states of the integrators. *)
LEMMA IntegratorBegins ==
  ASSUME Init, Integrates
  PROVE  \E dQ \in Quanta, x \in V, b \in BOOLEAN :
           /\ block = IntegratorInit(dQ, x, b) /\ b = (kind = "qss_bounded")
           /\ b => x >= 0
<1>1. CASE kind = "qss"
  <2>1. PICK dQ \in Quanta, x \in V : block = IntegratorInit(dQ, x, FALSE)
    BY <1>1 DEF Init, BlockInit, IntegratorInit
  <2> QED
    BY <1>1, <2>1
<1>2. CASE kind = "qss_bounded"
  <2>1. PICK dQ \in Quanta, x \in V \cap Nat : block = IntegratorInit(dQ, x, TRUE)
    BY <1>2 DEF Init, BlockInit, IntegratorInit
  <2>2. x \in V /\ x >= 0
    OBVIOUS
  <2> QED
    BY <1>2, <2>1, <2>2
<1> QED
  BY <1>1, <1>2 DEF Integrates

(* They satisfy the invariant. *)
LEMMA IntegratorStarts ==
  ASSUME Init
  PROVE  IntegratorInv
<1> SUFFICES ASSUME Integrates
             PROVE  IntegratorInv
  BY DEF IntegratorInv
<1>1. PICK dQ \in Quanta, x \in V, b \in BOOLEAN :
        /\ block = IntegratorInit(dQ, x, b) /\ b = (kind = "qss_bounded")
        /\ b => x >= 0
  BY IntegratorBegins
<1>2. /\ Signal(x, 0) \in Signals /\ Signal(x, 0).v = x /\ Signal(x, 0).s = 0
      /\ x \in Int /\ dQ \in Nat /\ dQ >= 1
  BY Bounds, ASignal DEF Slopes
<1>3. /\ block \in Integrators /\ block.X = Signal(x, 0) /\ block.q = x /\ block.dQ = dQ
      /\ block.sigma = 0 /\ block.bounded = b /\ block.atBound = FALSE
  BY <1>1, <1>2, Members DEF IntegratorInit, Integrators
<1>4. e = 0 /\ out = Zero /\ truth[1] = block.X /\ turns = 0 /\ ~astray
  BY DEF Init
<1>5. Now = x /\ Bounded(Now) = x
  BY <1>1, <1>2, <1>3, <1>4 DEF Now, At, Bounded
<1>6. InPlan /\ LowestX
  BY <1>1, <1>2, <1>3 DEF InPlan, LowestX
<1> QED
  BY <1>1, <1>2, <1>3, <1>4, <1>5, <1>6, ZeroSignal DEF IntegratorInv, OnlyOnce

-----------------------------------------------------------------------------
(* One step of a detector, as a case of the next-state relation. *)
LEMMA DetectorCases ==
  ASSUME Detects, Next
  PROVE  \/ \E v \in V, s \in Slopes :
              CrossHears(Signal(v, s)) \/ OutputHears(Signal(v, s))
         \/ CrossSends \/ TimePasses
<1>1. ASSUME NEW port \in 0 .. 2, NEW v \in V, NEW s \in Slopes, Input(port, Signal(v, s))
      PROVE  CrossHears(Signal(v, s)) \/ OutputHears(Signal(v, s))
  BY <1>1 DEF Input, SwitchHears, IntegratorHears, CompareHears, HystereticHears,
              LevelsHear, Integrates, Detects
<1>2. Internal => CrossSends
  BY DEF Internal, SwitchSends, LevelsSend, HystereticSends, IntegratorSends, CompareSends,
         Integrates, Detects
<1> QED
  BY <1>1, <1>2 DEF Next

(* An input of a detector. *)
LEMMA CrossComes ==
  ASSUME NEW v \in V, NEW s \in Slopes, TypeOK, DetectorInv, Detects,
         CrossHears(Signal(v, s))
  PROVE  DetectorInv'
<1> DEFINE u    == [Signal(v, s) EXCEPT !.v = @ - block.level]
           over == (block.sw = 1 /\ u.v < 0) \/ (block.sw = -1 /\ u.v > 0)
           side == IF over \/ block.sw # 0 THEN block.sw ELSE IF u.v > 0 THEN 1 ELSE -1
           sg   == IF over THEN 0 ELSE minposroot(u)
<1>1. /\ Signal(v, s) \in Signals /\ Signal(v, s).v = v /\ Signal(v, s).s = s
      /\ Signal(v, s).tiny = 0 /\ v \in Int /\ s \in {-1, 0, 1}
  BY ASignal, Bounds DEF Slopes
<1>2. /\ block \in Detectors /\ block.level \in V /\ block.level \in Int
      /\ block.sw \in {-1, 0, 1}
  BY Bounds DEF DetectorInv, Detectors
<1>3. u \in Signals /\ u.v = v - block.level /\ u.s = s /\ u.tiny = 0
  BY <1>1, <1>2 DEF Signals
<1>4. /\ kind' = kind /\ e' = 0 /\ turns' = 0 /\ heard' = TRUE
      /\ truth' = [truth EXCEPT ![0] = Signal(v, s)]
      /\ astray' <=> (block.sw * (v - block.level) < 0 /\ block.sw * s > 0)
      /\ block' = CrossDext(block, Signal(v, s))
  BY <1>1 DEF CrossHears, Hears
<1> HIDE DEF u
<1>5. over \/ ~over
  OBVIOUS
<1>6. minposroot(u) \in Sigmas
  <2>1. u.v <= 2 * MaxV /\ -u.v <= 2 * MaxV /\ u.v \in Int
    BY <1>1, <1>2, <1>3, Bounds
  <2> QED
    BY <2>1, <1>1, <1>3, RootOf, Bounds DEF Sigmas
<1>7. sg \in Sigmas /\ side \in {-1, 1} /\ side \in -1 .. 1
  BY <1>2, <1>6, Members
<1>8. block' = [block EXCEPT !.u = u, !.sw = side, !.sigma = sg]
  BY <1>2, <1>4 DEF CrossDext, u, Detectors
<1> HIDE DEF side, sg, over
<1>9. /\ block' \in Detectors /\ block'.u = u /\ block'.sw = side /\ block'.sigma = sg
      /\ block'.level = block.level
  BY <1>2, <1>3, <1>7, <1>8 DEF Detectors
<1>10. truth'[0].v = v /\ truth'[0].s = s
  BY <1>1, <1>4 DEF TypeOK
<1>11. ~astray' => Toward' \/ Across' \/ Away'
  <2>1. Gap' = u.v /\ u.v \in Int
    BY <1>1, <1>2, <1>3, <1>9, <1>10 DEF Gap
  <2>2. CASE over
    <3>1. side = block.sw /\ sg = 0
      BY <2>2 DEF side, sg
    <3>2. CASE block.sw = 1
      <4>1. u.v < 0 /\ (~astray' => s <= 0)
        <5>1. block.sw * (v - block.level) = u.v /\ block.sw * s = s
          BY <3>2, <1>1, <1>2, <1>3
        <5> QED
          BY <5>1, <2>2, <3>2, <1>1, <1>4, <2>1 DEF over
      <4> QED
        BY <4>1, <3>1, <3>2, <2>1, <1>1, <1>4, <1>9, <1>10 DEF Across, SideNow
    <3>3. CASE block.sw = -1
      <4>1. u.v > 0 /\ (~astray' => s >= 0)
        <5>1. block.sw * (v - block.level) = -u.v /\ block.sw * s = -s
          BY <3>3, <1>1, <1>2, <1>3
        <5> QED
          BY <5>1, <2>2, <3>3, <1>1, <1>4, <2>1 DEF over
      <4> QED
        BY <4>1, <3>1, <3>3, <2>1, <1>1, <1>4, <1>9, <1>10 DEF Across, SideNow
    <3> QED
      BY <2>2, <3>2, <3>3 DEF over
  <2>3. CASE ~over
    <3>1. /\ sg = minposroot(u)
          /\ side = 1 => u.v >= 0
          /\ side = -1 => u.v <= 0
      BY <2>3, <1>2, <2>1 DEF over, side, sg
    <3>2. /\ s = 0 \/ (u.v > 0 /\ s = 1) \/ (u.v < 0 /\ s = -1) => sg = Inf
          /\ u.v > 0 /\ s = -1 => sg = u.v
          /\ u.v < 0 /\ s = 1 => sg = -u.v
          /\ u.v = 0 /\ s # 0 => sg = 0
      BY <3>1, <2>1, <1>1, <1>3, RootOf
    <3>3. CASE s = 0 \/ (u.v > 0 /\ s = 1) \/ (u.v < 0 /\ s = -1)
      BY <3>1, <3>2, <3>3, <2>1, <1>1, <1>4, <1>7, <1>9, <1>10 DEF Away, SideNow
    <3>4. CASE (u.v > 0 /\ s = -1) \/ (u.v < 0 /\ s = 1)
      <4>1. sg # Inf
        BY <3>2, <3>4, <2>1, <1>1, <1>2, <1>3, Bounds
      <4> QED
        BY <4>1, <3>1, <3>2, <3>4, <2>1, <1>1, <1>4, <1>7, <1>9, <1>10 DEF Toward, SideNow
    <3>5. CASE u.v = 0 /\ s # 0
      <4>1. sg = 0 /\ sg # Inf
        BY <3>2, <3>5, Bounds
      <4> QED
        <5>1. Gap' = 0 /\ SideNow(Gap)' = 0
          BY <3>5, <2>1 DEF SideNow
        <5> QED
          BY <5>1, <4>1, <1>4, <1>9 DEF Toward
    <3> QED
      BY <3>3, <3>4, <3>5, <2>1, <1>1
  <2> QED
    BY <2>2, <2>3
<1> QED
  BY <1>3, <1>4, <1>7, <1>9, <1>10, <1>11, Bounds DEF DetectorInv, Detects

(* The output that the second port gives leaves the plan as it was. *)
LEMMA OutputComes ==
  ASSUME NEW v \in V, NEW s \in Slopes, TypeOK, DetectorInv, Detects,
         OutputHears(Signal(v, s))
  PROVE  DetectorInv'
<1> DEFINE sg == Less(block.sigma, e)
<1>1. Signal(v, s) \in Signals
  BY ASignal, Bounds
<1>2. /\ kind' = kind /\ e' = 0 /\ turns' = 0 /\ heard' = heard /\ astray' = astray
      /\ truth' = [truth EXCEPT ![1] = Signal(v, s)]
      /\ block' = [block EXCEPT !.y = Signal(v, s), !.sigma = sg]
  BY DEF OutputHears, Hears, OutputHeard
<1>3. /\ block \in Detectors /\ e \in Nat /\ e <= 2 * MaxV /\ e <= block.sigma /\ e # Inf
      /\ block.sigma \in Nat /\ (block.sigma = Inf \/ block.sigma <= 2 * MaxV)
  BY Bounds DEF DetectorInv, Detectors, TypeOK
<1>4. /\ sg \in Sigmas
      /\ block.sigma = Inf => sg = Inf
      /\ block.sigma # Inf => sg = block.sigma - e /\ sg # Inf
  BY <1>3, Bounds DEF Less, Sigmas
<1> HIDE DEF sg
<1>5. /\ block' \in Detectors /\ block'.u = block.u /\ block'.sw = block.sw
      /\ block'.sigma = sg /\ block'.level = block.level
  BY <1>1, <1>2, <1>3, <1>4 DEF Detectors
<1>6. truth'[0] = truth[0]
  BY <1>2 DEF TypeOK
<1>7. Gap' = Gap /\ Gap \in Int /\ SideNow(Gap)' = SideNow(Gap)
      /\ SideNow(truth[0].s)' = SideNow(truth[0].s) /\ SideNow(Gap) \in Int
  BY <1>3, <1>5, <1>6, Bounds DEF Gap, SideNow, TypeOK, Detectors
<1>8. Toward => Toward'
  BY <1>2, <1>3, <1>4, <1>5, <1>7 DEF Toward
<1>9. Across => Across'
  BY <1>2, <1>3, <1>4, <1>5, <1>7 DEF Across
<1>10. Away => Away'
  BY <1>2, <1>4, <1>5, <1>7 DEF Away
<1>11. Unheard => Unheard'
  BY <1>4, <1>5 DEF Unheard
<1>12. e' <= block'.sigma
  BY <1>2, <1>4, <1>5, Bounds
<1> QED
  BY <1>2, <1>5, <1>6, <1>8, <1>9, <1>10, <1>11, <1>12 DEF DetectorInv

(* The transition of a detector: the side changes, or is known for the     *)
(* first time.                                                             *)
LEMMA CrossSendsIt ==
  ASSUME TypeOK, DetectorInv, Detects, CrossSends
  PROVE  DetectorInv' /\ out' \in Signals
<1> DEFINE sw == -block.sw
           u  == [block.u EXCEPT !.v = 0, !.tiny = sw]
           sg == minposroot(u)
<1>1. /\ Due /\ kind' = kind /\ e' = 0 /\ truth' = truth /\ heard' = heard
      /\ astray' = astray /\ out' = block.y
      /\ turns' = IF turns < 4 THEN turns + 1 ELSE turns
      /\ block' = [block EXCEPT !.u = u, !.sw = sw, !.sigma = sg]
  BY DEF CrossSends, Sends, CrossDint, MaxTurns
<1>2. /\ block \in Detectors /\ e \in Nat /\ e <= 2 * MaxV /\ e <= block.sigma /\ e # Inf
      /\ block.sigma \in Nat /\ block.y \in Signals /\ block.u \in Signals
      /\ block.u.s \in {-1, 0, 1} /\ block.level \in Int
  BY Bounds DEF DetectorInv, Detectors, TypeOK, Signals, Slopes
<1>3. block.sigma = e /\ block.sigma # Inf
  BY <1>1, <1>2, Bounds DEF Due
<1>4. heard /\ block.u.s = truth[0].s /\ block.sw \in {-1, 1}
  BY <1>2, <1>3 DEF DetectorInv, Unheard, Detectors
<1>5. ((block.sw = 1 /\ sw = -1) \/ (block.sw = -1 /\ sw = 1)) /\ sw \in -1 .. 1
  BY <1>4
<1> HIDE DEF sw
<1>6. u \in Signals /\ u.v = 0 /\ u.s = block.u.s /\ u.tiny = sw
  <2>1. block.u \in Signals /\ sw \in -1 .. 1
    BY <1>2, <1>5
  <2> QED
    BY <2>1, NextToZero, Zenon
<1> HIDE DEF u
<1>7. IF u.s = 0 \/ u.s = sw THEN sg = Inf ELSE sg = 0 /\ u.s = block.sw
  BY <1>2, <1>5, <1>6, RootOf
<1> HIDE DEF sg
<1>8. /\ block' \in Detectors /\ block'.u = u /\ block'.sw = sw
      /\ block'.sigma = sg /\ block'.level = block.level
  <2>1. sg \in Sigmas /\ sw \in -1 .. 1
    BY <1>5, <1>7, Members
  <2> QED
    BY <2>1, <1>1, <1>2, <1>6 DEF Detectors
<1>9. Gap' = Gap /\ Gap \in Int
  BY <1>1, <1>2, <1>8, Bounds DEF Gap, TypeOK
<1>10. ~astray => Toward' \/ Away'
  <2> SUFFICES ASSUME ~astray
               PROVE  Toward' \/ Away'
    OBVIOUS
  <2>1. truth'[0].s = u.s /\ sg # 0 <=> sg = Inf
    BY <1>1, <1>4, <1>6, <1>7, Bounds
  <2>2. CASE Toward
    <3>1. Gap = 0
      BY <2>2, <1>2, <1>3, <1>4, <1>9 DEF Toward, SideNow
    <3>2. CASE sg = Inf
      BY <3>1, <3>2, <2>1, <1>5, <1>7, <1>8, <1>9, <1>2, <1>6, Bounds DEF Away, SideNow
    <3>3. CASE sg = 0
      BY <3>1, <3>3, <2>1, <1>1, <1>5, <1>7, <1>8, <1>9, Bounds DEF Toward, SideNow
    <3> QED
      BY <3>2, <3>3, <1>7
  <2>3. CASE Across
    <3>1. sg = Inf
      BY <2>3, <1>2, <1>4, <1>5, <1>6, <1>7 DEF Across, SideNow
    <3> QED
      BY <3>1, <2>1, <2>3, <1>1, <1>2, <1>4, <1>5, <1>6, <1>8, <1>9 DEF Across, Away, SideNow
  <2> QED
    BY <2>2, <2>3, <1>3, <1>4 DEF DetectorInv, Away
<1>11. \/ turns' \in {1, 2} /\ e' = 0 /\ block'.sigma > 0
       \/ turns' = 1 /\ block'.u.v = 0 /\ block'.u.tiny = block'.sw /\ block'.u.s = -block'.sw
  <2>1. CASE turns = 0
    BY <2>1, <1>1, <1>5, <1>6, <1>7, <1>8, <1>2, Bounds
  <2>2. CASE turns = 1 /\ block.u.v = 0 /\ block.u.tiny = block.sw /\ block.u.s = -block.sw
    <3>1. sg = Inf
      BY <2>2, <1>5, <1>6, <1>7
    <3> QED
      BY <3>1, <2>2, <1>1, <1>8, Bounds
  <2> QED
    BY <2>1, <2>2, <1>2, <1>3 DEF DetectorInv
<1> QED
  BY <1>1, <1>2, <1>4, <1>5, <1>6, <1>7, <1>8, <1>10, <1>11, Bounds DEF DetectorInv, Detects

(* Time moves the input of a detector to the level it waits for. *)
LEMMA DetectorPasses ==
  ASSUME TypeOK, DetectorInv, Detects, TimePasses
  PROVE  DetectorInv'
<1>1. /\ e < block.sigma /\ kind' = kind /\ block' = block /\ astray' = astray /\ turns' = 0
      /\ heard' = heard /\ truth'[0] = advance_time(truth[0], 1)
      /\ e' = IF e < 2 * MaxV THEN e + 1 ELSE e
  BY Bounds DEF TimePasses, Due, TypeOK, DetectorInv, Detectors, Later, Detects
<1>2. /\ block \in Detectors /\ e \in Nat /\ e <= 2 * MaxV /\ block.level \in Int
      /\ block.sigma \in Nat /\ (block.sigma = Inf \/ block.sigma <= 2 * MaxV)
  BY Bounds DEF DetectorInv, Detectors, TypeOK
<1>3. truth[0] \in Signals /\ truth[0].v \in Int /\ truth[0].s \in {-1, 0, 1}
  BY DEF TypeOK, Signals, Slopes
<1>4. truth'[0].s = truth[0].s /\ truth'[0].v = truth[0].v + truth[0].s
  BY <1>1, <1>3, Advanced DEF At
<1>5. Gap' = Gap + truth[0].s /\ Gap \in Int
  BY <1>1, <1>2, <1>3, <1>4 DEF Gap
<1>6. heard /\ ~astray => Toward' \/ Away'
  <2>1. CASE Toward
    <3>1. e' = e + 1 /\ SideNow(truth[0].s) = -1 /\ SideNow(Gap) = block.sigma - e
      BY <2>1, <1>1, <1>2, <1>3, <1>5, Bounds DEF Toward, SideNow
    <3> QED
      BY <3>1, <2>1, <1>1, <1>2, <1>3, <1>4, <1>5 DEF Toward, SideNow
  <2>2. CASE Away
    BY <2>2, <1>1, <1>2, <1>3, <1>4, <1>5 DEF Away, SideNow
  <2> QED
    BY <2>1, <2>2, <1>1, <1>2 DEF DetectorInv, Across
<1>7. e' <= block'.sigma /\ (Unheard => Unheard')
  BY <1>1, <1>2 DEF Unheard
<1> QED
  BY <1>1, <1>4, <1>6, <1>7 DEF DetectorInv, Detects

(* A detector starts with nothing planned. *)
LEMMA DetectorStarts ==
  ASSUME Init
  PROVE  DetectorInv
<1> SUFFICES ASSUME Detects
             PROVE  DetectorInv
  BY DEF DetectorInv
<1>1. PICK level \in Levels, y \in {Signal(1, 0), Zero} : block = CrossInit(level, y)
  <2>1. CASE kind = "cross_detect"
    BY <2>1 DEF Init, BlockInit
  <2>2. CASE kind = "cross_detect_withDynamicOutput"
    BY <2>2 DEF Init, BlockInit
  <2> QED
    BY <2>1, <2>2 DEF Detects
<1>2. y \in Signals
  BY ASignal, ZeroSignal DEF Slopes
<1>3. /\ block \in Detectors /\ block.u = Zero /\ block.sw = 0 /\ block.sigma = Inf
      /\ block.level = level
  BY <1>1, <1>2, Members, ZeroSignal, QuantizedAssumption DEF CrossInit, Detectors
<1>4. e = 0 /\ turns = 0 /\ heard = FALSE
  BY DEF Init
<1> QED
  BY <1>3, <1>4, Bounds DEF DetectorInv, Unheard

-----------------------------------------------------------------------------
(* Nudged puts a signal that stands on a level on the side it moves to. *)
LEMMA NudgedIs ==
  ASSUME NEW u \in Signals
  PROVE  /\ Nudged(u) \in Signals /\ Nudged(u).v = u.v /\ Nudged(u).s = u.s
         /\ Nudged(u).tiny = IF u.v = 0 THEN u.s ELSE u.tiny
BY DEF Nudged, Signals, Slopes

(* One step of a hysteresis, as a case of the next-state relation. *)
LEMMA HystereticCases ==
  ASSUME kind = "hysteretic", Next
  PROVE  \/ \E v \in V, s \in Slopes : HystereticHears(Signal(v, s))
         \/ HystereticSends \/ TimePasses
BY DEF Next, Input, Internal, SwitchHears, IntegratorHears, CompareHears, LevelsHear,
       CrossHears, OutputHears, SwitchSends, IntegratorSends, LevelsSend, CrossSends,
       CompareSends, Integrates, Detects

(* Two levels, of which the block waits for the one it is not at. *)
LEMMA BandIs ==
  ASSUME NEW b, b \in Hysteretics
  PROVE  /\ b.ud[1] \in V /\ b.ud[2] \in V /\ b.ud[1] \in Int /\ b.ud[2] \in Int
         /\ b.ud[1] < b.ud[2]
         /\ Waited(b) = IF b.sw = 0 THEN b.ud[2] ELSE b.ud[1]
         /\ Waited(b) \in V /\ Waited(b) \in Int
<1>1. PICK band \in Bands : b.ud = <<band[1], band[2]>>
  BY DEF Hysteretics
<1>2. band[1] \in V /\ band[2] \in V /\ band[1] < band[2]
  BY QuantizedAssumption
<1>3. b.ud[1] = band[1] /\ b.ud[2] = band[2]
  BY <1>1
<1>4. b.sw \in {0, 1}
  BY DEF Hysteretics
<1>5. Waited(b) = IF b.sw = 0 THEN b.ud[2] ELSE b.ud[1]
  BY <1>4 DEF Waited
<1> QED
  BY <1>2, <1>3, <1>4, <1>5, Bounds

(* An input of a hysteresis: inside the band or beyond the level it waits  *)
(* for.                                                                    *)
LEMMA HystereticComes ==
  ASSUME NEW v \in V, NEW s \in Slopes, TypeOK, HystereticInv, kind = "hysteretic",
         HystereticHears(Signal(v, s))
  PROVE  HystereticInv'
<1> DEFINE W     == Waited(block)
           a     == [Signal(v, s) EXCEPT !.v = @ - W]
           u     == Nudged(a)
           wrong == (Above(u) /\ block.sw = 0) \/ (~Above(u) /\ block.sw = 1)
           sg    == IF wrong THEN 0
                    ELSE IF block.sigma > 0 \/ begun THEN minposroot(u) ELSE block.sigma
<1>1. /\ Signal(v, s) \in Signals /\ Signal(v, s).v = v /\ Signal(v, s).s = s
      /\ Signal(v, s).tiny = 0 /\ v \in Int /\ s \in {-1, 0, 1}
  BY ASignal, Bounds DEF Slopes
<1>2. /\ block \in Hysteretics /\ block.sigma \in Nat /\ block.sw \in {0, 1}
      /\ W \in V /\ W \in Int
  BY BandIs DEF HystereticInv, Hysteretics
<1>3. /\ kind' = kind /\ e' = 0 /\ turns' = 0 /\ heard' = TRUE /\ begun' = begun /\ out' = out
      /\ truth' = [truth EXCEPT ![0] = Signal(v, s)]
      /\ block' = [block EXCEPT !.u = u, !.sigma = sg]
  BY DEF HystereticHears, Hears, HystereticDext
<1> HIDE DEF W
<1>4. a \in Signals /\ a.v = v - W /\ a.s = s /\ a.tiny = 0
  BY <1>1, <1>2 DEF Signals
<1> HIDE DEF a
<1>5. u \in Signals /\ u.v = v - W /\ u.s = s /\ (u.v = 0 => u.tiny = s) /\ (u.v # 0 => u.tiny = 0)
      /\ u.v \in Int
  BY <1>1, <1>2, <1>4, NudgedIs
<1> HIDE DEF u
<1>6. Above(u) <=> u.v > 0 \/ (u.v = 0 /\ s = 1)
  BY <1>5 DEF Above
<1>7. sg \in Nat
  BY <1>2, <1>5, RootOf
<1> HIDE DEF sg
<1>8. /\ block' \in Hysteretics /\ block'.u = u /\ block'.sw = block.sw
      /\ block'.sigma = sg /\ block'.ud = block.ud
  BY <1>2, <1>3, <1>5, <1>7 DEF Hysteretics
<1>9. Waited(block)' = W
  BY <1>8 DEF Waited, W
<1>10. truth'[0].v = v /\ truth'[0].s = s
  BY <1>1, <1>3 DEF TypeOK
<1>11. Past' = u.v
  BY <1>5, <1>9, <1>10 DEF Past
<1>12. u.v <= 2 * MaxV /\ 0 - u.v <= 2 * MaxV
  BY <1>1, <1>2, <1>5, Bounds
<1>13. At(u.v, u.s, e') = u.v
  BY <1>1, <1>3, <1>5 DEF At
<1>14. First' \/ Nears' \/ Beyond' \/ Leaves'
  <2>1. CASE wrong
    <3>1. sg = 0 /\ ((block.sw = 0 /\ u.v >= 0) \/ (block.sw = 1 /\ u.v <= 0))
      BY <2>1, <1>5, <1>6 DEF sg
    <3> QED
      BY <3>1, <1>3, <1>5, <1>8, <1>11, <1>13 DEF Beyond, Turned
  <2>2. CASE ~wrong /\ ~(block.sigma > 0 \/ begun)
    <3>1. sg = 0
      BY <2>2, <1>2 DEF sg
    <3> QED
      BY <3>1, <2>2, <1>3, <1>8 DEF First
  <2>3. CASE ~wrong /\ (block.sigma > 0 \/ begun)
    <3>1. sg = minposroot(u)
      BY <2>3 DEF sg
    <3>2. \/ block.sw = 0 /\ (u.v < 0 \/ (u.v = 0 /\ s # 1))
          \/ block.sw = 1 /\ (u.v > 0 \/ (u.v = 0 /\ s = 1))
      BY <2>3, <1>2, <1>5, <1>6
    <3>3. CASE s = 0 \/ u.v = 0 \/ (u.v > 0 /\ s = 1) \/ (u.v < 0 /\ s = -1)
      <4>1. sg = Inf
        BY <3>1, <3>3, <1>1, <1>5, RootOf
      <4> QED
        BY <4>1, <3>2, <3>3, <1>1, <1>5, <1>8, <1>10, <1>11 DEF Leaves, Turned
    <3>4. CASE (u.v > 0 /\ s = -1) \/ (u.v < 0 /\ s = 1)
      <4>1. sg = IF u.v > 0 THEN u.v ELSE 0 - u.v
        BY <3>1, <3>4, <1>5, RootOf
      <4> QED
        BY <4>1, <3>2, <3>4, <1>1, <1>3, <1>5, <1>8, <1>10, <1>11, <1>12, <1>13 DEF Nears, Turned
    <3> QED
      BY <3>3, <3>4, <1>1, <1>5
  <2> QED
    BY <2>1, <2>2, <2>3
<1>18. First => First'
  <2>1. First => sg = 0
    BY DEF First, sg
  <2> QED
    BY <2>1, <1>3, <1>8 DEF First
<1> QED
  BY <1>1, <1>3, <1>5, <1>7, <1>8, <1>10, <1>14, <1>18 DEF HystereticInv, TurnsOfHysteresis

(* It changes its output only on the level it waits for, or beyond it. *)
LEMMA HystereticSendsIt ==
  ASSUME TypeOK, HystereticInv, kind = "hysteretic", HystereticSends
  PROVE  HystereticInv' /\ out' \in Signals /\ InsideBand
<1> DEFINE W     == Waited(block)
           moved == advance_time(block.u, block.sigma)
           u     == [moved EXCEPT !.v = @ + W + W]
           sg    == minposroot(u)
           sw    == 1 - block.sw
<1>1. /\ Due /\ kind' = kind /\ e' = 0 /\ truth' = truth /\ heard' = heard
      /\ begun' = begun /\ out' = Signal(sw, 0)
      /\ turns' = IF turns < 4 THEN turns + 1 ELSE turns
      /\ block' = [block EXCEPT !.u = u, !.sigma = sg, !.sw = sw]
      /\ ~astray' => ~astray /\ ~(heard /\ ~begun) /\ block.ud[1] + block.ud[2] = 0
  BY DEF HystereticSends, Sends, HystereticDint, HystereticOutput, MaxTurns
<1>2. /\ block \in Hysteretics /\ e \in Nat /\ e <= 2 * MaxV /\ e <= block.sigma
      /\ block.sigma \in Nat /\ block.sw \in {0, 1} /\ block.u \in Signals
      /\ block.ud[1] \in V /\ block.ud[2] \in V /\ block.ud[1] \in Int /\ block.ud[2] \in Int
      /\ block.ud[1] < block.ud[2] /\ W \in Int
      /\ W = IF block.sw = 0 THEN block.ud[2] ELSE block.ud[1]
  BY BandIs, Bounds DEF HystereticInv, Hysteretics, TypeOK
<1>3. block.sigma = e /\ block.sigma # Inf
  BY <1>1, <1>2, Bounds DEF Due
<1>4. /\ sw \in {0, 1} /\ sw = 1 - block.sw
      /\ Signal(sw, 0) \in Signals /\ Signal(sw, 0).v = sw /\ Signal(sw, 0).s = 0
  <2>1. sw \in {0, 1} /\ sw \in Int /\ 0 \in Slopes
    BY <1>2 DEF Slopes
  <2> QED
    BY <2>1, ASignal
<1> HIDE DEF W, sw
<1>5. moved \in Signals /\ moved.s = block.u.s /\ moved.v = At(block.u.v, block.u.s, e)
  BY <1>2, <1>3, Advanced
<1> HIDE DEF moved
<1>6. u \in Signals /\ u.s = block.u.s /\ u.v = moved.v + W + W
  <2>1. moved.v + W + W \in Int
    BY <1>2, <1>5 DEF Signals
  <2> QED
    BY <2>1, <1>5 DEF Signals
<1> HIDE DEF u
<1>7. sg \in Nat
  BY <1>6, RootOf
<1>8. /\ block' \in Hysteretics /\ block'.u = u /\ block'.sw = sw
      /\ block'.sigma = sg /\ block'.ud = block.ud
  BY <1>1, <1>2, <1>4, <1>6, <1>7 DEF Hysteretics
<1>9. Waited(block)' = IF block.sw = 0 THEN block.ud[1] ELSE block.ud[2]
  BY <1>2, <1>4, <1>8, BandIs
<1>10. truth[0].v \in Int /\ truth[0].v \in V /\ truth[0].s \in {-1, 0, 1}
  BY DEF TypeOK, Signals, Slopes
<1>11. Past \in Int /\ Past = truth[0].v - W
  BY <1>2, <1>10 DEF Past, W
<1>12. ASSUME heard, ~astray, begun
       PROVE  /\ Past = moved.v
              /\ block.sw = 0 => Past >= 0
              /\ block.sw = 1 => Past <= 0
  <2>1. Nears \/ Beyond
    BY <1>12, <1>3 DEF HystereticInv, First, Leaves
  <2> QED
    BY <2>1, <1>2, <1>3, <1>5, <1>11 DEF Nears, Beyond, Turned
<1>13. InsideBand
  <2> SUFFICES ASSUME heard, ~astray',
                      block.ud[1] < truth[0].v, truth[0].v < block.ud[2]
               PROVE  FALSE
    BY DEF InsideBand
  <2> QED
    BY <1>1, <1>2, <1>10, <1>11, <1>12
<1>14. ASSUME heard, ~astray'
       PROVE  block'.u.s = truth'[0].s /\ sg > 0 /\ (Nears' \/ Leaves')
  <2>1. ~astray /\ begun /\ block.ud[1] + block.ud[2] = 0 /\ block.u.s = truth[0].s
    BY <1>1, <1>14 DEF HystereticInv
  <2>2. Past' = truth[0].v - Waited(block)'
    BY <1>1 DEF Past
  <2>3. u.v = Past' /\ (block.sw = 0 => Past' > 0) /\ (block.sw = 1 => Past' < 0) /\ Past' \in Int
    <3>1. Waited(block)' = 0 - W
      BY <2>1, <1>2, <1>9
    <3>2. Past' = truth[0].v + W
      BY <2>2, <3>1, <1>2, <1>10
    <3>3. moved.v = truth[0].v - W /\ (block.sw = 0 => moved.v >= 0) /\ (block.sw = 1 => moved.v <= 0)
      BY <2>1, <1>11, <1>12, <1>14
    <3>4. u.v = truth[0].v + W
      BY <3>3, <1>2, <1>6, <1>10
    <3>5. (block.sw = 0 => W > 0) /\ (block.sw = 1 => W < 0)
      BY <2>1, <1>2
    <3> QED
      BY <3>2, <3>3, <3>4, <3>5, <1>2, <1>10
  <2>4. Past' <= 2 * MaxV /\ 0 - Past' <= 2 * MaxV
    BY <2>2, <1>2, <1>9, <1>10, Bounds
  <2>5. CASE u.s = 0 \/ (u.v > 0 /\ u.s = 1) \/ (u.v < 0 /\ u.s = -1)
    <3>1. sg = Inf
      BY <2>5, <1>6, RootOf
    <3> QED
      BY <3>1, <2>1, <2>3, <2>5, <1>1, <1>4, <1>6, <1>8, <1>2, <1>10, Bounds DEF Leaves, Turned
  <2>6. CASE (u.v > 0 /\ u.s = -1) \/ (u.v < 0 /\ u.s = 1)
    <3>1. sg = IF u.v > 0 THEN u.v ELSE 0 - u.v
      BY <2>3, <2>6, <1>6, RootOf
    <3>2. At(u.v, u.s, e') = u.v
      BY <2>3, <2>6, <1>1 DEF At
    <3> QED
      BY <3>1, <3>2, <2>1, <2>3, <2>4, <2>6, <1>1, <1>2, <1>4, <1>6, <1>8, <1>10 DEF Nears, Turned
  <2> QED
    BY <2>1, <2>3, <2>5, <2>6, <1>2, <1>6, <1>10
<1>15. ~heard => block'.u.s = 0 /\ sg = Inf
  BY <1>6, <1>8, RootOf DEF HystereticInv
<1>16. TurnsOfHysteresis'
  <2>1. u.v \in Int /\ (sg = 0 => u.v = 0)
    <3>1. u.v \in Int /\ u.s \in {-1, 0, 1}
      BY <1>6 DEF Signals, Slopes
    <3>2. u.v # 0 => sg # 0
      BY <3>1, <1>6, RootOf, Bounds
    <3> QED
      BY <3>1, <3>2
  <2>2. CASE turns = 0
    BY <2>1, <2>2, <1>1, <1>8 DEF TurnsOfHysteresis
  <2>3. CASE turns # 0
    <3>1. /\ e = 0 /\ turns \in 1 .. 3 /\ block.u.v = 0
          /\ turns <= IF W = 0 THEN 1 ELSE 2
      BY <2>3, <1>2, <1>3 DEF HystereticInv, TurnsOfHysteresis, W
    <3>2. moved.v = 0
      BY <3>1, <1>5 DEF At
    <3>3. u.v = W + W
      BY <3>2, <1>2, <1>6
    <3>4. W = 0 => Waited(block)' # 0
      BY <1>2, <1>9
    <3> QED
      BY <3>1, <3>3, <3>4, <2>1, <1>1, <1>2, <1>8 DEF TurnsOfHysteresis
  <2> QED
    BY <2>2, <2>3
<1> QED
  BY <1>1, <1>4, <1>7, <1>8, <1>13, <1>14, <1>15, <1>16 DEF HystereticInv

(* Time moves the input to the level it waits for, and the output stays. *)
LEMMA HystereticPasses ==
  ASSUME TypeOK, HystereticInv, kind = "hysteretic", TimePasses
  PROVE  HystereticInv' /\ out' = out
<1>1. /\ e < block.sigma /\ kind' = kind /\ block' = block /\ astray' = astray /\ turns' = 0
      /\ heard' = heard /\ truth'[0] = advance_time(truth[0], 1) /\ begun' = TRUE
      /\ out' = advance_time(out, 1)
      /\ e' = IF e < 2 * MaxV THEN e + 1 ELSE e
  BY Bounds DEF TimePasses, Due, TypeOK, HystereticInv, Hysteretics, Later
<1>2. /\ block \in Hysteretics /\ e \in Nat /\ e <= 2 * MaxV /\ block.sigma \in Nat
      /\ block.u \in Signals /\ block.u.v \in Int /\ block.sw \in {0, 1}
      /\ Waited(block) \in Int
  BY BandIs, Bounds DEF HystereticInv, Hysteretics, TypeOK, Signals
<1>3. truth[0] \in Signals /\ truth[0].v \in Int /\ truth[0].s \in {-1, 0, 1} /\ out \in Signals
  BY DEF TypeOK, Signals, Slopes
<1>4. truth'[0].s = truth[0].s /\ truth'[0].v = truth[0].v + truth[0].s
  BY <1>1, <1>3, Advanced DEF At
<1>5. out' = out
  BY <1>1, <1>3, Advanced DEF HystereticInv
<1>6. Past' = Past + truth[0].s /\ Past \in Int
  BY <1>1, <1>2, <1>3, <1>4 DEF Past
<1>7. heard /\ ~astray => Nears' \/ Leaves'
  <2> SUFFICES ASSUME heard, ~astray
               PROVE  Nears' \/ Leaves'
    OBVIOUS
  <2>1. block.u.s = truth[0].s /\ (Nears \/ Leaves)
    BY <1>1, <1>2 DEF HystereticInv, First, Beyond
  <2>2. CASE Nears
    <3>1. e' = e + 1 /\ Turned(Past) = block.sigma - e /\ Past # 0 /\ Turned(truth[0].s) = -1
      BY <2>2, <1>1, <1>2, <1>6, Bounds DEF Nears, Turned
    <3>2. Past' = At(block.u.v, block.u.s, e')
      BY <3>1, <2>1, <2>2, <1>2, <1>3, <1>6 DEF Nears, At
    <3> QED
      BY <3>1, <3>2, <2>2, <1>1, <1>2, <1>3, <1>4, <1>6 DEF Nears, Turned
  <2>3. CASE Leaves
    BY <2>3, <1>1, <1>2, <1>3, <1>4, <1>6 DEF Leaves, Turned
  <2> QED
    BY <2>1, <2>2, <2>3
<1>8. e' <= block.sigma /\ ~First
  BY <1>1, <1>2 DEF First
<1> QED
  BY <1>1, <1>4, <1>5, <1>7, <1>8 DEF HystereticInv, TurnsOfHysteresis

(* A hysteresis starts due at once. *)
LEMMA HystereticStarts ==
  ASSUME Init
  PROVE  HystereticInv
<1> SUFFICES ASSUME kind = "hysteretic"
             PROVE  HystereticInv
  BY DEF HystereticInv
<1>1. PICK band \in Bands : block = HystereticInit(band[1], band[2])
  BY DEF Init, BlockInit
<1>2. /\ block \in Hysteretics /\ block.u = Zero /\ block.sigma = 0
  BY <1>1, ZeroSignal DEF HystereticInit, Hysteretics
<1>3. /\ e = 0 /\ out = Zero /\ turns = 0 /\ heard = FALSE /\ begun = FALSE
  BY DEF Init
<1> QED
  BY <1>2, <1>3, ZeroSignal DEF HystereticInv, TurnsOfHysteresis, First

(* The invariant says what is sent outside the band. *)
LEMMA HystereticOutside ==
  ASSUME TypeOK, HystereticInv
  PROVE  OutsideBand
<1> SUFFICES ASSUME kind = "hysteretic", heard, ~Due, ~astray
             PROVE  /\ truth[0].v < block.ud[1] => out.v = 0
                    /\ truth[0].v > block.ud[2] => out.v = 1
  BY DEF OutsideBand, AtRest
<1>1. /\ block \in Hysteretics /\ e \in Nat /\ block.sigma \in Nat /\ e < block.sigma
      /\ block.sw \in {0, 1} /\ block.ud[1] \in Int /\ block.ud[2] \in Int
      /\ Waited(block) = IF block.sw = 0 THEN block.ud[2] ELSE block.ud[1]
  BY BandIs DEF HystereticInv, Hysteretics, TypeOK, Due
<1>2. out.v = block.sw /\ (Nears \/ Leaves)
  BY <1>1 DEF HystereticInv, First, Beyond
<1>3. truth[0].v \in Int
  BY DEF TypeOK, Signals
<1> QED
  BY <1>1, <1>2, <1>3 DEF Nears, Leaves, Turned, Past

-----------------------------------------------------------------------------
(* One step of a comparison, as a case of the next-state relation. *)
LEMMA CompareCases ==
  ASSUME kind = "compare", Next
  PROVE  \/ \E port \in {0, 1}, v \in V, s \in Slopes : CompareHears(port, Signal(v, s))
         \/ CompareSends \/ TimePasses
<1>1. ASSUME NEW port \in 0 .. 2, NEW v \in V, NEW s \in Slopes, Input(port, Signal(v, s))
      PROVE  port \in {0, 1} /\ CompareHears(port, Signal(v, s))
  BY <1>1 DEF Input, SwitchHears, IntegratorHears, HystereticHears, CompareHears,
              LevelsHear, CrossHears, OutputHears, Integrates, Detects
<1>2. Internal => CompareSends
  BY DEF Internal, SwitchSends, LevelsSend, HystereticSends, IntegratorSends, CrossSends,
         Integrates, Detects
<1> QED
  BY <1>1, <1>2 DEF Next

(* A comparison plans from the difference of its inputs. *)
LEMMA DifferenceIs ==
  ASSUME NEW u \in [0 .. 1 -> Signals], u[0].s = 0 \/ u[1].s = 0
  PROVE  /\ Difference(u) \in Signals /\ Difference(u).v = u[0].v - u[1].v
         /\ Difference(u).s = u[0].s - u[1].s /\ Difference(u).tiny = 0
         /\ u[0].s - u[1].s \in {-1, 0, 1} /\ u[0].v - u[1].v \in Int
<1>1. /\ u[0] \in Signals /\ u[1] \in Signals /\ u[0].v \in Int /\ u[1].v \in Int
      /\ u[0].s \in {-1, 0, 1} /\ u[1].s \in {-1, 0, 1}
  BY DEF Signals, Slopes
<1>2. u[0].v - u[1].v \in Int /\ u[0].s - u[1].s \in {-1, 0, 1}
  BY <1>1
<1>3. u[0].s - u[1].s \in Slopes
  BY <1>2 DEF Slopes
<1> QED
  BY <1>2, <1>3, ASignal DEF Difference

(* An input of a comparison: the other one is moved to the same instant,   *)
(* and the end of the lead planned.                                        *)
LEMMA CompareComes ==
  ASSUME NEW port \in {0, 1}, NEW v \in V, NEW s \in Slopes, TypeOK, CompareInv,
         kind = "compare", CompareHears(port, Signal(v, s))
  PROVE  CompareInv'
<1> DEFINE x     == Signal(v, s)
           u     == [i \in 0 .. 1 |-> IF i = port THEN x ELSE advance_time(block.u[i], e)]
           du    == Nudged(Difference(u))
           wrong == (Above(du) /\ block.sw = "UP") \/ (~Above(du) /\ block.sw = "LOW")
           sg    == IF wrong THEN 0
                    ELSE IF block.sigma > 0 \/ block.soon \/ begun THEN minposroot(du) ELSE 0
<1>1. x \in Signals /\ x.v = v /\ x.s = s /\ v \in Int /\ s \in {-1, 0, 1}
  BY ASignal, Bounds DEF Slopes
<1>2. /\ kind' = kind /\ e' = 0 /\ turns' = 0 /\ begun' = begun /\ out' = out
      /\ truth' = [truth EXCEPT ![port] = x] /\ (s = 0 \/ truth[1 - port].s = 0)
      /\ block' = [block EXCEPT !.u = u, !.du = du, !.soon = FALSE, !.sigma = sg]
  BY <1>1 DEF CompareHears, Hears, CompareDext
<1> HIDE DEF x
<1>3. /\ block \in Comparers /\ e \in Nat /\ block.sigma \in Nat /\ block.u[0] \in Signals
      /\ block.u[1] \in Signals /\ block.sw \in {"UNDEFINED", "LOW", "UP"}
  BY Bounds DEF CompareInv, Comparers, TypeOK
<1>4. \A i \in 0 .. 1 : /\ u[i] \in Signals /\ u[i].v \in V
                        /\ u[i].s = truth'[i].s /\ u[i].v = truth'[i].v
  <2> SUFFICES ASSUME NEW i \in 0 .. 1
               PROVE  /\ u[i] \in Signals /\ u[i].v \in V
                      /\ u[i].s = truth'[i].s /\ u[i].v = truth'[i].v
    OBVIOUS
  <2>1. truth'[i] = IF i = port THEN x ELSE truth[i]
    BY <1>2 DEF TypeOK
  <2>2. u[i] = IF i = port THEN x ELSE advance_time(block.u[i], e)
    OBVIOUS
  <2>3. CASE i = port
    BY <2>1, <2>2, <2>3, <1>1
  <2>4. CASE i # port
    <3>1. block.u[i] \in Signals
      BY <1>3
    <3>2. /\ advance_time(block.u[i], e) \in Signals
          /\ advance_time(block.u[i], e).s = block.u[i].s
          /\ advance_time(block.u[i], e).v = At(block.u[i].v, block.u[i].s, e)
      BY <3>1, <1>3, Advanced
    <3>3. block.u[i].s = truth[i].s /\ truth[i].v = At(block.u[i].v, block.u[i].s, e)
      BY DEF CompareInv
    <3>4. truth[i].v \in V
      BY DEF TypeOK
    <3> QED
      BY <2>1, <2>2, <2>4, <3>2, <3>3, <3>4
  <2> QED
    BY <2>3, <2>4
<1>5. u \in [0 .. 1 -> Signals]
  BY <1>4
<1>6. truth'[0].s = 0 \/ truth'[1].s = 0
  BY <1>1, <1>2, <1>3 DEF TypeOK
<1> HIDE DEF u
<1>7. u[0].s = 0 \/ u[1].s = 0
  BY <1>4, <1>6
<1>8. /\ du \in Signals /\ du.v = Lead' /\ du.s = LeadSlope' /\ du.s \in {-1, 0, 1}
      /\ du.v = u[0].v - u[1].v /\ du.v \in Int
      /\ du.v = 0 => du.tiny = du.s
      /\ du.v # 0 => du.tiny = 0
  BY <1>4, <1>5, <1>7, DifferenceIs, NudgedIs DEF Lead, LeadSlope
<1>9. du.v <= 2 * MaxV /\ 0 - du.v <= 2 * MaxV
  BY <1>4, <1>8, Bounds
<1> HIDE DEF du
<1>10. Above(du) <=> du.v > 0 \/ (du.v = 0 /\ du.s = 1)
  BY <1>8 DEF Above
<1>11. minposroot(du) \in Sigmas /\ sg \in Sigmas
  <2>1. minposroot(du) \in Sigmas
    BY <1>8, <1>9, RootOf, Bounds DEF Sigmas
  <2> QED
    BY <2>1, Members
<1> HIDE DEF sg
<1>12. /\ block' \in Comparers /\ block'.u = u /\ block'.du = du /\ block'.sw = block.sw
       /\ block'.sigma = sg
  BY <1>2, <1>3, <1>5, <1>8, <1>11 DEF Comparers
<1>13. \A i \in 0 .. 1 : truth'[i].v = At(block'.u[i].v, block'.u[i].s, e')
  <2>1. \A i \in 0 .. 1 : u[i].v \in Int /\ u[i].s \in {-1, 0, 1}
    BY <1>4 DEF Signals, Slopes
  <2> QED
    BY <2>1, <1>2, <1>4, <1>12 DEF At
<1>14. Opening => Opening'
  <2>1. Opening => sg = 0
    BY DEF Opening, sg
  <2>2. block'.soon = FALSE
    BY <1>2, <1>3 DEF Comparers
  <2> QED
    BY <2>1, <2>2, <1>2, <1>12 DEF Opening
<1>15. Opening' \/ Closes' \/ Wrong' \/ Opens'
  <2>1. Lead' = du.v /\ LeadSlope' = du.s
    BY <1>8
  <2>2. CASE wrong
    <3>1. sg = 0 /\ ((block.sw = "UP" /\ du.v >= 0) \/ (block.sw = "LOW" /\ du.v <= 0))
      BY <2>2, <1>8, <1>10 DEF sg
    <3> QED
      BY <3>1, <2>1, <1>2, <1>8, <1>12 DEF Wrong, Shown
  <2>3. CASE Opening
    BY <2>3, <1>14
  <2>4. CASE ~wrong /\ ~Opening
    <3>1. sg = minposroot(du) \/ (sg = 0 /\ ~begun)
      BY <2>4 DEF sg
    <3>2. block.sw \in {"LOW", "UP"}
      BY <2>4, <1>3 DEF CompareInv
    <3>3. block'.soon = FALSE
      BY <1>2, <1>3 DEF Comparers
    <3>4. \/ block.sw = "UP" /\ (du.v < 0 \/ (du.v = 0 /\ du.s # 1))
          \/ block.sw = "LOW" /\ (du.v > 0 \/ (du.v = 0 /\ du.s = 1))
      BY <2>4, <3>2, <1>8, <1>10
    <3>5. CASE sg = 0 /\ ~begun
      BY <3>5, <3>3, <1>2, <1>12 DEF Opening
    <3>6. CASE sg = minposroot(du) /\ (du.s = 0 \/ du.v = 0 \/ (du.v > 0 /\ du.s = 1) \/ (du.v < 0 /\ du.s = -1))
      <4>1. sg = Inf
        BY <3>6, <1>8, RootOf
      <4> QED
        BY <4>1, <3>4, <3>6, <2>1, <1>8, <1>12 DEF Opens, Shown
    <3>7. CASE sg = minposroot(du) /\ ((du.v > 0 /\ du.s = -1) \/ (du.v < 0 /\ du.s = 1))
      <4>1. sg = IF du.v > 0 THEN du.v ELSE 0 - du.v
        BY <3>7, <1>8, RootOf
      <4>2. sg # Inf
        BY <4>1, <1>8, <1>9, Bounds
      <4> QED
        BY <4>1, <4>2, <3>4, <3>7, <2>1, <1>2, <1>8, <1>12 DEF Closes, Shown
    <3> QED
      BY <3>1, <3>5, <3>6, <3>7, <1>8
  <2> QED
    BY <2>2, <2>3, <2>4
<1>16. block'.du.v = block'.u[0].v - block'.u[1].v /\ block'.du.s = LeadSlope'
  BY <1>8, <1>12
<1>17. block.sw = "UNDEFINED" => Opening' /\ (block'.du.v = 0 => block'.du.tiny = block'.du.s)
  BY <1>8, <1>12, <1>14 DEF CompareInv
<1>18. e' <= block'.sigma
  BY <1>2, <1>11, <1>12, Bounds
<1>19. \A i \in 0 .. 1 : block'.u[i].s = truth'[i].s /\ block'.u[i].v \in V
  BY <1>4, <1>12
<1>20. out'.s = 0 /\ (out'.v = (IF block'.sw = "LOW" THEN 1 ELSE 0) \/ Opening')
  BY <1>2, <1>12, <1>14 DEF CompareInv
<1> QED
  BY <1>2, <1>6, <1>12, <1>13, <1>15, <1>16, <1>17, <1>18, <1>19, <1>20 DEF CompareInv, TurnsOfComparison

(* After its transition it shows what it knows, unless it has gone astray. *)
LEMMA CompareSendsIt ==
  ASSUME TypeOK, CompareInv, kind = "compare", CompareSends
  PROVE  CompareInv' /\ out' \in Signals
<1> DEFINE b  == CompareLambda(block)
           u  == [i \in 0 .. 1 |-> advance_time(b.u[i], b.sigma)]
           d  == Difference(u)
           y  == IF b.sw = "LOW" THEN 1 ELSE -1
           du == IF d.v # 0 THEN d ELSE [d EXCEPT !.tiny = y]
           sg == minposroot(du)
           sw == IF b.sw = "UP" THEN "LOW" ELSE "UP"
           o  == IF b.sw = "LOW" THEN 0 ELSE 1
<1>1. /\ Due /\ kind' = kind /\ e' = 0 /\ truth' = truth /\ begun' = begun
      /\ out' = Signal(o, 0)
      /\ turns' = IF turns < 4 THEN turns + 1 ELSE turns
      /\ block' = [b EXCEPT !.u = u, !.du = du, !.sigma = sg, !.soon = (sg = 0), !.sw = sw]
      /\ ~astray' => ~astray /\ ~(block'.du.v = 0 /\ block'.du.s # 0)
                     /\ (begun \/ block.sw = "UNDEFINED")
  BY DEF CompareSends, Sends, CompareDint, CompareOutput, MaxTurns
<1>2. /\ block \in Comparers /\ e \in Nat /\ e <= 2 * MaxV /\ e <= block.sigma
      /\ block.sigma \in Nat /\ block.u[0] \in Signals /\ block.u[1] \in Signals
      /\ block.du \in Signals /\ block.sw \in {"UNDEFINED", "LOW", "UP"}
  BY Bounds DEF CompareInv, Comparers, TypeOK
<1>3. block.sigma = e /\ block.sigma # Inf
  BY <1>1, <1>2, Bounds DEF Due
<1>4. /\ b \in Comparers /\ b.u = block.u /\ b.sigma = e /\ b.sw \in {"LOW", "UP"}
      /\ block.sw = "UNDEFINED" => (b.sw = "UP" <=> Above(block.du))
      /\ block.sw # "UNDEFINED" => b.sw = block.sw
  BY <1>2, <1>3 DEF CompareLambda, Comparers
<1> HIDE DEF b
<1>5. \A i \in 0 .. 1 : /\ u[i] \in Signals /\ u[i].v \in V
                        /\ u[i].s = truth[i].s /\ u[i].v = truth[i].v
  <2> SUFFICES ASSUME NEW i \in 0 .. 1
               PROVE  /\ u[i] \in Signals /\ u[i].v \in V
                      /\ u[i].s = truth[i].s /\ u[i].v = truth[i].v
    OBVIOUS
  <2>1. block.u[i] \in Signals /\ u[i] = advance_time(block.u[i], e)
    BY <1>2, <1>4
  <2>2. /\ advance_time(block.u[i], e) \in Signals
        /\ advance_time(block.u[i], e).s = block.u[i].s
        /\ advance_time(block.u[i], e).v = At(block.u[i].v, block.u[i].s, e)
    BY <2>1, <1>2, Advanced
  <2>3. truth[i].v \in V
    BY DEF TypeOK
  <2>4. block.u[i].s = truth[i].s /\ truth[i].v = At(block.u[i].v, block.u[i].s, e)
    BY DEF CompareInv
  <2> HIDE DEF u
  <2> QED
    BY <2>1, <2>2, <2>3, <2>4
<1>6. u \in [0 .. 1 -> Signals]
  BY <1>5
<1> HIDE DEF u
<1>7. u[0].s = 0 \/ u[1].s = 0
  BY <1>5 DEF CompareInv
<1>8. /\ d \in Signals /\ d.v = Lead /\ d.s = LeadSlope /\ d.tiny = 0 /\ d.v \in Int
      /\ d.s \in {-1, 0, 1} /\ d.v = u[0].v - u[1].v
  BY <1>5, <1>6, <1>7, DifferenceIs DEF Lead, LeadSlope
<1>9. d.v <= 2 * MaxV /\ 0 - d.v <= 2 * MaxV
  BY <1>5, <1>8, Bounds
<1> HIDE DEF d
<1>10. y \in -1 .. 1 /\ (b.sw = "LOW" => y = 1) /\ (b.sw # "LOW" => y = -1)
  OBVIOUS
<1> HIDE DEF y
<1>11. /\ du \in Signals /\ du.v = d.v /\ du.s = d.s
  BY <1>8, <1>10 DEF Signals
<1> HIDE DEF du
<1>12. sg \in Sigmas /\ sg \in Nat
  BY <1>8, <1>9, <1>11, RootOf, Bounds DEF Sigmas
<1>13. sw \in {"LOW", "UP"} /\ (sw = "LOW" <=> b.sw = "UP") /\ o \in {0, 1}
       /\ (o = 1 <=> sw = "LOW") /\ Signal(o, 0) \in Signals
       /\ Signal(o, 0).v = o /\ Signal(o, 0).s = 0
  <2>1. o \in Int /\ 0 \in Slopes
    BY DEF Slopes
  <2> QED
    BY <1>4, <2>1, ASignal
<1> HIDE DEF sw, o
<1>14. /\ block' \in Comparers /\ block'.u = u /\ block'.du = du /\ block'.sw = sw
       /\ block'.sigma = sg
  <2>1. (sg = 0) \in BOOLEAN
    OBVIOUS
  <2> HIDE DEF sg
  <2> QED
    BY <2>1, <1>1, <1>4, <1>6, <1>11, <1>12, <1>13 DEF Comparers
<1>15. Lead' = Lead /\ LeadSlope' = LeadSlope
  BY <1>1 DEF Lead, LeadSlope
<1>16. ASSUME ~astray'
       PROVE  Closes' \/ Opens'
  <2>1. /\ ~astray /\ (du.v = 0 => du.s = 0) /\ (begun \/ block.sw = "UNDEFINED")
    BY <1>1, <1>14, <1>16
  <2>3. (sw = "LOW" => Lead >= 0) /\ (sw = "UP" => Lead <= 0)
    <3>1. CASE block.sw = "UNDEFINED"
      <4>1. /\ e = 0 /\ block.du.v = block.u[0].v - block.u[1].v
            /\ block.du.v = 0 => block.du.tiny = LeadSlope
        BY <3>1 DEF CompareInv, Opening
      <4>2. block.u[0].v = truth[0].v /\ block.u[1].v = truth[1].v
        <5>1. \A i \in 0 .. 1 : block.u[i].v \in Int
          BY <1>2 DEF Signals
        <5> QED
          BY <4>1, <5>1 DEF CompareInv, At
      <4>3. block.du.v = Lead /\ Lead \in Int
        BY <4>1, <4>2, <1>8 DEF Lead
      <4>4. Above(block.du) <=> Lead > 0 \/ (Lead = 0 /\ block.du.tiny = 1)
        BY <4>3 DEF Above
      <4> QED
        BY <4>3, <4>4, <3>1, <1>4, <1>13
    <3>2. CASE block.sw # "UNDEFINED"
      <4>1. begun /\ b.sw = block.sw
        BY <2>1, <3>2, <1>4
      <4>2. Closes \/ Wrong
        BY <2>1, <4>1, <1>3 DEF CompareInv, Opening, Opens
      <4>3. Shown(Lead) <= 0 /\ Lead \in Int
        BY <4>2, <1>2, <1>3, <1>8 DEF Closes, Wrong
      <4> QED
        BY <4>1, <4>3, <1>4, <1>13 DEF Shown
    <3> QED
      BY <3>1, <3>2
  <2>4. CASE du.s = 0 \/ du.v = 0 \/ (du.v > 0 /\ du.s = 1) \/ (du.v < 0 /\ du.s = -1)
    <3>1. sg = Inf
      BY <2>1, <2>4, <1>8, <1>11, RootOf
    <3>2. /\ (sw = "LOW" => Lead >= 0 /\ LeadSlope >= 0)
          /\ (sw = "UP" => 0 - Lead >= 0 /\ 0 - LeadSlope >= 0)
      BY <2>1, <2>3, <2>4, <1>8, <1>11
    <3> QED
      BY <3>1, <3>2, <1>13, <1>14, <1>15, Bounds DEF Opens, Shown
  <2>5. CASE (du.v > 0 /\ du.s = -1) \/ (du.v < 0 /\ du.s = 1)
    <3>1. sg = IF du.v > 0 THEN du.v ELSE 0 - du.v
      BY <2>5, <1>8, <1>11, RootOf
    <3>2. sg # Inf /\ sg > 0
      BY <2>5, <3>1, <1>8, <1>9, <1>11, Bounds
    <3>3. \/ sw = "LOW" /\ Lead = sg /\ LeadSlope = -1
          \/ sw = "UP" /\ 0 - Lead = sg /\ LeadSlope = 1
      BY <2>3, <2>5, <3>1, <1>8, <1>11, <1>13
    <3>4. Shown(Lead)' = sg /\ Shown(LeadSlope)' = -1
      BY <3>3, <1>14, <1>15 DEF Shown
    <3>5. Closes'
      BY <3>2, <3>4, <1>1, <1>12, <1>14 DEF Closes
    <3> QED
      BY <3>5
  <2> QED
    BY <2>4, <2>5, <1>8, <1>11
<1>17. \A i \in 0 .. 1 : /\ truth'[i].v = At(block'.u[i].v, block'.u[i].s, e')
                         /\ block'.u[i].s = truth'[i].s /\ block'.u[i].v \in V
  <2>1. \A i \in 0 .. 1 : u[i].v \in Int
    BY <1>5 DEF Signals
  <2> QED
    BY <2>1, <1>1, <1>5, <1>14 DEF At
<1>18. TurnsOfComparison'
  <2>1. d.v = 0 => du.tiny = y
    BY <1>8, <1>10 DEF du, Signals
  <2>2. sg = 0 => d.v = 0 /\ d.s # 0 /\ d.s # y
    BY <2>1, <1>8, <1>10, <1>11, RootOf, Bounds
  <2>3. sg = 0 => d.s = (IF sw = "UP" THEN -1 ELSE 1)
    BY <2>2, <1>4, <1>8, <1>10, <1>13
  <2>4. CASE turns = 0
    <3> HIDE DEF sg
    <3> QED
      BY <2>2, <2>3, <2>4, <1>1, <1>11, <1>13, <1>14 DEF TurnsOfComparison
  <2>5. CASE turns # 0
    <3>1. /\ e = 0 /\ turns = 1 /\ block.sw # "UNDEFINED"
          /\ block.du.s = (IF block.sw = "UP" THEN -1 ELSE 1)
      BY <2>5, <1>2, <1>3 DEF CompareInv, TurnsOfComparison
    <3>2. d.s = block.du.s
      BY <1>8 DEF CompareInv
    <3>3. y = IF block.sw = "UP" THEN -1 ELSE 1
      BY <3>1, <1>2, <1>4, <1>10
    <3>4. sg # 0
      BY <3>1, <3>2, <3>3, <2>2
    <3> HIDE DEF sg
    <3> QED
      BY <3>1, <3>4, <1>1, <1>14 DEF TurnsOfComparison
  <2> QED
    BY <2>4, <2>5
<1>19. /\ block'.du.v = block'.u[0].v - block'.u[1].v
       /\ truth'[0].s = 0 \/ truth'[1].s = 0
       /\ block'.du.s = LeadSlope' /\ e' <= block'.sigma
  BY <1>1, <1>8, <1>11, <1>12, <1>14, <1>15 DEF CompareInv
<1>20. out'.s = 0 /\ out'.v = (IF block'.sw = "LOW" THEN 1 ELSE 0) /\ block'.sw # "UNDEFINED"
  BY <1>1, <1>13, <1>14
<1> QED
  BY <1>1, <1>13, <1>14, <1>16, <1>17, <1>18, <1>19, <1>20 DEF CompareInv

(* Time moves the lead to its end. *)
LEMMA ComparePasses ==
  ASSUME TypeOK, CompareInv, kind = "compare", TimePasses
  PROVE  CompareInv'
<1>1. /\ e < block.sigma /\ kind' = kind /\ block' = block /\ astray' = astray /\ turns' = 0
      /\ truth'[0] = advance_time(truth[0], 1) /\ truth'[1] = advance_time(truth[1], 1)
      /\ truth'[0].v \in V /\ truth'[1].v \in V
      /\ out' = advance_time(out, 1)
      /\ e' = IF e < 2 * MaxV THEN e + 1 ELSE e
  BY Bounds DEF TimePasses, Due, TypeOK, CompareInv, Comparers, Later
<1>2. /\ block \in Comparers /\ e \in Nat /\ e <= 2 * MaxV /\ block.sigma \in Nat
      /\ (block.sigma = Inf \/ block.sigma <= 2 * MaxV)
      /\ block.u[0] \in Signals /\ block.u[1] \in Signals
  BY Bounds DEF CompareInv, Comparers, TypeOK
<1>3. truth[0] \in Signals /\ truth[1] \in Signals /\ out \in Signals
  BY DEF TypeOK
<1>4. /\ truth[0].v \in Int /\ truth[0].s \in {-1, 0, 1}
      /\ truth[1].v \in Int /\ truth[1].s \in {-1, 0, 1}
      /\ truth'[0].s = truth[0].s /\ truth'[0].v = truth[0].v + truth[0].s
      /\ truth'[1].s = truth[1].s /\ truth'[1].v = truth[1].v + truth[1].s
  BY <1>1, <1>3, Advanced DEF At, Signals, Slopes
<1>5. out' = out
  BY <1>1, <1>3, Advanced DEF CompareInv
<1>6. Lead \in Int /\ LeadSlope \in {-1, 0, 1} /\ Lead' = Lead + LeadSlope /\ LeadSlope' = LeadSlope
  BY <1>4 DEF CompareInv, Lead, LeadSlope
<1>7. \A i \in 0 .. 1 : truth'[i].v = At(block.u[i].v, block.u[i].s, e')
  <2> SUFFICES ASSUME NEW i \in {0, 1}
               PROVE  truth'[i].v = At(block.u[i].v, block.u[i].s, e')
    OBVIOUS
  <2>1. /\ block.u[i].s = truth[i].s /\ block.u[i].v \in V /\ block.u[i].v \in Int
        /\ truth[i].v = At(block.u[i].v, block.u[i].s, e)
    BY Bounds DEF CompareInv
  <2>2. /\ truth'[i].v = truth[i].v + truth[i].s /\ truth'[i].v \in V
        /\ truth[i].v \in Int /\ truth[i].s \in {-1, 0, 1}
    BY <1>1, <1>4
  <2>3. CASE truth[i].s = 0
    BY <2>1, <2>2, <2>3 DEF At
  <2>4. CASE truth[i].s # 0
    <3>1. e + 1 <= 2 * MaxV
      BY <2>1, <2>2, <2>4, <1>2, Bounds DEF At
    <3>2. e' = e + 1
      BY <3>1, <1>1, <1>2, Bounds
    <3> QED
      BY <2>1, <2>2, <2>4, <3>2, <1>2 DEF At
  <2> QED
    BY <2>3, <2>4
<1>8. ~astray => Closes' \/ Opens'
  <2> SUFFICES ASSUME ~astray
               PROVE  Closes' \/ Opens'
    OBVIOUS
  <2>1. Closes \/ Opens
    BY <1>1, <1>2 DEF CompareInv, Opening, Wrong
  <2>2. CASE Closes
    <3>1. e' = e + 1 /\ Shown(Lead) = block.sigma - e /\ Lead # 0 /\ Shown(LeadSlope) = -1
      BY <2>2, <1>1, <1>2, <1>6, Bounds DEF Closes, Shown
    <3> QED
      BY <3>1, <2>2, <1>1, <1>2, <1>6 DEF Closes, Shown
  <2>3. CASE Opens
    BY <2>3, <1>1, <1>2, <1>6 DEF Opens, Shown
  <2> QED
    BY <2>1, <2>2, <2>3
<1>9. e' <= block.sigma /\ ~Opening
  BY <1>1, <1>2, Bounds DEF Opening
<1>10. truth'[0].s = 0 \/ truth'[1].s = 0
  BY <1>4 DEF CompareInv
<1> QED
  BY <1>1, <1>4, <1>5, <1>6, <1>7, <1>8, <1>9, <1>10 DEF CompareInv, TurnsOfComparison

(* A comparison starts due at once. *)
LEMMA CompareStarts ==
  ASSUME Init
  PROVE  CompareInv
<1> SUFFICES ASSUME kind = "compare"
             PROVE  CompareInv
  BY DEF CompareInv
<1>1. block = CompareInit
  BY DEF Init, BlockInit
<1>2. /\ e = 0 /\ out = Zero /\ turns = 0 /\ begun = FALSE
      /\ \A i \in 0 .. 1 : truth[i] = Zero
  BY DEF Init, Integrates
<1>3. /\ block.u = [i \in 0 .. 1 |-> Zero] /\ block.du = Zero /\ block.sigma = 0
      /\ block.sw = "UNDEFINED" /\ block.soon = FALSE
  BY <1>1 DEF CompareInit
<1>4. block \in Comparers
  BY <1>1, ZeroSignal, Members DEF CompareInit, Comparers
<1> QED
  BY <1>2, <1>3, <1>4, ZeroSignal, Members DEF CompareInv, TurnsOfComparison, Opening, At, LeadSlope

(* The invariant says which input is the larger one. *)
LEMMA CompareTells ==
  ASSUME TypeOK, CompareInv
  PROVE  ComparesUnlessAstray
<1> SUFFICES ASSUME kind = "compare", ~Due, ~astray
             PROVE  /\ truth[0].v > truth[1].v => out.v = 1
                    /\ truth[0].v < truth[1].v => out.v = 0
  BY DEF ComparesUnlessAstray, Compares
<1>1. /\ block \in Comparers /\ e \in Nat /\ block.sigma \in Nat /\ e < block.sigma
      /\ block.sw \in {"UNDEFINED", "LOW", "UP"}
  BY Bounds DEF CompareInv, Comparers, TypeOK, Due
<1>2. out.v = (IF block.sw = "LOW" THEN 1 ELSE 0) /\ (Closes \/ Opens)
  BY <1>1 DEF CompareInv, Opening, Wrong
<1>3. truth[0].v \in Int /\ truth[1].v \in Int
  BY DEF TypeOK, Signals
<1> QED
  BY <1>1, <1>2, <1>3 DEF Closes, Opens, Shown, Lead

-----------------------------------------------------------------------------
(* One step of a switch, as a case of the next-state relation. *)
LEMMA SwitchCases ==
  ASSUME kind = "qss_switch", Next
  PROVE  \/ \E port \in 0 .. 2, v \in V, s \in Slopes : SwitchHears(port, Signal(v, s))
         \/ SwitchSends \/ TimePasses
<1>1. ASSUME NEW port \in 0 .. 2, NEW v \in V, NEW s \in Slopes, Input(port, Signal(v, s))
      PROVE  SwitchHears(port, Signal(v, s))
  BY <1>1 DEF Input, CompareHears, IntegratorHears, HystereticHears,
              LevelsHear, CrossHears, OutputHears, Integrates, Detects
<1>2. Internal => SwitchSends
  BY DEF Internal, CompareSends, LevelsSend, HystereticSends, IntegratorSends, CrossSends,
         Integrates, Detects
<1> QED
  BY <1>1, <1>2 DEF Next

(* What stays the same of a switch whatever comes: its inputs and level.   *)
LEMMA SwitchIs ==
  ASSUME TypeOK, SwitchInv, kind = "qss_switch"
  PROVE  /\ block \in Switches /\ e \in Nat /\ e <= 2 * MaxV /\ e <= block.sigma
         /\ block.sigma \in Nat /\ block.tcross \in Nat
         /\ block.sigma = Inf \/ block.sigma <= 2 * MaxV
         /\ block.tcross = Inf \/ block.tcross <= 2 * MaxV
         /\ block.level \in V /\ block.level \in Int /\ block.sw \in {0, 2}
         /\ block.change \in BOOLEAN
         /\ \A i \in 0 .. 2 : block.u[i] \in Signals /\ truth[i] \in Signals
         /\ truth[1].v \in Int /\ truth[1].s \in {-1, 0, 1} /\ truth[1].v \in V
         /\ Control \in Int /\ Control <= 2 * MaxV /\ 0 - Control <= 2 * MaxV
<1>1. /\ block \in Switches /\ e \in Nat /\ e <= 2 * MaxV /\ e <= block.sigma
      /\ block.level \in V /\ block.sw \in {0, 2} /\ block.change \in BOOLEAN
      /\ block.sigma \in Sigmas /\ block.tcross \in Sigmas
      /\ block.u \in [0 .. 2 -> Signals]
  BY Bounds DEF SwitchInv, Switches, TypeOK
<1>2. \A i \in 0 .. 2 : block.u[i] \in Signals /\ truth[i] \in Signals
  BY <1>1 DEF TypeOK
<1>3. truth[1].v \in Int /\ truth[1].s \in {-1, 0, 1} /\ truth[1].v \in V
  BY <1>2 DEF TypeOK, Signals, Slopes
<1>4. Control \in Int /\ Control <= 2 * MaxV /\ 0 - Control <= 2 * MaxV
  BY <1>1, <1>3, Bounds DEF Control
<1> QED
  BY <1>1, <1>2, <1>3, <1>4, Bounds

(* The inputs that a switch chooses from, as it brings them to the present. *)
LEMMA DataMoved ==
  ASSUME NEW i \in {0, 2}, TypeOK, SwitchInv, kind = "qss_switch"
  PROVE  /\ advance_time(block.u[i], e) \in Signals
         /\ advance_time(block.u[i], e).s = truth[i].s
         /\ advance_time(block.u[i], e).v = truth[i].v
         /\ truth[i].v \in V /\ At(truth[i].v, truth[i].s, 0) = truth[i].v
<1>1. block.u[i] \in Signals /\ truth[i] \in Signals /\ e \in Nat
  BY SwitchIs
<1>2. block.u[i].s = truth[i].s /\ truth[i].v = At(block.u[i].v, block.u[i].s, e)
  BY DEF SwitchInv
<1>3. /\ advance_time(block.u[i], e) \in Signals
      /\ advance_time(block.u[i], e).s = block.u[i].s
      /\ advance_time(block.u[i], e).v = At(block.u[i].v, block.u[i].s, e)
  BY <1>1, Advanced, Zenon
<1>4. truth[i].v \in V /\ truth[i].v \in Int
  BY <1>1 DEF TypeOK, Signals
<1> QED
  BY <1>2, <1>3, <1>4 DEF At

(* A control comes to a switch, which plans its crossing. *)
LEMMA ControlComes ==
  ASSUME NEW v \in V, NEW s \in Slopes, TypeOK, SwitchInv, kind = "qss_switch",
         SwitchHears(1, Signal(v, s))
  PROVE  SwitchInv'
<1> DEFINE x     == Signal(v, s)
           a     == [x EXCEPT !.v = @ - block.level]
           c     == Nudged(a)
           u     == Heard(block, 1, x, e)
           t     == minposroot(u[1])
           wrong == WrongSide(block, u[1])
           sg    == IF wrong THEN 0 ELSE IF block.sigma # 0 THEN t ELSE block.sigma
           ch    == IF wrong \/ block.sigma # 0 THEN TRUE ELSE block.change
<1>1. x \in Signals /\ x.v = v /\ x.s = s /\ x.tiny = 0 /\ v \in Int /\ s \in {-1, 0, 1}
  BY ASignal, Bounds DEF Slopes
<1>2. /\ kind' = kind /\ e' = 0 /\ turns' = 0 /\ heard' = TRUE /\ out' = out
      /\ truth' = [truth EXCEPT ![1] = x]
      /\ block' = ControlHeard(block, x, e)
      /\ ~astray' => ~Due \/ block.level # v
  <2>1. truth'[1] = x
    BY DEF SwitchHears, Hears, TypeOK
  <2> QED
    BY <2>1, <1>1 DEF SwitchHears, Hears, SwitchDext
<1>3. /\ block \in Switches /\ e \in Nat /\ block.sigma \in Nat /\ block.tcross \in Nat
      /\ block.level \in V /\ block.level \in Int /\ block.sw \in {0, 2}
      /\ block.change \in BOOLEAN
      /\ \A i \in 0 .. 2 : block.u[i] \in Signals /\ truth[i] \in Signals
  BY SwitchIs
<1>4. block' = [block EXCEPT !.u = u, !.tcross = t, !.sigma = sg, !.change = ch]
  BY <1>2, <1>3 DEF ControlHeard, Switches
<1> HIDE DEF x
<1>5. a \in Signals /\ a.v = v - block.level /\ a.s = s /\ a.tiny = 0
  BY <1>1, <1>3 DEF Signals
<1> HIDE DEF a
<1>6. /\ c \in Signals /\ c.v = v - block.level /\ c.s = s /\ c.v \in Int
      /\ c.v = 0 => c.tiny = s
      /\ c.v # 0 => c.tiny = 0
  BY <1>1, <1>3, <1>5, NudgedIs
<1>7. u[1] = c /\ u[0] = advance_time(block.u[0], e) /\ u[2] = advance_time(block.u[2], e)
      /\ DOMAIN u = 0 .. 2
  BY DEF Heard, a
<1> HIDE DEF c
<1>8. \A i \in {0, 2} : /\ u[i] \in Signals /\ u[i].s = truth[i].s /\ u[i].v = truth[i].v
                       /\ truth[i].v \in V /\ At(truth[i].v, truth[i].s, 0) = truth[i].v
  <2> HIDE DEF u
  <2> QED
    BY <1>7, DataMoved
<1>9. u \in [0 .. 2 -> Signals]
  <2>1. \A i \in 0 .. 2 : u[i] \in Signals
    <3>1. \A i \in 0 .. 2 : i = 0 \/ i = 1 \/ i = 2
      OBVIOUS
    <3> QED
      BY <3>1, <1>3, <1>6, <1>7, <1>8
  <2>2. u = [i \in 0 .. 2 |-> u[i]]
    BY DEF Heard
  <2> HIDE DEF u
  <2> QED
    BY <2>1, <2>2
<1> HIDE DEF u
<1>10. c.v <= 2 * MaxV /\ 0 - c.v <= 2 * MaxV
  BY <1>1, <1>3, <1>6, Bounds
<1>11. t \in Sigmas /\ t \in Nat /\ t # 0
       /\ IF c.v = 0 THEN t = Inf ELSE t = Root(c.v, s)
  <2>1. t = minposroot(c)
    BY <1>7
  <2> HIDE DEF t
  <2>2. /\ s = 0 \/ (c.v > 0 /\ s = 1) \/ (c.v < 0 /\ s = -1) \/ c.v = 0 => t = Inf
        /\ c.v > 0 /\ s = -1 => t = c.v
        /\ c.v < 0 /\ s = 1 => t = 0 - c.v
    BY <2>1, <1>1, <1>6, RootOf
  <2>3. IF c.v = 0 THEN t = Inf ELSE t = Root(c.v, s)
    BY <2>2, <1>1, <1>6 DEF Root
  <2>4. t \in Nat /\ t # 0 /\ (t = Inf \/ t <= 2 * MaxV)
    BY <2>2, <1>1, <1>6, <1>10, Bounds
  <2> QED
    BY <2>3, <2>4, Bounds DEF Sigmas
<1>12. wrong <=> \/ block.sw = 2 /\ (c.v > 0 \/ (c.v = 0 /\ s = 1))
                 \/ block.sw = 0 /\ ~(c.v > 0 \/ (c.v = 0 /\ s = 1))
  BY <1>1, <1>3, <1>6, <1>7 DEF WrongSide, Above
<1> HIDE DEF t, wrong
<1>13. sg \in Sigmas /\ sg \in {0, t} /\ ch \in BOOLEAN
  BY <1>3, <1>11, Members
<1> HIDE DEF sg, ch
<1>14. /\ block' \in Switches /\ block'.u = u /\ block'.sw = block.sw /\ block'.tcross = t
       /\ block'.level = block.level /\ block'.sigma = sg /\ block'.change = ch
  BY <1>3, <1>4, <1>9, <1>11, <1>13 DEF Switches
<1>15. truth'[1] = x /\ truth'[0] = truth[0] /\ truth'[2] = truth[2]
  BY <1>2 DEF TypeOK
<1>16. Control' = c.v
  BY <1>1, <1>6, <1>14, <1>15 DEF Control
<1>17. ASSUME ~astray'
       PROVE  OffLevel' \/ OnTheLevel' \/ Crossing' \/ Leaving'
  <2>1. CASE c.v # 0 /\ sg = 0
    BY <2>1, <1>1, <1>11, <1>14, <1>15, <1>16 DEF OffLevel
  <2>2. CASE c.v = 0 /\ sg = 0
    <3>1. wrong
      <4> SUFFICES ASSUME ~wrong
                   PROVE  FALSE
        OBVIOUS
      <4>1. block.sigma = 0
        BY <2>2, <1>11 DEF sg
      <4>2. block.level # v
        BY <4>1, <1>2, <1>3, <1>17 DEF Due
      <4> QED
        BY <4>2, <2>2, <1>1, <1>3, <1>6
    <3>2. ch = TRUE /\ t = Inf
      BY <3>1, <2>2, <1>1, <1>11 DEF Root, ch
    <3> QED
      BY <3>1, <3>2, <2>2, <1>1, <1>3, <1>12, <1>14, <1>15, <1>16 DEF OnTheLevel, RightSide
  <2>3. CASE sg # 0
    <3>1. ~wrong /\ ch = TRUE /\ sg = t
      BY <2>3 DEF sg, ch
    <3>2. \/ block.sw = 0 /\ (c.v > 0 \/ (c.v = 0 /\ s = 1))
          \/ block.sw = 2 /\ (c.v < 0 \/ (c.v = 0 /\ s # 1))
      BY <3>1, <1>3, <1>6, <1>12
    <3>3. CASE t = Inf
      <4>1. s = 0 \/ c.v = 0 \/ (c.v > 0 /\ s = 1) \/ (c.v < 0 /\ s = -1)
        BY <3>3, <1>1, <1>6, <1>10, <1>11, Bounds DEF Root
      <4> QED
        BY <3>1, <3>2, <3>3, <4>1, <1>1, <1>6, <1>14, <1>15, <1>16 DEF Leaving, RightSide
    <3>4. CASE t # Inf
      <4>1. \/ block.sw = 0 /\ t = c.v /\ s = -1
            \/ block.sw = 2 /\ t = 0 - c.v /\ s = 1
        BY <3>2, <3>4, <1>1, <1>6, <1>11 DEF Root
      <4> QED
        BY <3>1, <3>4, <4>1, <2>3, <1>1, <1>2, <1>6, <1>11, <1>14, <1>15, <1>16 DEF Crossing
    <3> QED
      BY <3>3, <3>4
  <2> QED
    BY <2>1, <2>2, <2>3, <1>6
<1>18. /\ block'.u[1].s = truth'[1].s /\ block'.u[1].v + block'.level \in V
       /\ Control' = At(block'.u[1].v, block'.u[1].s, e')
  <2>1. c.v + block.level = v
    BY <1>1, <1>3, <1>6
  <2>2. At(c.v, c.s, 0) = c.v
    BY <1>1, <1>6 DEF At
  <2> QED
    BY <2>1, <2>2, <1>1, <1>2, <1>6, <1>7, <1>14, <1>15, <1>16
<1>19. \A i \in {0, 2} : /\ block'.u[i].s = truth'[i].s /\ block'.u[i].v \in V
                         /\ truth'[i].v = At(block'.u[i].v, block'.u[i].s, e')
  BY <1>2, <1>8, <1>14, <1>15
<1>20. block'.sigma = 0 \/ (out'.v = truth'[block'.sw].v /\ out'.s = truth'[block'.sw].s)
  <2>1. sg # 0 => block.sigma # 0
    BY DEF sg
  <2>2. truth'[block.sw] = truth[block.sw]
    BY <1>3, <1>15
  <2> QED
    BY <2>1, <2>2, <1>2, <1>14 DEF SwitchInv
<1>21. /\ e' <= block'.sigma /\ block'.sigma \in {0, block'.tcross}
       /\ block'.tcross = 0 => block'.change
  BY <1>2, <1>11, <1>13, <1>14, Bounds
<1> QED
  BY <1>2, <1>14, <1>17, <1>18, <1>19, <1>20, <1>21 DEF SwitchInv, OnlyOnce

(* One of the inputs to select from comes: the control is moved to the     *)
(* same instant.                                                           *)
LEMMA DataComes ==
  ASSUME NEW port \in {0, 2}, NEW v \in V, NEW s \in Slopes, TypeOK, SwitchInv,
         kind = "qss_switch", SwitchHears(port, Signal(v, s))
  PROVE  SwitchInv'
<1> DEFINE x  == Signal(v, s)
           c  == advance_time(block.u[1], e)
           u  == Heard(block, port, x, e)
           t  == Less(block.tcross, e)
           selected == block.sw = port /\ e < block.sigma
           sg == IF selected \/ e >= block.sigma THEN 0 ELSE t
           ch == ~selected
<1>1. x \in Signals /\ x.v = v /\ x.s = s
  BY ASignal, Bounds
<1>2. /\ kind' = kind /\ e' = 0 /\ turns' = 0 /\ heard' = heard /\ out' = out
      /\ truth' = [truth EXCEPT ![port] = x]
      /\ block' = [block EXCEPT !.u = u, !.tcross = t, !.change = ch, !.sigma = sg]
      /\ ~astray' => ~astray /\ (Due => block.level # truth[1].v)
  <2>1. port # 1
    OBVIOUS
  <2>2. Hears(SwitchDext(block, port, x, e), port, x)
    BY <2>1, <1>1 DEF SwitchHears
  <2>3. block' = [block EXCEPT !.u = u, !.tcross = t, !.change = ch, !.sigma = sg]
    BY <2>1, <2>2 DEF Hears, SwitchDext, DataHeard
  <2>4. heard' = heard
    BY <2>1 DEF SwitchHears, TypeOK
  <2>5. ~astray' => ~astray /\ (Due => block.level # truth[1].v)
    <3>1. truth'[1] = truth[1]
      BY <2>1, <2>2 DEF Hears, TypeOK
    <3> QED
      BY <3>1, <2>1 DEF SwitchHears
  <2> QED
    BY <2>2, <2>3, <2>4, <2>5 DEF Hears
<1> HIDE DEF x
<1>3. /\ block \in Switches /\ e \in Nat /\ block.sigma \in Nat /\ block.tcross \in Nat
      /\ block.sigma = Inf \/ block.sigma <= 2 * MaxV
      /\ block.tcross = Inf \/ block.tcross <= 2 * MaxV
      /\ block.level \in V /\ block.level \in Int /\ block.sw \in {0, 2}
      /\ block.change \in BOOLEAN /\ e <= block.sigma
      /\ \A i \in 0 .. 2 : block.u[i] \in Signals /\ truth[i] \in Signals
      /\ truth[1].v \in Int /\ truth[1].v \in V /\ truth[1].s \in {-1, 0, 1} /\ Control \in Int
      /\ e <= 2 * MaxV
  BY SwitchIs
<1>4. /\ c \in Signals /\ c.s = block.u[1].s /\ c.v = At(block.u[1].v, block.u[1].s, e)
      /\ c.v \in Int
  <2>1. block.u[1] \in Signals
    BY <1>3
  <2>2. c \in Signals /\ c.s = block.u[1].s /\ c.v = At(block.u[1].v, block.u[1].s, e)
    BY <2>1, <1>3, Advanced, Zenon
  <2> QED
    BY <2>2 DEF Signals
<1>5. /\ u[1] = c /\ u[port] = x /\ DOMAIN u = 0 .. 2
      /\ \A i \in {0, 2} : i # port => u[i] = advance_time(block.u[i], e)
  BY DEF Heard
<1> HIDE DEF c
<1>5a. \A i \in {0, 2} : /\ advance_time(block.u[i], e) \in Signals
                        /\ advance_time(block.u[i], e).s = truth[i].s
                        /\ advance_time(block.u[i], e).v = truth[i].v
                        /\ truth[i].v \in V /\ At(truth[i].v, truth[i].s, 0) = truth[i].v
  BY DataMoved
<1>6. u \in [0 .. 2 -> Signals]
  <2>1. \A i \in 0 .. 2 : u[i] \in Signals
    <3>1. \A i \in 0 .. 2 : i = port \/ i = 1 \/ (i \in {0, 2} /\ i # port)
      OBVIOUS
    <3> QED
      BY <3>1, <1>1, <1>3, <1>4, <1>5, <1>5a
  <2>2. u = [i \in 0 .. 2 |-> u[i]]
    BY DEF Heard
  <2> HIDE DEF u
  <2> QED
    BY <2>1, <2>2
<1> HIDE DEF u
<1>7. /\ t \in Sigmas /\ t \in Nat
      /\ block.tcross = Inf => t = Inf
      /\ block.tcross # Inf => t = block.tcross - e
  <2>1. block.sigma \in {0, block.tcross}
    BY DEF SwitchInv
  <2>2. e <= block.tcross
    BY <2>1, <1>3
  <2> QED
    BY <2>2, <1>3, Bounds DEF Less, Sigmas
<1> HIDE DEF t
<1>8. sg \in Sigmas /\ sg \in {0, t} /\ ch \in BOOLEAN
  BY <1>7, Members
<1>9. sg # 0 => block.sigma # 0 /\ block.sw # port /\ e < block.sigma
  BY <1>3
<1> HIDE DEF sg
<1>10. /\ block' \in Switches /\ block'.u = u /\ block'.sw = block.sw /\ block'.tcross = t
       /\ block'.level = block.level /\ block'.sigma = sg /\ (block'.change <=> ch)
  <2> HIDE DEF ch
  <2> QED
    BY <1>2, <1>3, <1>6, <1>7, <1>8 DEF Switches
<1>11. truth'[port] = x /\ \A i \in 0 .. 2 : i # port => truth'[i] = truth[i]
  BY <1>2 DEF TypeOK
<1>12. truth'[1] = truth[1] /\ Control' = Control
  BY <1>10, <1>11 DEF Control
<1>13. ASSUME heard, ~astray'
       PROVE  /\ block'.u[1].s = truth'[1].s /\ block'.u[1].v + block'.level \in V
              /\ Control' = At(block'.u[1].v, block'.u[1].s, e')
              /\ OffLevel' \/ OnTheLevel' \/ Crossing' \/ Leaving'
  <2>1. /\ ~astray /\ block.u[1].s = truth[1].s
        /\ Control = At(block.u[1].v, block.u[1].s, e)
        /\ OffLevel \/ OnTheLevel \/ Crossing \/ Leaving
    BY <1>2, <1>13 DEF SwitchInv
  <2>2. c.v = Control /\ c.v + block.level = truth[1].v /\ c.s = truth[1].s
    BY <2>1, <1>3, <1>4 DEF Control
  <2>3. At(c.v, c.s, 0) = c.v
    BY <2>2, <1>3, <1>4 DEF At
  <2>4. block.sigma # 0 => block.sigma = block.tcross
    BY DEF SwitchInv
  <2>5. CASE e >= block.sigma
    <3>1. Control # 0 /\ ~selected /\ sg = 0 /\ block.sigma = e
      BY <2>5, <1>2, <1>3, <1>13 DEF sg, Due, Control
    <3>2. OffLevel
      BY <3>1, <2>1, <1>3, Bounds DEF OnTheLevel, Crossing, Leaving
    <3>3. t = block.tcross
      BY <3>1, <3>2, <1>3, <1>7 DEF OffLevel
    <3>4. OffLevel'
      BY <3>1, <3>2, <3>3, <1>10, <1>12 DEF OffLevel
    <3> QED
      BY <3>4, <2>2, <2>3, <1>2, <1>3, <1>5, <1>10, <1>12
  <2>6. CASE e < block.sigma
    <3>1. (Crossing \/ Leaving) /\ block.sigma = block.tcross
      BY <2>1, <2>4, <2>6, <1>3 DEF OffLevel, OnTheLevel
    <3>2. CASE Crossing
      <4>1. /\ t = block.sigma - e /\ Control # 0 /\ t # 0 /\ t # Inf
            /\ \/ block.sw = 0 /\ Control = t /\ truth[1].s = -1
               \/ block.sw = 2 /\ 0 - Control = t /\ truth[1].s = 1
        BY <3>1, <3>2, <2>6, <1>3, <1>7, Bounds DEF Crossing
      <4>2. CASE selected
        <5>1. sg = 0 /\ t = Root(Control, truth[1].s)
          BY <4>1, <4>2, <1>3 DEF sg, Root
        <5>2. OffLevel'
          BY <5>1, <4>1, <1>10, <1>12 DEF OffLevel
        <5> QED
          BY <5>2, <2>2, <2>3, <1>2, <1>3, <1>5, <1>10, <1>12
      <4>3. CASE ~selected
        <5>1. sg = t /\ ch
          BY <4>3, <2>6, <1>3 DEF sg
        <5>2. Crossing'
          BY <5>1, <4>1, <1>2, <1>3, <1>7, <1>10, <1>12 DEF Crossing
        <5> QED
          BY <5>2, <2>2, <2>3, <1>2, <1>3, <1>5, <1>10, <1>12
      <4> QED
        BY <4>2, <4>3
    <3>3. CASE Leaving
      <4>1. t = Inf /\ block.change
        BY <3>1, <3>3, <1>7 DEF Leaving
      <4>2. CASE selected
        <5>1. sg = 0 /\ ~ch
          BY <4>2 DEF sg
        <5>2. CASE Control # 0
          <6>1. t = Root(Control, truth[1].s)
            BY <4>1, <3>3, <5>2, <1>3 DEF Root, Leaving
          <6>2. OffLevel'
            BY <5>1, <5>2, <6>1, <1>10, <1>12 DEF OffLevel
          <6> QED
            BY <6>2, <2>2, <2>3, <1>2, <1>3, <1>5, <1>10, <1>12
        <5>3. CASE Control = 0
          <6>1. OnTheLevel'
            BY <5>1, <5>3, <4>1, <3>3, <1>10, <1>12 DEF OnTheLevel, Leaving, RightSide
          <6> QED
            BY <6>1, <2>2, <2>3, <1>2, <1>3, <1>5, <1>10, <1>12
        <5> QED
          BY <5>2, <5>3
      <4>3. CASE ~selected
        <5>1. sg = t /\ ch
          BY <4>3, <2>6, <1>3 DEF sg
        <5>2. Leaving'
          BY <5>1, <4>1, <3>3, <1>10, <1>12 DEF Leaving, RightSide
        <5> QED
          BY <5>2, <2>2, <2>3, <1>2, <1>3, <1>5, <1>10, <1>12
      <4> QED
        BY <4>2, <4>3
    <3> QED
      BY <3>1, <3>2, <3>3
  <2> QED
    BY <2>5, <2>6, <1>3
<1>14. \A i \in {0, 2} : /\ block'.u[i].s = truth'[i].s /\ block'.u[i].v \in V
                         /\ truth'[i].v = At(block'.u[i].v, block'.u[i].s, e')
  <2>1. At(v, s, 0) = v
    BY Bounds DEF At
  <2> QED
    BY <2>1, <1>1, <1>2, <1>5, <1>5a, <1>10, <1>11
<1>15. block'.sigma = 0 \/ (out'.v = truth'[block'.sw].v /\ out'.s = truth'[block'.sw].s)
  BY <1>2, <1>3, <1>9, <1>10, <1>11 DEF SwitchInv
<1>16. /\ e' <= block'.sigma /\ block'.sigma \in {0, block'.tcross}
       /\ block'.tcross = 0 => block'.change
  <2>1. block.sigma \in {0, block.tcross} /\ e <= block.sigma
    BY <1>3 DEF SwitchInv
  <2>2. t = 0 => e >= block.sigma
    BY <2>1, <1>3, <1>7, Bounds
  <2> QED
    BY <2>2, <1>2, <1>3, <1>7, <1>8, <1>10, Bounds
<1>17. ~heard => t = Inf
  BY <1>7 DEF SwitchInv
<1> QED
  BY <1>2, <1>10, <1>13, <1>14, <1>15, <1>16, <1>17 DEF SwitchInv, OnlyOnce

(* The side that a due switch is to show, and with it the plan it makes. *)
LEMMA SwitchSendsIt ==
  ASSUME TypeOK, SwitchInv, kind = "qss_switch", SwitchSends
  PROVE  SwitchInv' /\ out' \in Signals
<1> DEFINE b   == SwitchLambda(block)
           c   == AtCrossing(block)
           bw  == Side(block)
           sw  == IF block.change THEN 2 - bw ELSE bw
           z   == [c[1] EXCEPT !.v = 0, !.tiny = 0]
           n   == Nudged(z)
           far == ~block.change \/ block.sigma = 0
           u   == IF far THEN c ELSE [c EXCEPT ![1] = n]
           t   == IF far THEN block.tcross ELSE minposroot(n)
<1>1. /\ Due /\ kind' = kind /\ e' = 0 /\ truth' = truth /\ heard' = heard /\ astray' = astray
      /\ turns' = IF turns < 4 THEN turns + 1 ELSE turns
      /\ out' = SwitchOutput(block) /\ block' = SwitchDint(b)
  BY DEF SwitchSends, Sends, MaxTurns
<1>2. /\ block \in Switches /\ e \in Nat /\ e <= 2 * MaxV /\ e <= block.sigma
      /\ block.sigma \in Nat /\ block.tcross \in Nat
      /\ block.tcross \in Sigmas /\ (block.tcross = Inf \/ block.tcross <= 2 * MaxV)
      /\ block.level \in V /\ block.level \in Int /\ block.sw \in {0, 2}
      /\ block.change \in BOOLEAN
      /\ \A i \in 0 .. 2 : block.u[i] \in Signals /\ truth[i] \in Signals
      /\ truth[1].v \in Int /\ truth[1].s \in {-1, 0, 1} /\ truth[1].v \in V
      /\ Control \in Int /\ Control <= 2 * MaxV /\ 0 - Control <= 2 * MaxV
  BY SwitchIs DEF Switches
<1>3. block.sigma = e /\ block.sigma # Inf
  BY <1>1, <1>2, Bounds DEF Due
<1>4. /\ DOMAIN c = 0 .. 2 /\ c = [i \in 0 .. 2 |-> c[i]]
      /\ c[1] = advance_time(block.u[1], e)
      /\ \A i \in {0, 2} : c[i] = advance_time(block.u[i], e)
  BY <1>3 DEF AtCrossing
<1>4a. \A i \in {0, 2} : /\ c[i] \in Signals /\ c[i].s = truth[i].s /\ c[i].v = truth[i].v
                        /\ truth[i].v \in V /\ At(truth[i].v, truth[i].s, 0) = truth[i].v
  <2> HIDE DEF c
  <2> QED
    BY <1>4, DataMoved
<1>5. /\ c[1] \in Signals /\ c[1].s = block.u[1].s
      /\ c[1].v = At(block.u[1].v, block.u[1].s, e) /\ c[1].v \in Int
  <2>1. block.u[1] \in Signals
    BY <1>2
  <2>2. /\ advance_time(block.u[1], e) \in Signals /\ advance_time(block.u[1], e).s = block.u[1].s
        /\ advance_time(block.u[1], e).v = At(block.u[1].v, block.u[1].s, e)
    BY <2>1, <1>2, Advanced, Zenon
  <2>3. c[1] \in Signals /\ c[1].s = block.u[1].s /\ c[1].v = At(block.u[1].v, block.u[1].s, e)
    BY <2>2, <1>4
  <2> QED
    BY <2>3 DEF Signals
<1>6. /\ bw \in {0, 2}
      /\ c[1].v > 0 => sw = 0
      /\ c[1].v < 0 => sw = 2
      /\ c[1].v = 0 => bw = block.sw
  BY <1>2, <1>5 DEF Side
<1>7. b = [block EXCEPT !.u = c, !.sw = bw]
  BY DEF SwitchLambda
<1> HIDE DEF c, bw
<1>8. /\ b \in Switches /\ b.u = c /\ b.sw = bw /\ b.sigma = block.sigma
      /\ b.tcross = block.tcross /\ b.change = block.change /\ b.level = block.level
  <2>1. \A i \in 0 .. 2 : c[i] \in Signals
    <3>1. \A i \in 0 .. 2 : i = 0 \/ i = 1 \/ i = 2
      OBVIOUS
    <3> QED
      BY <3>1, <1>4a, <1>5
  <2>2. c \in [0 .. 2 -> Signals]
    BY <2>1, <1>4
  <2> QED
    BY <2>2, <1>2, <1>6, <1>7 DEF Switches
<1>9. out' = c[sw]
  BY <1>1, <1>8 DEF SwitchOutput
<1> HIDE DEF b
<1>10. z \in Signals /\ z.v = 0 /\ z.s = c[1].s
  <2>1. c[1] \in Signals /\ 0 \in -1 .. 1
    BY <1>5
  <2> QED
    BY <2>1, NextToZero, Zenon
<1> HIDE DEF z
<1>11. n \in Signals /\ n.v = 0 /\ n.s = c[1].s /\ n.tiny = n.s
  BY <1>10, NudgedIs
<1>12. minposroot(n) = Inf
  BY <1>11, RootOf
<1>13. sw \in {0, 2}
  BY <1>6
<1>14. /\ block' = [b EXCEPT !.u = u, !.sw = sw, !.tcross = t, !.sigma = t, !.change = TRUE]
  <2>1. CASE ~block.change
    <3>1. SwitchDint(b) = [b EXCEPT !.sigma = b.tcross, !.change = TRUE]
      BY <2>1, <1>8 DEF SwitchDint
    <3> QED
      BY <3>1, <2>1, <1>1, <1>8 DEF Switches
  <2>2. CASE block.change /\ block.sigma = 0
    <3>1. SwitchDint(b) = [b EXCEPT !.sigma = b.tcross, !.sw = 2 - b.sw]
      BY <2>2, <1>8 DEF SwitchDint
    <3> QED
      BY <3>1, <2>2, <1>1, <1>8, ZenonT(60) DEF Switches
  <2>3. CASE block.change /\ block.sigma # 0
    <3>1. SwitchDint(b) = [b EXCEPT !.u[1] = n, !.sigma = t, !.tcross = t, !.sw = 2 - b.sw]
      BY <2>3, <1>8 DEF SwitchDint, z
    <3> QED
      BY <3>1, <2>3, <1>1, <1>8, ZenonT(60) DEF Switches
  <2> QED
    BY <2>1, <2>2, <2>3, <1>2
<1> HIDE DEF n, sw
<1>15. u[0] = c[0] /\ u[2] = c[2] /\ u \in [0 .. 2 -> Signals]
       /\ u[1] = IF far THEN c[1] ELSE n
  BY <1>4, <1>8, <1>11 DEF Switches
<1>16. t \in Sigmas /\ t \in Nat /\ (t = block.tcross \/ t = Inf)
  BY <1>2, <1>12, Bounds, Members
<1> HIDE DEF u, t
<1>17. /\ block' \in Switches /\ block'.u = u /\ block'.sw = sw /\ block'.tcross = t
       /\ block'.level = block.level /\ block'.sigma = t /\ block'.change = TRUE
  BY <1>8, <1>13, <1>14, <1>15, <1>16 DEF Switches
<1>18. Control' = Control /\ truth'[1] = truth[1]
  BY <1>1, <1>17 DEF Control
<1>19. ASSUME heard, ~astray
       PROVE  /\ block'.u[1].s = truth'[1].s /\ block'.u[1].v + block'.level \in V
              /\ Control' = At(block'.u[1].v, block'.u[1].s, e')
              /\ Crossing' \/ Leaving'
              /\ t # 0
  <2>1. /\ block.u[1].s = truth[1].s /\ block.u[1].v + block.level \in V
        /\ Control = At(block.u[1].v, block.u[1].s, e)
        /\ OffLevel \/ OnTheLevel \/ Crossing
    BY <1>3, <1>19 DEF SwitchInv, Leaving
  <2>2. c[1].v = Control /\ c[1].s = truth[1].s /\ c[1].v + block.level = truth[1].v
    BY <2>1, <1>2, <1>5 DEF Control
  <2>3. /\ At(c[1].v, c[1].s, 0) = c[1].v
        /\ At(n.v, n.s, 0) = n.v
    BY <1>5, <1>11 DEF At
  <2>4. CASE OffLevel
    <3>1. far /\ t = Root(Control, truth[1].s) /\ Control # 0
      BY <2>4 DEF OffLevel, t
    <3>2. (Control > 0 => sw = 0) /\ (Control < 0 => sw = 2)
      BY <2>2, <1>6 DEF sw
    <3>3. CASE t = Inf
      <4>1. Leaving'
        BY <3>1, <3>2, <3>3, <1>2, <1>17, <1>18, Bounds DEF Leaving, RightSide, Root
      <4> QED
        BY <4>1, <3>1, <3>3, <2>2, <2>3, <1>1, <1>2, <1>15, <1>17, <1>18, Bounds
    <3>4. CASE t # Inf
      <4>1. \/ sw = 0 /\ Control = t /\ truth[1].s = -1
            \/ sw = 2 /\ 0 - Control = t /\ truth[1].s = 1
        BY <3>1, <3>2, <3>4, <1>2 DEF Root
      <4>2. t # 0
        BY <3>1, <4>1, <1>2
      <4>3. Crossing'
        BY <4>1, <4>2, <3>4, <1>1, <1>16, <1>17, <1>18 DEF Crossing
      <4> QED
        BY <4>2, <4>3, <3>1, <2>2, <2>3, <1>1, <1>2, <1>15, <1>17, <1>18
    <3> QED
      BY <3>3, <3>4
  <2>5. CASE OnTheLevel
    <3>1. /\ far /\ t = Inf /\ Control = 0
          /\ RightSide(IF block.change THEN 2 - block.sw ELSE block.sw)
      BY <2>5 DEF OnTheLevel, t
    <3>2. sw = IF block.change THEN 2 - block.sw ELSE block.sw
      BY <3>1, <2>2, <1>6 DEF sw
    <3>3. RightSide(sw)
      BY <3>1, <3>2
    <3>4. Leaving'
      BY <3>1, <3>3, <1>2, <1>17, <1>18 DEF Leaving, RightSide
    <3> QED
      BY <3>4, <3>1, <2>2, <2>3, <1>1, <1>2, <1>15, <1>17, <1>18, Bounds
  <2>6. CASE Crossing
    <3>1. /\ ~far /\ t = Inf /\ Control = 0
          /\ \/ block.sw = 0 /\ truth[1].s = -1
             \/ block.sw = 2 /\ truth[1].s = 1
      BY <2>6, <1>2, <1>3, <1>12 DEF Crossing, t
    <3>2. block.change /\ sw = 2 - block.sw
      BY <2>6, <3>1, <2>2, <1>6 DEF Crossing, sw
    <3>3. Leaving'
      BY <3>1, <3>2, <1>2, <1>17, <1>18 DEF Leaving, RightSide
    <3>4. n.v + block.level \in V
      BY <3>1, <2>2, <1>2, <1>11
    <3> QED
      BY <3>3, <3>4, <3>1, <2>2, <2>3, <1>1, <1>2, <1>11, <1>15, <1>17, <1>18, Bounds
  <2> QED
    BY <2>1, <2>4, <2>5, <2>6
<1>20. ~heard => t = Inf
  BY <1>16 DEF SwitchInv
<1>21. OnlyOnce' \/ Cycling'
  <2>1. CASE t = 0
    BY <2>1, <1>1, <1>17 DEF Cycling
  <2>2. CASE t # 0
    <3>1. ~Cycling
      BY <2>2, <1>12, Bounds DEF Cycling, t
    <3>2. turns = 0
      BY <3>1, <1>2, <1>3 DEF SwitchInv, OnlyOnce
    <3> QED
      BY <3>2, <2>2, <1>1, <1>16, <1>17 DEF OnlyOnce
  <2> QED
    BY <2>1, <2>2
<1>22. \A i \in {0, 2} : /\ block'.u[i].s = truth'[i].s /\ block'.u[i].v \in V
                         /\ truth'[i].v = At(block'.u[i].v, block'.u[i].s, e')
  BY <1>1, <1>4a, <1>15, <1>17
<1>23. out'.v = truth'[block'.sw].v /\ out'.s = truth'[block'.sw].s /\ out' \in Signals
  BY <1>1, <1>9, <1>13, <1>17, <1>4a
<1>24. e' <= block'.sigma /\ block'.sigma \in {0, block'.tcross}
  BY <1>1, <1>16, <1>17, Bounds
<1> QED
  BY <1>1, <1>17, <1>19, <1>20, <1>21, <1>22, <1>23, <1>24 DEF SwitchInv

(* Time moves the control to its level. *)
LEMMA SwitchPasses ==
  ASSUME TypeOK, SwitchInv, kind = "qss_switch", TimePasses
  PROVE  SwitchInv'
<1>1. /\ kind' = kind /\ block' = block /\ astray' = astray /\ turns' = 0 /\ heard' = heard
      /\ \A i \in 0 .. 2 : truth'[i] = advance_time(truth[i], 1)
      /\ \A i \in 0 .. 2 : truth'[i].v \in V
      /\ ~Due
      /\ out' = advance_time(out, 1)
      /\ e' = IF e < 2 * MaxV THEN e + 1 ELSE e
  BY Bounds DEF TimePasses, Later
<1>2. /\ block \in Switches /\ e \in Nat /\ e <= 2 * MaxV /\ e <= block.sigma
      /\ block.sigma \in Nat /\ block.tcross \in Nat
      /\ block.sigma = Inf \/ block.sigma <= 2 * MaxV
      /\ block.level \in V /\ block.level \in Int /\ block.sw \in {0, 2}
      /\ \A i \in 0 .. 2 : block.u[i] \in Signals /\ truth[i] \in Signals
      /\ truth[1].v \in Int /\ truth[1].s \in {-1, 0, 1} /\ truth[1].v \in V
      /\ Control \in Int
  BY SwitchIs
<1>3. e < block.sigma /\ block.sigma # 0
  BY <1>1, <1>2 DEF Due
<1>4. \A i \in {0, 2} : /\ truth'[i].s = truth[i].s /\ truth[i].v \in Int
                       /\ truth'[i].v = At(truth[i].v, truth[i].s, 1)
                       /\ truth'[i].v = At(block.u[i].v, block.u[i].s, e')
  <2> TAKE i \in {0, 2}
  <2>1. /\ block.u[i] \in Signals /\ truth[i] \in Signals
        /\ truth'[i] = advance_time(truth[i], 1) /\ truth'[i].v \in V
    BY <1>1, <1>2
  <2>2. /\ block.u[i].s = truth[i].s /\ block.u[i].v \in V
        /\ truth[i].v = At(block.u[i].v, block.u[i].s, e)
    BY DEF SwitchInv
  <2>3. /\ advance_time(truth[i], 1).s = truth[i].s
        /\ advance_time(truth[i], 1).v = At(truth[i].v, truth[i].s, 1)
    BY <2>1, Advanced, Zenon
  <2>4. truth'[i].s = truth[i].s /\ truth'[i].v = At(truth[i].v, truth[i].s, 1)
    BY <2>1, <2>3
  <2>5. /\ truth[i].v \in Int /\ truth[i].s \in {-1, 0, 1}
        /\ block.u[i].v \in Int
    BY <2>1 DEF Signals, Slopes
  <2> DEFINE a == block.u[i].v
             r == truth[i].s
             w == truth[i].v
             w1 == truth'[i].v
  <2>6. /\ w \in Int /\ a \in V /\ a \in Int /\ r \in {-1, 0, 1} /\ w1 \in V
        /\ w = At(a, r, e) /\ w1 = At(w, r, 1) /\ block.u[i].s = r
    BY <2>1, <2>2, <2>4, <2>5
  <2> HIDE DEF a, r, w, w1
  <2>7. w1 = At(a, r, e')
    BY <2>6, <1>1, <1>2, Bounds DEF At
  <2> QED
    BY <2>4, <2>5, <2>6, <2>7 DEF a, w1
<1>4a. out' = advance_time(out, 1) /\ out'.s = out.s /\ out'.v = At(out.v, out.s, 1)
  <2>1. out \in Signals
    BY DEF TypeOK
  <2>2. /\ advance_time(out, 1).s = out.s
        /\ advance_time(out, 1).v = At(out.v, out.s, 1)
    BY <2>1, Advanced, Zenon
  <2> QED
    BY <2>2, <1>1
<1>4b. out'.v = truth'[block.sw].v /\ out'.s = truth'[block.sw].s
  BY <1>2, <1>3, <1>4, <1>4a DEF SwitchInv
<1>5. truth'[1].s = truth[1].s /\ truth'[1].v = truth[1].v + truth[1].s
  <2>1. truth[1] \in Signals
    BY <1>2
  <2>2. advance_time(truth[1], 1).s = truth[1].s /\ advance_time(truth[1], 1).v = At(truth[1].v, truth[1].s, 1)
    BY <2>1, Advanced, Zenon
  <2> QED
    BY <2>2, <1>1, <1>2 DEF At
<1>6. Control' = Control + truth[1].s
  BY <1>1, <1>2, <1>5 DEF Control
<1>7. ASSUME heard, ~astray
      PROVE  /\ block'.u[1].s = truth'[1].s /\ block'.u[1].v + block'.level \in V
             /\ Control' = At(block'.u[1].v, block'.u[1].s, e')
             /\ Crossing' \/ Leaving'
  <2>1. /\ block.u[1].s = truth[1].s /\ block.u[1].v + block.level \in V
        /\ Control = At(block.u[1].v, block.u[1].s, e)
        /\ Crossing \/ Leaving
    BY <1>3, <1>7 DEF SwitchInv, OffLevel, OnTheLevel
  <2>2. block.u[1].v \in Int
    BY <1>2 DEF Signals
  <2>3. truth[1].s # 0 => e' = e + 1
    <3>1. truth[1].s # 0 => e + 1 <= 2 * MaxV
      BY <2>1, <2>2, <1>1, <1>2, <1>5, <1>6, Bounds DEF At, Control
    <3> QED
      BY <3>1, <1>1, <1>2, Bounds
  <2>4. Control' = At(block.u[1].v, block.u[1].s, e')
    BY <2>1, <2>2, <2>3, <1>2, <1>6 DEF At
  <2>5. CASE Crossing
    <3>1. e' = e + 1
      BY <2>3, <2>5, <1>2 DEF Crossing
    <3>2. Crossing'
      BY <3>1, <2>5, <1>1, <1>2, <1>5, <1>6 DEF Crossing
    <3> QED
      BY <3>2, <2>1, <2>4, <1>1, <1>5
  <2>6. CASE Leaving
    <3>1. Leaving'
      BY <2>6, <1>1, <1>2, <1>5, <1>6 DEF Leaving, RightSide
    <3> QED
      BY <3>1, <2>1, <2>4, <1>1, <1>5
  <2> QED
    BY <2>1, <2>5, <2>6
<1>8. e' <= block.sigma
  BY <1>1, <1>2, <1>3, Bounds
<1> QED
  BY <1>1, <1>3, <1>4, <1>4b, <1>7, <1>8 DEF SwitchInv, OnlyOnce

(* A switch starts with its control unheard. *)
LEMMA SwitchStarts ==
  ASSUME Init
  PROVE  SwitchInv
<1> SUFFICES ASSUME kind = "qss_switch"
             PROVE  SwitchInv
  BY DEF SwitchInv
<1>1. PICK level \in Levels : block = SwitchInit(level)
  BY DEF Init, BlockInit
<1>2. level \in V
  BY QuantizedAssumption
<1>3. /\ e = 0 /\ out = Zero /\ turns = 0 /\ heard = FALSE
      /\ \A i \in 0 .. 2 : truth[i] = Zero
  BY DEF Init, Integrates
<1>4. /\ block.u = [i \in 0 .. 2 |-> Zero] /\ block.sigma = Inf /\ block.tcross = Inf
      /\ block.sw \in {0, 2}
  BY <1>1 DEF SwitchInit
<1>5. block \in Switches
  BY <1>1, <1>2, ZeroSignal, Members DEF SwitchInit, Switches
<1>6. \A i \in {0, 2} : block.u[i] = Zero /\ truth[i] = Zero
  BY <1>3, <1>4
<1>7. 0 \in V /\ At(0, 0, e) = 0
  BY Members DEF At
<1> QED
  BY <1>3, <1>4, <1>5, <1>6, <1>7, ZeroSignal, Bounds DEF SwitchInv, OnlyOnce

(* The invariant says which input is sent. *)
LEMMA SwitchSelects ==
  ASSUME TypeOK, SwitchInv
  PROVE  SwitchRight
<1> SUFFICES ASSUME kind = "qss_switch", ~Due, heard, ~astray, truth[1].v # block.level
             PROVE  out.v = truth[IF truth[1].v > block.level THEN 0 ELSE 2].v
  BY DEF SwitchRight, AtRest
<1>1. /\ e \in Nat /\ block.sigma \in Nat /\ e < block.sigma /\ block.sw \in {0, 2}
      /\ block.level \in Int /\ truth[1].v \in Int
  BY SwitchIs DEF Due
<1>2. Crossing \/ Leaving
  BY <1>1 DEF SwitchInv, OffLevel, OnTheLevel
<1>3. block.sw = IF truth[1].v > block.level THEN 0 ELSE 2
  BY <1>1, <1>2 DEF Crossing, Leaving, RightSide, Control
<1>4. out.v = truth[block.sw].v
  BY <1>1 DEF SwitchInv
<1> QED
  BY <1>3, <1>4

-----------------------------------------------------------------------------
(* One step of a saturation or a quantizer, as a case of the next-state    *)
(* relation.                                                               *)
LEMMA LevelsCases ==
  ASSUME kind \in {"qss_saturation", "qss_quantizer"}, Next
  PROVE  \/ \E v \in V, s \in Slopes : LevelsHear(Signal(v, s))
         \/ LevelsSend \/ TimePasses
<1>1. ASSUME NEW port \in 0 .. 2, NEW v \in V, NEW s \in Slopes, Input(port, Signal(v, s))
      PROVE  LevelsHear(Signal(v, s))
  BY <1>1 DEF Input, CompareHears, IntegratorHears, HystereticHears,
              SwitchHears, CrossHears, OutputHears, Integrates, Detects
<1>2. Internal => LevelsSend
  BY DEF Internal, CompareSends, SwitchSends, HystereticSends, IntegratorSends, CrossSends,
         Integrates, Detects
<1> QED
  BY <1>1, <1>2 DEF Next

(* A signal seen from a level. *)
LEMMA SinceIs ==
  ASSUME NEW u \in Signals, NEW level \in Int
  PROVE  /\ Since(u, level) \in Signals /\ Since(u, level).v = u.v - level
         /\ Since(u, level).s = u.s /\ Since(u, level).tiny = u.tiny
         /\ u.v \in Int /\ u.s \in {-1, 0, 1} /\ u.tiny \in -1 .. 1
BY DEF Since, Signals, Slopes

(* Crossed changes no value; off the level 0 it changes nothing. *)
LEMMA CrossedIs ==
  ASSUME NEW u \in Signals, NEW level \in Int, u.tiny \in {0, u.s}
  PROVE  /\ Crossed(u, level) \in Signals /\ Crossed(u, level).v = u.v
         /\ Crossed(u, level).s = u.s /\ Crossed(u, level).tiny \in {0, u.s}
         /\ u.tiny = u.s => Crossed(u, level).tiny = u.s
         /\ level = 0 /\ u.v = 0 => Crossed(u, level).tiny = u.s
         /\ level # u.v => Crossed(u, level).tiny = u.tiny
<1>1. CASE level = 0
  BY <1>1, NudgedIs DEF Crossed
<1>2. CASE level # 0
  BY <1>2 DEF Crossed
<1> QED
  BY <1>1, <1>2

(* Outside a limit: at once when it is inside, else when it comes back.    *)
LEMMA OutsideIs ==
  ASSUME NEW b \in Saturations, b.sw # 0, NEW x \in Signals, x.v \in V, x.tiny \in {0, x.s},
         NEW L, L = IF b.sw = -1 THEN b.xl ELSE b.xu
  PROVE  LET c == Outside(b, x)
             g == IF b.sw = -1 THEN L - x.v ELSE x.v - L
         IN /\ c = [b EXCEPT !.u = c.u, !.soon = FALSE, !.sigma = c.sigma]
            /\ c.u \in Signals /\ c.sigma \in Sigmas
            /\ c.u.v = x.v /\ c.u.s = x.s /\ c.u.tiny \in {0, x.s}
            /\ x.tiny = x.s => c.u.tiny = x.s
            /\ g < 0 => c.sigma = 0
            /\ g > 0 => c.sigma = IF x.s = 0 - b.sw THEN g ELSE Inf
            /\ g = 0 => c.sigma = IF x.s = 0 \/ (x.s = b.sw /\ c.u.tiny = x.s) THEN Inf ELSE 0
<1> DEFINE v    == Crossed(x, L)
           w    == Since(v, L)
           left == IF b.sw = -1 THEN Above(w) ELSE Below(w)
           sg   == IF left THEN 0 ELSE minposroot(w)
           g    == IF b.sw = -1 THEN L - x.v ELSE x.v - L
           c    == Outside(b, x)
<1>1. L \in Int /\ L \in V /\ b.sw \in {-1, 1}
  BY Bounds DEF Saturations
<1>2. /\ v \in Signals /\ v.v = x.v /\ v.s = x.s /\ v.tiny \in {0, x.s}
      /\ x.tiny = x.s => v.tiny = x.s
  BY <1>1, CrossedIs
<1> HIDE DEF v
<1>3. /\ w \in Signals /\ w.v = x.v - L /\ w.s = x.s /\ w.tiny = v.tiny
      /\ x.v \in Int /\ x.s \in {-1, 0, 1} /\ w.v \in Int
  <2>1. L \in Int /\ v \in Signals
    BY <1>1, <1>2
  <2>2. /\ w \in Signals /\ w.v = v.v - L /\ w.s = v.s /\ w.tiny = v.tiny
        /\ v.v \in Int /\ v.s \in {-1, 0, 1}
    BY <2>1, SinceIs, Zenon
  <2> QED
    BY <2>1, <2>2, <1>2
<1> HIDE DEF w
<1>4. c = [b EXCEPT !.u = v, !.soon = FALSE, !.sigma = sg]
  BY DEF Outside, v, w
<1>5. c.u = v /\ c.sigma = sg
  BY <1>4 DEF Saturations
<1>6. w.v <= 2 * MaxV /\ 0 - w.v <= 2 * MaxV
  BY <1>1, <1>3, Bounds
<1>7. left <=> g < 0 \/ (g = 0 /\ v.tiny = 0 - b.sw)
  <2>1. CASE b.sw = -1
    <3>1. left <=> w.v > 0 \/ (w.v = 0 /\ w.tiny = 1)
      BY <2>1 DEF Above
    <3> QED
      BY <2>1, <3>1, <1>1, <1>3
  <2>2. CASE b.sw = 1
    <3>1. left <=> w.v < 0 \/ (w.v = 0 /\ w.tiny = -1)
      BY <2>2 DEF Below
    <3> QED
      BY <2>2, <3>1, <1>1, <1>3
  <2> QED
    BY <2>1, <2>2, <1>1
<1>8. /\ x.s = 0 => minposroot(w) = Inf
      /\ w.v = 0 /\ v.tiny = x.s => minposroot(w) = Inf
      /\ w.v = 0 /\ x.s # 0 /\ v.tiny # x.s => minposroot(w) = 0
      /\ g > 0 /\ x.s = b.sw => minposroot(w) = Inf
      /\ g > 0 /\ x.s = 0 - b.sw => minposroot(w) = g
  BY <1>1, <1>3, RootOf
<1>9. /\ g < 0 => sg = 0
      /\ g > 0 => sg = IF x.s = 0 - b.sw THEN g ELSE Inf
      /\ g = 0 => sg = IF x.s = 0 \/ (x.s = b.sw /\ v.tiny = x.s) THEN Inf ELSE 0
  <2> HIDE DEF left
  <2>1. g \in Int /\ (g = 0 <=> w.v = 0)
    BY <1>1, <1>3
  <2> HIDE DEF g
  <2>2. CASE g < 0
    BY <2>1, <2>2, <1>7
  <2>3. CASE g > 0
    BY <2>1, <2>3, <1>1, <1>3, <1>7, <1>8
  <2>4. CASE g = 0
    BY <2>1, <2>4, <1>1, <1>2, <1>3, <1>7, <1>8
  <2> QED
    BY <2>1, <2>2, <2>3, <2>4
<1>10. sg \in Sigmas
  <2> HIDE DEF sg
  <2>1. g \in Int /\ g <= 2 * MaxV
    BY <1>1, <1>3, <1>6
  <2> QED
    BY <2>1, <1>9, Bounds DEF Sigmas
<1> HIDE DEF sg, g, c
<1> QED
  BY <1>2, <1>4, <1>5, <1>9, <1>10 DEF g, c

(* Inside the limits: when it comes to the one it goes to.                 *)
LEMMA InsideIs ==
  ASSUME NEW b \in Saturations, NEW x \in Signals, x.v \in V, x.tiny \in {0, x.s}, b.xl < b.xu
  PROVE  LET c == Inside(b, x)
         IN /\ c = [b EXCEPT !.u = c.u, !.soon = FALSE, !.sigma = c.sigma]
            /\ c.u \in Signals /\ c.sigma \in Sigmas
            /\ c.u.v = x.v /\ c.u.s = x.s /\ c.u.tiny \in {0, x.s}
            /\ x.tiny = x.s => c.u.tiny = x.s
            /\ x.v < b.xl \/ x.v > b.xu => c.sigma = 0
            /\ b.xl < x.v /\ x.v < b.xu =>
                 c.sigma = IF x.s = 1 THEN b.xu - x.v ELSE IF x.s = -1 THEN x.v - b.xl ELSE Inf
            /\ x.v = b.xl => c.sigma = IF x.s = 0 THEN Inf
                                       ELSE IF x.s = 1 /\ c.u.tiny = 1 THEN b.xu - b.xl ELSE 0
            /\ x.v = b.xu => c.sigma = IF x.s = 0 THEN Inf
                                       ELSE IF x.s = -1 /\ c.u.tiny = -1 THEN b.xu - b.xl ELSE 0
<1> DEFINE a    == Crossed(x, b.xl)
           v    == Crossed(a, b.xu)
           lo   == Since(v, b.xl)
           hi   == Since(v, b.xu)
           beyond == Below(lo) \/ Above(hi)
           sg   == IF beyond THEN 0 ELSE Sooner(minposroot(lo), minposroot(hi))
           c    == Inside(b, x)
<1>1. b.xl \in Int /\ b.xl \in V /\ b.xu \in Int /\ b.xu \in V
  BY Bounds DEF Saturations
<1>2. /\ a \in Signals /\ a.v = x.v /\ a.s = x.s /\ a.tiny \in {0, x.s}
      /\ x.tiny = x.s => a.tiny = x.s
  BY <1>1, CrossedIs
<1> HIDE DEF a
<1>3. /\ v \in Signals /\ v.v = x.v /\ v.s = x.s /\ v.tiny \in {0, x.s}
      /\ x.tiny = x.s => v.tiny = x.s
  BY <1>1, <1>2, CrossedIs
<1> HIDE DEF v
<1>4. /\ lo \in Signals /\ lo.v = x.v - b.xl /\ lo.s = x.s /\ lo.tiny = v.tiny
      /\ hi \in Signals /\ hi.v = x.v - b.xu /\ hi.s = x.s /\ hi.tiny = v.tiny
      /\ x.v \in Int /\ x.s \in {-1, 0, 1}
  <2>1. v \in Signals /\ b.xl \in Int /\ b.xu \in Int
    BY <1>1, <1>3
  <2>2. /\ lo \in Signals /\ lo.v = v.v - b.xl /\ lo.s = v.s /\ lo.tiny = v.tiny
        /\ v.v \in Int /\ v.s \in {-1, 0, 1}
    BY <2>1, SinceIs, Zenon
  <2>3. hi \in Signals /\ hi.v = v.v - b.xu /\ hi.s = v.s /\ hi.tiny = v.tiny
    BY <2>1, SinceIs, Zenon
  <2> QED
    BY <2>2, <2>3, <1>3
<1>5. c = [b EXCEPT !.u = v, !.soon = FALSE, !.sigma = sg]
  BY DEF Inside, v, a
<1> HIDE DEF lo, hi
<1>6. c.u = v /\ c.sigma = sg
  BY <1>5 DEF Saturations
<1>7. beyond <=> \/ x.v < b.xl \/ (x.v = b.xl /\ v.tiny = -1)
                 \/ x.v > b.xu \/ (x.v = b.xu /\ v.tiny = 1)
  BY <1>1, <1>3, <1>4 DEF Above, Below
<1> HIDE DEF beyond
<1>8. /\ x.s = 0 => minposroot(lo) = Inf
      /\ x.s = 1 /\ x.v > b.xl => minposroot(lo) = Inf
      /\ x.s = 1 /\ x.v = b.xl => minposroot(lo) = IF v.tiny = 1 THEN Inf ELSE 0
      /\ x.s = -1 /\ x.v > b.xl => minposroot(lo) = x.v - b.xl
      /\ x.s = -1 /\ x.v = b.xl /\ v.tiny # -1 => minposroot(lo) = 0
  BY <1>1, <1>4, RootOf
<1>9. /\ x.s = 0 => minposroot(hi) = Inf
      /\ x.s = -1 /\ x.v < b.xu => minposroot(hi) = Inf
      /\ x.s = -1 /\ x.v = b.xu => minposroot(hi) = IF v.tiny = -1 THEN Inf ELSE 0
      /\ x.s = 1 /\ x.v < b.xu => minposroot(hi) = b.xu - x.v
      /\ x.s = 1 /\ x.v = b.xu /\ v.tiny # 1 => minposroot(hi) = 0
  BY <1>1, <1>4, RootOf
<1>10. /\ x.v < b.xl \/ x.v > b.xu => sg = 0
       /\ b.xl < x.v /\ x.v < b.xu =>
            sg = IF x.s = 1 THEN b.xu - x.v ELSE IF x.s = -1 THEN x.v - b.xl ELSE Inf
       /\ x.v = b.xl => sg = IF x.s = 0 THEN Inf
                             ELSE IF x.s = 1 /\ v.tiny = 1 THEN b.xu - b.xl ELSE 0
       /\ x.v = b.xu => sg = IF x.s = 0 THEN Inf
                             ELSE IF x.s = -1 /\ v.tiny = -1 THEN b.xu - b.xl ELSE 0
  <2>1. CASE x.v < b.xl \/ x.v > b.xu
    BY <2>1, <1>1, <1>4, <1>7
  <2>2. CASE b.xl < x.v /\ x.v < b.xu
    BY <2>2, <1>1, <1>4, <1>7, <1>8, <1>9, Bounds DEF Sooner
  <2>3. CASE x.v = b.xl
    BY <2>3, <1>1, <1>3, <1>4, <1>7, <1>8, <1>9, Bounds DEF Sooner
  <2>4. CASE x.v = b.xu
    BY <2>4, <1>1, <1>3, <1>4, <1>7, <1>8, <1>9, Bounds DEF Sooner
  <2> QED
    BY <2>1, <2>2, <2>3, <2>4, <1>1, <1>4
<1>11. sg \in Sigmas
  <2> HIDE DEF sg
  <2>1. b.xu - b.xl <= 2 * MaxV /\ b.xu - x.v <= 2 * MaxV /\ x.v - b.xl <= 2 * MaxV
    BY <1>1, <1>4, Bounds
  <2> QED
    BY <2>1, <1>1, <1>4, <1>10, Bounds DEF Sigmas
<1> HIDE DEF sg, c
<1> QED
  BY <1>3, <1>5, <1>6, <1>10, <1>11 DEF c

(* Types of a saturation. *)
LEMMA SaturationIs ==
  ASSUME TypeOK, SaturationInv, kind = "qss_saturation"
  PROVE  /\ block \in Saturations /\ e \in Nat /\ e <= 2 * MaxV /\ e <= block.sigma
         /\ block.sigma \in Nat /\ block.u \in Signals /\ block.sw \in {-1, 0, 1}
         /\ block.sigma = Inf \/ block.sigma <= 2 * MaxV
         /\ block.xl \in Int /\ block.xu \in Int /\ block.xl < block.xu
         /\ block.xl \in V /\ block.xu \in V
         /\ block.u.v \in Int /\ block.u.s \in {-1, 0, 1} /\ block.u.s = truth[0].s
         /\ In \in Int /\ In \in V /\ truth[0] \in Signals /\ block.soon \in BOOLEAN
<1>1. /\ block \in Saturations /\ e \in Nat /\ e <= 2 * MaxV /\ e <= block.sigma
      /\ block.sigma \in Sigmas /\ block.u \in Signals /\ block.sw \in {-1, 0, 1}
      /\ block.xl \in V /\ block.xu \in V /\ block.xl < block.xu
      /\ truth[0] \in Signals /\ block.u.s = truth[0].s /\ In \in V /\ block.soon \in BOOLEAN
  BY Bounds DEF SaturationInv, Saturations, TypeOK, In
<1>2. block.u.v \in Int /\ block.u.s \in {-1, 0, 1}
  BY <1>1 DEF Signals, Slopes
<1> QED
  BY <1>1, <1>2, Bounds

(* An input of a saturation: inside it is due at once, beyond a limit it   *)
(* plans the way back.                                                     *)
LEMMA SaturationComes ==
  ASSUME NEW v \in V, NEW s \in Slopes, TypeOK, SaturationInv, kind = "qss_saturation",
         LevelsHear(Signal(v, s))
  PROVE  SaturationInv'
<1> DEFINE x == Signal(v, s)
           c == Outside(block, x)
<1>1. x \in Signals /\ x.v = v /\ x.s = s /\ x.tiny = 0 /\ v \in Int /\ s \in {-1, 0, 1}
  BY ASignal, Bounds DEF Slopes
<1>2. /\ kind' = kind /\ e' = 0 /\ turns' = 0 /\ begun' = begun /\ out' = out
      /\ truth' = [truth EXCEPT ![0] = x] /\ block' = SaturationDext(block, x)
      /\ astray' <=> (astray \/ (~begun /\ Due /\ block'.sigma # 0))
  BY DEF LevelsHear, Hears
<1> HIDE DEF x
<1>3. /\ block \in Saturations /\ e \in Nat /\ e <= block.sigma /\ block.sigma \in Nat
      /\ block.sw \in {-1, 0, 1} /\ block.xl \in Int /\ block.xu \in Int
      /\ block.xl \in V /\ block.xu \in V
  BY SaturationIs
<1>4. truth'[0] = x /\ In' = v
  BY <1>1, <1>2 DEF TypeOK, In
<1>5. At(v, s, 0) = v
  BY <1>1 DEF At
<1>6. CASE block.sw = 0
  <2>1. block' = [block EXCEPT !.u = x, !.sigma = 0, !.soon = FALSE]
    BY <1>2, <1>6 DEF SaturationDext
  <2>2. /\ block' \in Saturations /\ block'.u = x /\ block'.sigma = 0 /\ block'.soon = FALSE
        /\ block'.xl = block.xl /\ block'.xu = block.xu /\ block'.sw = 0
    BY <2>1, <1>1, <1>3, <1>6, Members DEF Saturations
  <2> QED
    BY <2>2, <1>1, <1>2, <1>4, <1>5 DEF SaturationInv
<1>7. CASE block.sw # 0
  <2> DEFINE L == Limit
             g == IF block.sw = -1 THEN L - x.v ELSE x.v - L
  <2>1. block' = c
    BY <1>2, <1>7 DEF SaturationDext
  <2>2. L = IF block.sw = -1 THEN block.xl ELSE block.xu
    BY DEF Limit
  <2> HIDE DEF L
  <2>3. /\ c = [block EXCEPT !.u = c.u, !.soon = FALSE, !.sigma = c.sigma]
        /\ c.u \in Signals /\ c.sigma \in Sigmas
        /\ c.u.v = x.v /\ c.u.s = x.s /\ c.u.tiny \in {0, x.s}
        /\ g < 0 => c.sigma = 0
        /\ g > 0 => c.sigma = IF x.s = 0 - block.sw THEN g ELSE Inf
        /\ g = 0 => c.sigma = IF x.s = 0 \/ (x.s = block.sw /\ c.u.tiny = x.s) THEN Inf ELSE 0
    BY <2>2, <1>1, <1>3, <1>7, OutsideIs, ZenonT(60)
  <2> HIDE DEF c
  <2>4. /\ block' \in Saturations /\ block'.u = c.u /\ block'.sigma = c.sigma
        /\ block'.soon = FALSE /\ block'.xl = block.xl /\ block'.xu = block.xu
        /\ block'.sw = block.sw
    BY <2>1, <2>3, <1>3 DEF Saturations
  <2>5. Limit' = L
    BY <2>4 DEF Limit, L
  <2>6. \/ out'.s = 0 /\ out'.v = L
        \/ astray' \/ Unsent'
    <3>1. CASE Unsent
      <4>1. Due /\ ~begun
        BY <3>1, <1>3 DEF Unsent, Due
      <4> QED
        BY <4>1, <2>4, <1>2 DEF Unsent
    <3>2. CASE ~Unsent
      BY <3>2, <1>2, <1>7 DEF SaturationInv, L
    <3> QED
      BY <3>1, <3>2
  <2>7. ASSUME c.sigma > 0
        PROVE  IF c.sigma = Inf THEN g >= 0 /\ x.s # 0 - block.sw
               ELSE g = c.sigma /\ x.s = 0 - block.sw
    <3>1. g \in Int /\ g <= 2 * MaxV
      BY <2>2, <1>1, <1>3, Bounds
    <3> HIDE DEF g
    <3> QED
      BY <3>1, <2>3, <2>7, <1>1, <1>3, <1>7, Bounds
  <2>8. c.sigma > 0 =>
          /\ block.sw = -1 =>
              IF c.sigma = Inf THEN v <= block.xl /\ s <= 0
              ELSE block.xl - v = c.sigma - 0 /\ s = 1
          /\ block.sw = 1 =>
              IF c.sigma = Inf THEN v >= block.xu /\ s >= 0
              ELSE v - block.xu = c.sigma - 0 /\ s = -1
    BY <2>2, <2>7, <1>1, <1>3, <1>7
  <2>9. 0 <= c.sigma
    BY <2>3, Bounds
  <2> QED
    BY <2>3, <2>4, <2>5, <2>6, <2>8, <2>9, <1>1, <1>2, <1>3, <1>4, <1>5, <1>7 DEF SaturationInv
<1> QED
  BY <1>6, <1>7

(* Where the input of a due saturation is, and the zone it finds it in.    *)
LEMMA ZoneIs ==
  ASSUME TypeOK, SaturationInv, kind = "qss_saturation", block.sigma = e, block.sigma # Inf
  PROVE  LET m == Moved(block)
             z == Zone(block, m)
         IN /\ m \in Signals /\ m.v = In /\ m.s = block.u.s /\ m.tiny \in {0, m.s}
            /\ z \in {-1, 0, 1}
            /\ block.soon => z = 0 /\ m.tiny = m.s /\ m.s # 0 /\ In = Limit
                             /\ block.u.v = In /\ block.sw # 0
            /\ block.sigma > 0 /\ block.sw # 0 => z = 0 /\ In = Limit /\ m.s = 0 - block.sw
            /\ block.sigma > 0 /\ block.sw = 0 =>
                 \/ z = 1 /\ In = block.xu /\ m.s = 1
                 \/ z = -1 /\ In = block.xl /\ m.s = -1
            /\ block.sigma = 0 /\ ~block.soon =>
                 /\ m = block.u
                 /\ z = IF In < block.xl \/ (In = block.xl /\ m.tiny # 1) THEN -1
                        ELSE IF In > block.xu \/ (In = block.xu /\ m.tiny # -1) THEN 1 ELSE 0
<1> DEFINE m == Moved(block)
           z == Zone(block, m)
           a == advance_time(block.u, block.sigma)
           w == [block.u EXCEPT !.tiny = block.u.s]
           lo == Since(m, block.xl)
           hi == Since(m, block.xu)
<1>1. /\ block \in Saturations /\ e \in Nat /\ block.sigma \in Nat /\ block.u \in Signals
      /\ block.sw \in {-1, 0, 1}
      /\ block.xl \in Int /\ block.xu \in Int /\ block.xl < block.xu
      /\ block.u.v \in Int /\ block.u.s \in {-1, 0, 1} /\ block.u.s = truth[0].s
      /\ In \in Int /\ block.soon \in BOOLEAN
  BY SaturationIs
<1>2. In = At(block.u.v, block.u.s, block.sigma) /\ block.u.tiny \in {0, block.u.s}
  BY DEF SaturationInv
<1>3. /\ a \in Signals /\ a.v = In /\ a.s = block.u.s
      /\ block.sigma = 0 => a = block.u
      /\ block.sigma > 0 /\ block.u.s # 0 => a.tiny = 0
  BY <1>1, <1>2, Advanced
<1>4. /\ w \in Signals /\ w.v = block.u.v /\ w.s = block.u.s /\ w.tiny = block.u.s
  BY <1>1 DEF Signals
<1>5. m = IF block.soon THEN w ELSE a
  BY DEF Moved
<1> HIDE DEF w, a
<1>6. block.soon => block.sigma = 0 /\ block.sw # 0 /\ block.u.v = Limit /\ block.u.s # 0
  BY DEF SaturationInv, OnLevel
<1>7. CASE block.soon
  <2>1. block.u.v = In
    BY <1>1, <1>2, <1>6, <1>7 DEF At
  <2>2. z = 0
    BY <1>6, <1>7 DEF Zone, Planned
  <2> HIDE DEF z, m
  <2> QED
    BY <2>1, <2>2, <1>1, <1>4, <1>5, <1>6, <1>7 DEF z, m
<1>8. CASE ~block.soon /\ block.sigma > 0
  <2>1. /\ block.sw = -1 => block.xl - In = 0 /\ block.u.s = 1
        /\ block.sw = 1 => In - block.xu = 0 /\ block.u.s = -1
        /\ block.sw = 0 => /\ block.u.s = 0 <=> block.sigma = Inf
                           /\ block.u.s = 1 => block.xu - In = 0
                           /\ block.u.s = -1 => In - block.xl = 0
    BY <1>1, <1>8 DEF SaturationInv
  <2>2. block.u.s # 0
    BY <2>1, <1>1
  <2>3. m \in Signals /\ m.v = In /\ m.s = block.u.s /\ m.tiny = 0
    BY <2>2, <1>3, <1>5, <1>8
  <2> HIDE DEF m
  <2>4. z = IF block.sw # 0 THEN 0 ELSE IF 2 * In > block.xl + block.xu THEN 1 ELSE -1
    BY <2>3, <1>8 DEF Zone, Planned
  <2>5. CASE block.sw # 0
    <3>1. z = 0 /\ In = Limit /\ block.u.s = 0 - block.sw
      BY <2>1, <2>4, <2>5, <1>1 DEF Limit
    <3> HIDE DEF z
    <3> QED
      BY <3>1, <2>3, <2>5, <1>1, <1>8 DEF m, z
  <2>6. CASE block.sw = 0
    <3>1. \/ z = 1 /\ In = block.xu /\ block.u.s = 1
          \/ z = -1 /\ In = block.xl /\ block.u.s = -1
      BY <2>1, <2>2, <2>4, <2>6, <1>1
    <3> HIDE DEF z
    <3> QED
      BY <3>1, <2>3, <2>6, <1>1, <1>8 DEF m, z
  <2> QED
    BY <2>5, <2>6
<1>9. CASE ~block.soon /\ block.sigma = 0
  <2>1. m = block.u
    BY <1>3, <1>5, <1>9
  <2>2. m \in Signals /\ m.v = In /\ m.s = block.u.s /\ m.tiny \in {0, m.s}
    BY <2>1, <1>2, <1>3, <1>9
  <2> HIDE DEF m
  <2>3. lo.v = In - block.xl /\ lo.tiny = m.tiny /\ hi.v = In - block.xu /\ hi.tiny = m.tiny
    BY <2>2, <1>1, SinceIs
  <2>4. (Above(lo) <=> In - block.xl > 0 \/ (In - block.xl = 0 /\ m.tiny = 1))
        /\ (Below(hi) <=> In - block.xu < 0 \/ (In - block.xu = 0 /\ m.tiny = -1))
    BY <2>3 DEF Above, Below
  <2>5. z = IF ~Above(lo) THEN -1 ELSE IF ~Below(hi) THEN 1 ELSE 0
    BY <1>9 DEF Zone, Planned
  <2>6. z = IF In < block.xl \/ (In = block.xl /\ m.tiny # 1) THEN -1
            ELSE IF In > block.xu \/ (In = block.xu /\ m.tiny # -1) THEN 1 ELSE 0
    BY <2>4, <2>5, <1>1
  <2> HIDE DEF z
  <2> QED
    BY <2>1, <2>2, <2>6, <1>1, <1>9 DEF m, z
<1> QED
  BY <1>1, <1>7, <1>8, <1>9

(* A due saturation finds its zone, plans, and has fewer transitions left. *)
LEMMA SaturationSendsIt ==
  ASSUME TypeOK, SaturationInv, kind = "qss_saturation", LevelsSend
  PROVE  SaturationInv' /\ out' \in Signals
<1> DEFINE m == Moved(block)
           z == Zone(block, m)
           b == [block EXCEPT !.sw = z]
           c == IF z = 0 THEN Inside(b, m) ELSE Outside(b, m)
           L == IF z = -1 THEN block.xl ELSE block.xu
           T == c.u.tiny
           S == block.u.s
           soon == IF z = 0 THEN FALSE ELSE (c.sigma = 0 /\ c.u.v = L /\ T = 0)
<1>1. /\ Due /\ kind' = kind /\ e' = 0 /\ truth' = truth /\ begun' = begun /\ ~astray'
      /\ turns' = IF turns < 4 THEN turns + 1 ELSE turns
      /\ out' = SaturationOutput(block) /\ block' = SaturationDint(block)
  BY DEF LevelsSend, Sends, MaxTurns
<1>2. /\ block \in Saturations /\ e \in Nat /\ e <= 2 * MaxV /\ e <= block.sigma
      /\ block.sigma \in Nat /\ block.u \in Signals /\ block.sw \in {-1, 0, 1}
      /\ block.sigma = Inf \/ block.sigma <= 2 * MaxV
      /\ block.xl \in Int /\ block.xu \in Int /\ block.xl < block.xu
      /\ block.xl \in V /\ block.xu \in V
      /\ S \in {-1, 0, 1} /\ S = truth[0].s
      /\ In \in Int /\ In \in V /\ block.soon \in BOOLEAN
  BY SaturationIs
<1>3. block.sigma = e /\ block.sigma # Inf
  BY <1>1, <1>2, Bounds DEF Due
<1>4. /\ m \in Signals /\ m.v = In /\ m.s = S /\ m.tiny \in {0, m.s}
      /\ z \in {-1, 0, 1}
      /\ block.soon => z = 0 /\ m.tiny = m.s /\ m.s # 0 /\ In = Limit
                       /\ block.u.v = In /\ block.sw # 0
      /\ block.sigma > 0 /\ block.sw # 0 => z = 0 /\ In = Limit /\ m.s = 0 - block.sw
      /\ block.sigma > 0 /\ block.sw = 0 =>
           \/ z = 1 /\ In = block.xu /\ m.s = 1
           \/ z = -1 /\ In = block.xl /\ m.s = -1
      /\ block.sigma = 0 /\ ~block.soon =>
           /\ m = block.u
           /\ z = IF In < block.xl \/ (In = block.xl /\ m.tiny # 1) THEN -1
                  ELSE IF In > block.xu \/ (In = block.xu /\ m.tiny # -1) THEN 1 ELSE 0
  BY <1>3, ZoneIs
<1>5. out' = IF z = -1 THEN Signal(block.xl, 0) ELSE IF z = 1 THEN Signal(block.xu, 0) ELSE m
  BY <1>1, <1>4 DEF SaturationOutput
<1>6. block' = IF z = 0 THEN Inside(b, m) ELSE Workaround(Outside(b, m))
  <2>1. b.sw = z
    BY <1>2 DEF Saturations
  <2> QED
    BY <2>1, <1>1 DEF SaturationDint
<1> HIDE DEF m, z
<1>7. /\ b \in Saturations /\ b.sw = z /\ b.xl = block.xl /\ b.xu = block.xu
  BY <1>2, <1>4 DEF Saturations
<1> HIDE DEF b
<1>8. /\ c = [b EXCEPT !.u = c.u, !.soon = FALSE, !.sigma = c.sigma]
      /\ c.u \in Signals /\ c.sigma \in Sigmas
      /\ c.u.v = In /\ c.u.s = S /\ T \in {0, S}
      /\ m.tiny = S => T = S
  <2>1. m.v \in V /\ m \in Signals /\ m.tiny \in {0, m.s} /\ b.xl < b.xu
    BY <1>2, <1>4, <1>7
  <2>2. CASE z = 0
    <3>1. LET d == Inside(b, m)
          IN /\ d = [b EXCEPT !.u = d.u, !.soon = FALSE, !.sigma = d.sigma]
             /\ d.u \in Signals /\ d.sigma \in Sigmas
             /\ d.u.v = m.v /\ d.u.s = m.s /\ d.u.tiny \in {0, m.s}
             /\ m.tiny = m.s => d.u.tiny = m.s
      BY <2>1, <1>7, InsideIs
    <3> QED
      BY <3>1, <2>2, <1>4
  <2>3. CASE z # 0
    <3>1. L = IF b.sw = -1 THEN b.xl ELSE b.xu
      BY <1>7
    <3>2. LET d == Outside(b, m)
          IN /\ d = [b EXCEPT !.u = d.u, !.soon = FALSE, !.sigma = d.sigma]
             /\ d.u \in Signals /\ d.sigma \in Sigmas
             /\ d.u.v = m.v /\ d.u.s = m.s /\ d.u.tiny \in {0, m.s}
             /\ m.tiny = m.s => d.u.tiny = m.s
      BY <2>1, <2>3, <3>1, <1>7, OutsideIs
    <3> QED
      BY <3>2, <2>3, <1>4
  <2> QED
    BY <2>2, <2>3
<1>9. z = 0 =>
        /\ In < block.xl \/ In > block.xu => c.sigma = 0
        /\ block.xl < In /\ In < block.xu =>
             c.sigma = IF S = 1 THEN block.xu - In ELSE IF S = -1 THEN In - block.xl ELSE Inf
        /\ In = block.xl => c.sigma = IF S = 0 THEN Inf
                                      ELSE IF S = 1 /\ T = 1 THEN block.xu - block.xl ELSE 0
        /\ In = block.xu => c.sigma = IF S = 0 THEN Inf
                                      ELSE IF S = -1 /\ T = -1 THEN block.xu - block.xl ELSE 0
  <2> SUFFICES ASSUME z = 0
               PROVE  LET d == Inside(b, m)
                      IN /\ m.v < b.xl \/ m.v > b.xu => d.sigma = 0
                         /\ b.xl < m.v /\ m.v < b.xu =>
                              d.sigma = IF m.s = 1 THEN b.xu - m.v
                                        ELSE IF m.s = -1 THEN m.v - b.xl ELSE Inf
                         /\ m.v = b.xl => d.sigma = IF m.s = 0 THEN Inf
                                          ELSE IF m.s = 1 /\ d.u.tiny = 1 THEN b.xu - b.xl ELSE 0
                         /\ m.v = b.xu => d.sigma = IF m.s = 0 THEN Inf
                                          ELSE IF m.s = -1 /\ d.u.tiny = -1 THEN b.xu - b.xl ELSE 0
    BY <1>4, <1>7
  <2>1. m.v \in V /\ m \in Signals /\ m.tiny \in {0, m.s} /\ b.xl < b.xu
    BY <1>2, <1>4, <1>7
  <2> QED
    BY <2>1, <1>7, InsideIs
<1>10. \A g \in Int : z # 0 /\ g = (IF z = -1 THEN L - In ELSE In - L) =>
        /\ g < 0 => c.sigma = 0
        /\ g > 0 => c.sigma = IF S = 0 - z THEN g ELSE Inf
        /\ g = 0 => c.sigma = IF S = 0 \/ (S = z /\ T = S) THEN Inf ELSE 0
  <2> SUFFICES ASSUME NEW g \in Int, z # 0, g = (IF z = -1 THEN L - In ELSE In - L)
               PROVE  LET d == Outside(b, m)
                      IN /\ g < 0 => d.sigma = 0
                         /\ g > 0 => d.sigma = IF m.s = 0 - z THEN g ELSE Inf
                         /\ g = 0 => d.sigma = IF m.s = 0 \/ (m.s = z /\ d.u.tiny = m.s) THEN Inf ELSE 0
    BY <1>4
  <2>1. m.v \in V /\ m \in Signals /\ m.tiny \in {0, m.s}
    BY <1>2, <1>4
  <2>2. L = IF b.sw = -1 THEN b.xl ELSE b.xu
    BY <1>7
  <2> HIDE DEF L
  <2>3. g = IF b.sw = -1 THEN L - m.v ELSE m.v - L
    BY <1>4, <1>7
  <2>4. LET d == Outside(b, m)
            h == IF b.sw = -1 THEN L - m.v ELSE m.v - L
        IN /\ h < 0 => d.sigma = 0
           /\ h > 0 => d.sigma = IF m.s = 0 - b.sw THEN h ELSE Inf
           /\ h = 0 => d.sigma = IF m.s = 0 \/ (m.s = b.sw /\ d.u.tiny = m.s) THEN Inf ELSE 0
    BY <2>1, <2>2, <1>7, OutsideIs, ZenonT(60)
  <2> QED
    BY <2>3, <2>4, <1>7
<1> HIDE DEF c
<1>11. block' = [b EXCEPT !.u = c.u, !.soon = soon, !.sigma = c.sigma]
  <2>1. CASE z = 0
    BY <2>1, <1>6, <1>8 DEF c
  <2>2. CASE z # 0
    <3>1. block' = Workaround(c)
      BY <2>2, <1>6 DEF c
    <3>2. c.sw = z /\ c.xl = block.xl /\ c.xu = block.xu /\ c \in Saturations
      BY <1>7, <1>8 DEF Saturations
    <3>3. block' = [c EXCEPT !.soon = soon]
      BY <2>2, <3>1, <3>2 DEF Workaround, OnLevel
    <3> HIDE DEF soon
    <3> QED
      BY <3>2, <3>3, <1>7, <1>8 DEF Saturations
  <2> QED
    BY <2>1, <2>2
<1>12. /\ block' \in Saturations /\ block'.u = c.u /\ block'.sigma = c.sigma
       /\ block'.sw = z /\ block'.xl = block.xl /\ block'.xu = block.xu
       /\ (block'.soon <=> soon)
  <2>1. soon \in BOOLEAN
    OBVIOUS
  <2> HIDE DEF soon
  <2> QED
    BY <2>1, <1>7, <1>8, <1>11 DEF Saturations
<1>13. In' = In /\ truth'[0].s = S /\ c.sigma \in Nat /\ (c.sigma = Inf \/ c.sigma <= 2 * MaxV)
  BY <1>1, <1>2, <1>8, Bounds DEF In
<1>14. /\ out' \in Signals
       /\ z # 0 => out'.s = 0 /\ out'.v = L
       /\ z = 0 => out'.v = In /\ out'.s = S
  <2>1. 0 \in Slopes /\ Signal(L, 0) \in Signals /\ Signal(L, 0).v = L /\ Signal(L, 0).s = 0
    <3>1. L \in Int /\ 0 \in Slopes
      BY <1>2 DEF Slopes
    <3> QED
      BY <3>1, ASignal
  <2>2. z # 0 => out' = Signal(L, 0)
    BY <1>4, <1>5
  <2> QED
    BY <2>1, <2>2, <1>4, <1>5
<1>15. c.sigma > 0 =>
         /\ z = -1 =>
              IF c.sigma = Inf THEN In <= block.xl /\ S <= 0
              ELSE block.xl - In = c.sigma - 0 /\ S = 1
         /\ z = 1 =>
              IF c.sigma = Inf THEN In >= block.xu /\ S >= 0
              ELSE In - block.xu = c.sigma - 0 /\ S = -1
         /\ z = 0 =>
              /\ block.xl <= In /\ In <= block.xu
              /\ S = 0 <=> c.sigma = Inf
              /\ S = 1 => c.sigma - 0 = block.xu - In
              /\ S = -1 => c.sigma - 0 = In - block.xl
  <2> SUFFICES ASSUME c.sigma > 0
               PROVE  /\ z = -1 =>
                           IF c.sigma = Inf THEN In <= block.xl /\ S <= 0
                           ELSE block.xl - In = c.sigma - 0 /\ S = 1
                      /\ z = 1 =>
                           IF c.sigma = Inf THEN In >= block.xu /\ S >= 0
                           ELSE In - block.xu = c.sigma - 0 /\ S = -1
                      /\ z = 0 =>
                           /\ block.xl <= In /\ In <= block.xu
                           /\ S = 0 <=> c.sigma = Inf
                           /\ S = 1 => c.sigma - 0 = block.xu - In
                           /\ S = -1 => c.sigma - 0 = In - block.xl
    OBVIOUS
  <2> HIDE DEF S
  <2>1. CASE z = -1
    <3>1. \E g \in Int : g = L - In /\ g = block.xl - In /\ g <= 2 * MaxV
      BY <2>1, <1>2, Bounds
    <3>2. PICK g \in Int : g = L - In /\ g = block.xl - In /\ g <= 2 * MaxV
      BY <3>1
    <3>3. /\ g < 0 => c.sigma = 0
          /\ g > 0 => c.sigma = IF S = 0 - z THEN g ELSE Inf
          /\ g = 0 => c.sigma = IF S = 0 \/ (S = z /\ T = S) THEN Inf ELSE 0
      BY <3>2, <2>1, <1>10
    <3> QED
      BY <3>2, <3>3, <2>1, <1>2, <1>13, Bounds
  <2>2. CASE z = 1
    <3>1. \E g \in Int : g = In - L /\ g = In - block.xu /\ g <= 2 * MaxV
      BY <2>2, <1>2, Bounds
    <3>2. PICK g \in Int : g = In - L /\ g = In - block.xu /\ g <= 2 * MaxV
      BY <3>1
    <3>3. /\ g < 0 => c.sigma = 0
          /\ g > 0 => c.sigma = IF S = 0 - z THEN g ELSE Inf
          /\ g = 0 => c.sigma = IF S = 0 \/ (S = z /\ T = S) THEN Inf ELSE 0
      BY <3>2, <2>2, <1>10
    <3> QED
      BY <3>2, <3>3, <2>2, <1>2, <1>13, Bounds
  <2>3. CASE z = 0
    <3>1. block.xl <= In /\ In <= block.xu
      BY <2>3, <1>2, <1>9
    <3>2. block.xu - In <= 2 * MaxV /\ In - block.xl <= 2 * MaxV
      BY <1>2, Bounds
    <3>3. CASE block.xl < In /\ In < block.xu
      BY <3>2, <3>3, <2>3, <1>2, <1>9, Bounds
    <3>4. CASE In = block.xl
      BY <3>2, <3>4, <2>3, <1>2, <1>9, Bounds
    <3>5. CASE In = block.xu
      BY <3>2, <3>5, <2>3, <1>2, <1>9, Bounds
    <3> QED
      BY <3>1, <3>3, <3>4, <3>5, <2>3, <1>2
  <2> QED
    BY <2>1, <2>2, <2>3, <1>4
<1>16. SaturationRank' =
         IF c.sigma > 0 THEN 0
         ELSE IF soon THEN (IF (In = block.xl /\ S = 1) \/ (In = block.xu /\ S = -1) THEN 1 ELSE 2)
         ELSE IF In \notin {block.xl, block.xu} \/ S = 0 \/ T = S THEN 1
         ELSE IF (In = block.xl /\ S = 1) \/ (In = block.xu /\ S = -1) THEN 2 ELSE 3
  <2>1. /\ block'.sigma = c.sigma /\ block'.xl = block.xl /\ block'.xu = block.xu
        /\ block'.u.v = In /\ block'.u.s = S /\ block'.u.tiny = T /\ (block'.soon <=> soon)
    BY <1>8, <1>12
  <2> HIDE DEF S, T, soon
  <2>2. Inward' <=> (In = block.xl /\ S = 1) \/ (In = block.xu /\ S = -1)
    BY <2>1 DEF Inward
  <2> QED
    BY <2>1, <2>2 DEF SaturationRank
<1>17. block.sigma = 0 => SaturationRank \in 1 .. 3
  <2> HIDE DEF S
  <2> QED
    BY <1>2 DEF SaturationRank
(* On a limit after it: it goes along its slope, or is looked at again.    *)
<1>18. /\ z = -1 /\ In = block.xl => c.sigma = IF S = 0 \/ (S = -1 /\ T = -1) THEN Inf ELSE 0
       /\ z = 1 /\ In = block.xu => c.sigma = IF S = 0 \/ (S = 1 /\ T = 1) THEN Inf ELSE 0
       /\ z = -1 /\ In < block.xl => c.sigma > 0
       /\ z = 1 /\ In > block.xu => c.sigma > 0
  <2> HIDE DEF S, T
  <2>1. CASE z = -1
    <3>1. PICK g \in Int : g = block.xl - In /\ g = L - In
      BY <2>1, <1>2
    <3>2. /\ g > 0 => c.sigma = IF S = 0 - z THEN g ELSE Inf
          /\ g = 0 => c.sigma = IF S = 0 \/ (S = z /\ T = S) THEN Inf ELSE 0
      BY <3>1, <2>1, <1>10
    <3> QED
      BY <3>1, <3>2, <2>1, <1>2, Bounds
  <2>2. CASE z = 1
    <3>1. PICK g \in Int : g = In - block.xu /\ g = In - L
      BY <2>2, <1>2
    <3>2. /\ g > 0 => c.sigma = IF S = 0 - z THEN g ELSE Inf
          /\ g = 0 => c.sigma = IF S = 0 \/ (S = z /\ T = S) THEN Inf ELSE 0
      BY <3>1, <2>2, <1>10
    <3> QED
      BY <3>1, <3>2, <2>2, <1>2, Bounds
  <2>3. CASE z = 0
    BY <2>3
  <2> QED
    BY <2>1, <2>2, <2>3, <1>4
<1>19. z # 0 => (soon <=> c.sigma = 0 /\ In = L /\ T = 0)
  BY <1>8
<1>20. block.sigma > 0 => SaturationRank' <= 2
  <2> SUFFICES ASSUME block.sigma > 0
               PROVE  SaturationRank' <= 2
    OBVIOUS
  <2> HIDE DEF S, T, soon
  <2>1. CASE block.sw # 0
    <3>1. (In = block.xl /\ S = 1) \/ (In = block.xu /\ S = -1)
      BY <2>1, <1>2, <1>4 DEF Limit
    <3> QED
      BY <3>1, <1>2, <1>16
  <2>2. CASE block.sw = 0
    <3>1. (z = 1 /\ In = block.xu /\ S = 1) \/ (z = -1 /\ In = block.xl /\ S = -1)
      BY <2>2, <1>4
    <3>2. c.sigma = 0 => soon
      BY <3>1, <1>2, <1>8, <1>18, <1>19, Bounds
    <3> QED
      BY <3>2, <1>13, <1>16
  <2> QED
    BY <2>1, <2>2
<1>21. block.sigma = 0 => SaturationRank' < SaturationRank
  <2> SUFFICES ASSUME block.sigma = 0
               PROVE  SaturationRank' < SaturationRank
    OBVIOUS
  <2>1. CASE block.soon
    <3>1. /\ z = 0 /\ m.tiny = S /\ T = S /\ S # 0 /\ In \in {block.xl, block.xu}
          /\ block.u.v = In
      BY <2>1, <1>4, <1>8 DEF Limit
    <3>2. SaturationRank = IF (In = block.xl /\ S = 1) \/ (In = block.xu /\ S = -1) THEN 1 ELSE 2
      BY <3>1, <2>1 DEF SaturationRank, Inward
    <3>3. ~soon
      BY <3>1
    <3> HIDE DEF S, T, soon
    <3>4. (In = block.xl /\ S = 1) \/ (In = block.xu /\ S = -1) => c.sigma > 0
      BY <3>1, <1>2, <1>9, Bounds
    <3>5. SaturationRank' \in {0, 1}
      BY <3>1, <3>3, <1>13, <1>16
    <3>6. c.sigma > 0 => SaturationRank' = 0
      BY <1>16
    <3> QED
      BY <3>2, <3>4, <3>5, <3>6
  <2>2. CASE ~block.soon
    <3>1. /\ m = block.u /\ block.u.v = In /\ m.tiny \in {0, S} /\ block.u.tiny = m.tiny
          /\ z = IF In < block.xl \/ (In = block.xl /\ m.tiny # 1) THEN -1
                 ELSE IF In > block.xu \/ (In = block.xu /\ m.tiny # -1) THEN 1 ELSE 0
      BY <2>2, <1>4
    <3>2. SaturationRank =
            IF In \notin {block.xl, block.xu} \/ S = 0 \/ m.tiny = S THEN 1
            ELSE IF (In = block.xl /\ S = 1) \/ (In = block.xu /\ S = -1) THEN 2 ELSE 3
      BY <3>1, <2>2 DEF SaturationRank, Inward
    <3> HIDE DEF S, T, soon
    <3>3. CASE In \notin {block.xl, block.xu}
      <4>1. z = IF In < block.xl THEN -1 ELSE IF In > block.xu THEN 1 ELSE 0
        BY <3>1, <3>3, <1>2
      <4>2. CASE z = 0
        <5>1. block.xl < In /\ In < block.xu
          BY <4>1, <4>2, <3>3, <1>2
        <5>2. c.sigma = IF S = 1 THEN block.xu - In ELSE IF S = -1 THEN In - block.xl ELSE Inf
          BY <4>2, <5>1, <1>9
        <5> QED
          BY <5>1, <5>2, <3>2, <3>3, <1>2, <1>16, Bounds
      <4>3. CASE z # 0
        <5>1. c.sigma > 0
          BY <4>1, <4>3, <1>18
        <5> QED
          BY <5>1, <3>2, <3>3, <1>16
      <4> QED
        BY <4>2, <4>3
    <3>4. CASE In \in {block.xl, block.xu} /\ (S = 0 \/ m.tiny = S)
      <4>1. CASE z = 0
        <5>1. (In = block.xl /\ m.tiny = 1) \/ (In = block.xu /\ m.tiny = -1)
          BY <4>1, <3>1, <3>4, <1>2
        <5>2. (In = block.xl /\ S = 1 /\ T = 1) \/ (In = block.xu /\ S = -1 /\ T = -1)
          BY <5>1, <3>1, <3>4, <1>8
        <5>3. c.sigma = block.xu - block.xl
          BY <4>1, <5>2, <1>9, <1>2
        <5> QED
          BY <5>3, <3>2, <3>4, <1>2, <1>16
      <4>2. CASE z = -1
        <5>1. In = block.xl /\ m.tiny # 1
          BY <4>2, <3>1, <3>4, <1>2
        <5>2. S = 0 \/ (S = -1 /\ T = -1)
          BY <5>1, <3>4, <1>2, <1>8
        <5>3. c.sigma = Inf
          BY <4>2, <5>1, <5>2, <1>18
        <5> QED
          BY <5>3, <3>2, <3>4, <1>16, Bounds
      <4>3. CASE z = 1
        <5>1. In = block.xu /\ m.tiny # -1
          BY <4>3, <3>1, <3>4, <1>2
        <5>2. S = 0 \/ (S = 1 /\ T = 1)
          BY <5>1, <3>4, <1>2, <1>8
        <5>3. c.sigma = Inf
          BY <4>3, <5>1, <5>2, <1>18
        <5> QED
          BY <5>3, <3>2, <3>4, <1>16, Bounds
      <4> QED
        BY <4>1, <4>2, <4>3, <1>4
    <3>5. CASE In \in {block.xl, block.xu} /\ S # 0 /\ m.tiny # S
      <4>1. m.tiny = 0 /\ S \in {-1, 1}
        BY <3>1, <3>5, <1>2
      <4>2. (z = -1 /\ In = block.xl) \/ (z = 1 /\ In = block.xu)
        BY <4>1, <3>1, <3>5, <1>2
      <4>3. In = L
        BY <4>2
      <4>4. c.sigma = 0 => (soon <=> T = 0)
        BY <4>2, <4>3, <1>19
      <4>5. ~soon /\ c.sigma = 0 => T = S
        BY <4>4, <1>8
      <4>6. CASE (In = block.xl /\ S = 1) \/ (In = block.xu /\ S = -1)
        BY <4>5, <4>6, <3>2, <3>5, <1>13, <1>16
      <4>7. CASE ~((In = block.xl /\ S = 1) \/ (In = block.xu /\ S = -1))
        BY <4>5, <4>7, <3>2, <3>5, <1>13, <1>16
      <4> QED
        BY <4>6, <4>7
    <3> QED
      BY <3>3, <3>4, <3>5
  <2> QED
    BY <2>1, <2>2
<1>22. turns' = 0 \/ (turns' \in 1 .. 3 /\ e' = 0 /\ turns' + SaturationRank' <= 3)
  <2> DEFINE R == IF c.sigma > 0 THEN 0
                  ELSE IF soon THEN (IF (In = block.xl /\ S = 1) \/ (In = block.xu /\ S = -1) THEN 1 ELSE 2)
                  ELSE IF In \notin {block.xl, block.xu} \/ S = 0 \/ T = S THEN 1
                  ELSE IF (In = block.xl /\ S = 1) \/ (In = block.xu /\ S = -1) THEN 2 ELSE 3
  <2>1. SaturationRank' = R
    BY <1>16
  <2> HIDE DEF S, T, soon
  <2>2. R \in 0 .. 3
    OBVIOUS
  <2> HIDE DEF R
  <2>3. SUFFICES turns' \in 1 .. 3 /\ e' = 0 /\ turns' + R <= 3
    BY <2>1
  <2>4. turns = 0 \/ (turns \in 1 .. 3 /\ e = 0 /\ turns + SaturationRank <= 3)
    BY DEF SaturationInv
  <2>5. (block.sigma > 0 => R <= 2) /\ (block.sigma = 0 => R < SaturationRank)
    BY <2>1, <1>20, <1>21
  <2>6. CASE turns = 0
    <3>1. turns' = 1 /\ R <= 2
      BY <2>2, <2>5, <2>6, <1>1, <1>2, <1>17
    <3> QED
      BY <3>1, <2>2, <1>1
  <2>7. CASE turns # 0
    <3>1. turns \in 1 .. 3 /\ block.sigma = 0 /\ turns + SaturationRank <= 3
      BY <2>4, <2>7, <1>3
    <3>2. turns' = turns + 1 /\ turns \in 1 .. 2
      BY <3>1, <1>1, <1>17
    <3> QED
      BY <3>1, <3>2, <2>2, <2>5, <1>1, <1>17
  <2> QED
    BY <2>6, <2>7
<1>23. block'.sw # 0 => out'.s = 0 /\ out'.v = Limit'
  <2>1. block'.sw # 0 => Limit' = L
    BY <1>4, <1>12 DEF Limit
  <2> QED
    BY <2>1, <1>12, <1>14
<1>24. block'.soon => /\ block'.sigma = 0 /\ block'.sw # 0 /\ OnLevel(block'.u, Limit')
                      /\ block'.u.s # 0
  <2> SUFFICES ASSUME soon
               PROVE  c.sigma = 0 /\ z # 0 /\ c.u.v = Limit' /\ T = 0 /\ S # 0
    BY <1>8, <1>12 DEF OnLevel
  <2>1. z # 0 /\ c.sigma = 0 /\ In = L /\ T = 0
    BY <1>19
  <2>2. Limit' = L
    BY <2>1, <1>4, <1>12 DEF Limit
  <2>3. S # 0
    <3> HIDE DEF S, T
    <3> QED
      BY <2>1, <1>4, <1>18, Bounds
  <2> QED
    BY <2>1, <2>2, <2>3, <1>8
<1>25. /\ block'.u.s = truth'[0].s /\ block'.u.tiny \in {0, block'.u.s}
       /\ In' = At(block'.u.v, block'.u.s, e')
  <2>1. At(In, S, 0) = In
    BY <1>2 DEF At
  <2> QED
    BY <2>1, <1>1, <1>8, <1>12, <1>13
<1>26. block'.sigma > 0 =>
         /\ block'.sw = -1 =>
              IF block'.sigma = Inf THEN In' <= block'.xl /\ truth'[0].s <= 0
              ELSE block'.xl - In' = block'.sigma - e' /\ truth'[0].s = 1
         /\ block'.sw = 1 =>
              IF block'.sigma = Inf THEN In' >= block'.xu /\ truth'[0].s >= 0
              ELSE In' - block'.xu = block'.sigma - e' /\ truth'[0].s = -1
         /\ block'.sw = 0 =>
              /\ out'.v = In' /\ out'.s = truth'[0].s /\ block'.xl <= In' /\ In' <= block'.xu
              /\ truth'[0].s = 0 <=> block'.sigma = Inf
              /\ truth'[0].s = 1 => block'.sigma - e' = block'.xu - In'
              /\ truth'[0].s = -1 => block'.sigma - e' = In' - block'.xl
  <2> HIDE DEF S
  <2> QED
    BY <1>1, <1>12, <1>13, <1>14, <1>15
<1>27. e' <= block'.sigma /\ block'.xl < block'.xu
  BY <1>1, <1>2, <1>12, <1>13
<1> QED
  BY <1>1, <1>12, <1>14, <1>22, <1>23, <1>24, <1>25, <1>26, <1>27 DEF SaturationInv

(* Time moves the input as the plan has it. *)
LEMMA SaturationPasses ==
  ASSUME TypeOK, SaturationInv, kind = "qss_saturation", TimePasses
  PROVE  SaturationInv'
<1>1. /\ kind' = kind /\ block' = block /\ astray' = astray /\ turns' = 0
      /\ truth'[0] = advance_time(truth[0], 1) /\ ~Due
      /\ out' = advance_time(out, 1)
      /\ e' = IF e < 2 * MaxV THEN e + 1 ELSE e
  BY DEF TimePasses, Later
<1>2. /\ block \in Saturations /\ e \in Nat /\ e <= 2 * MaxV /\ e <= block.sigma
      /\ block.sigma \in Nat /\ block.sw \in {-1, 0, 1}
      /\ block.sigma = Inf \/ block.sigma <= 2 * MaxV
      /\ block.xl \in Int /\ block.xu \in Int /\ block.xl < block.xu
      /\ block.u.v \in Int /\ block.u.s \in {-1, 0, 1} /\ block.u.s = truth[0].s
      /\ In \in Int /\ In \in V /\ truth[0] \in Signals
  BY SaturationIs
<1>3. e < block.sigma /\ block.sigma # 0 /\ ~block.soon /\ ~Unsent
  BY <1>1, <1>2 DEF Due, SaturationInv, Unsent
<1>4. truth'[0].s = truth[0].s /\ In' = In + truth[0].s
  <2>1. advance_time(truth[0], 1).s = truth[0].s /\ advance_time(truth[0], 1).v = At(truth[0].v, truth[0].s, 1)
    BY <1>2, Advanced, Zenon
  <2> QED
    BY <2>1, <1>1, <1>2 DEF At, In
<1>5. block.sigma # Inf => e' = e + 1
  BY <1>1, <1>2, <1>3, Bounds
<1>6. block.sigma # Inf => In' = At(block.u.v, block.u.s, e')
  <2>1. block.sigma # Inf => In = At(block.u.v, block.u.s, e)
    BY DEF SaturationInv
  <2> QED
    BY <2>1, <1>2, <1>4, <1>5 DEF At
<1>7. e' <= block.sigma
  BY <1>1, <1>2, <1>3, Bounds
<1>8. CASE block.sw = 0
  <2>1. /\ out.v = In /\ out.s = truth[0].s /\ block.xl <= In /\ In <= block.xu
        /\ truth[0].s = 0 <=> block.sigma = Inf
        /\ truth[0].s = 1 => block.sigma - e = block.xu - In
        /\ truth[0].s = -1 => block.sigma - e = In - block.xl
    BY <1>2, <1>3, <1>8 DEF SaturationInv
  <2>2. out'.s = out.s /\ out'.v = At(out.v, out.s, 1)
    <3>1. out \in Signals
      BY DEF TypeOK
    <3>2. advance_time(out, 1).s = out.s /\ advance_time(out, 1).v = At(out.v, out.s, 1)
      BY <3>1, Advanced, Zenon
    <3> QED
      BY <3>2, <1>1
  <2>3. out'.v = In' /\ out'.s = truth'[0].s
    BY <2>1, <2>2, <1>2, <1>4 DEF At
  <2>4. block.xl <= In' /\ In' <= block.xu
    BY <2>1, <1>2, <1>3, <1>4
  <2>5. /\ truth'[0].s = 0 <=> block.sigma = Inf
        /\ truth'[0].s = 1 => block.sigma - e' = block.xu - In'
        /\ truth'[0].s = -1 => block.sigma - e' = In' - block.xl
    BY <2>1, <1>2, <1>4, <1>5
  <2> QED
    BY <2>3, <2>4, <2>5, <1>1, <1>2, <1>3, <1>4, <1>6, <1>7, <1>8 DEF SaturationInv
<1>9. CASE block.sw # 0
  <2>1. (out.s = 0 /\ out.v = Limit) \/ astray
    BY <1>3, <1>9 DEF SaturationInv
  <2>2. (out'.s = 0 /\ out'.v = Limit') \/ astray'
    BY <2>1, <1>1 DEF advance_time, Limit
  <2>3. /\ block.sw = -1 =>
              IF block.sigma = Inf THEN In <= block.xl /\ truth[0].s <= 0
              ELSE block.xl - In = block.sigma - e /\ truth[0].s = 1
        /\ block.sw = 1 =>
              IF block.sigma = Inf THEN In >= block.xu /\ truth[0].s >= 0
              ELSE In - block.xu = block.sigma - e /\ truth[0].s = -1
    BY <1>2, <1>3 DEF SaturationInv
  <2>4. /\ block.sw = -1 =>
              IF block.sigma = Inf THEN In' <= block.xl /\ truth'[0].s <= 0
              ELSE block.xl - In' = block.sigma - e' /\ truth'[0].s = 1
        /\ block.sw = 1 =>
              IF block.sigma = Inf THEN In' >= block.xu /\ truth'[0].s >= 0
              ELSE In' - block.xu = block.sigma - e' /\ truth'[0].s = -1
    BY <2>3, <1>2, <1>4, <1>5
  <2>5. /\ block'.u.s = truth'[0].s /\ block'.u.tiny \in {0, block'.u.s}
        /\ block' \in Saturations /\ e' <= block'.sigma /\ block'.xl < block'.xu
        /\ ~block'.soon
    BY <1>1, <1>2, <1>3, <1>4, <1>7 DEF SaturationInv
  <2>6. block'.sigma # Inf => In' = At(block'.u.v, block'.u.s, e')
    BY <1>1, <1>6
  <2>7. block'.sw # 0 /\ turns' = 0
    BY <1>1, <1>9
  <2>8. /\ block'.sw = -1 =>
              IF block'.sigma = Inf THEN In' <= block'.xl /\ truth'[0].s <= 0
              ELSE block'.xl - In' = block'.sigma - e' /\ truth'[0].s = 1
        /\ block'.sw = 1 =>
              IF block'.sigma = Inf THEN In' >= block'.xu /\ truth'[0].s >= 0
              ELSE In' - block'.xu = block'.sigma - e' /\ truth'[0].s = -1
    BY <2>4, <1>1
  <2>9. block'.sw # 0 => (out'.s = 0 /\ out'.v = Limit') \/ astray' \/ Unsent'
    BY <2>2
  <2>10. block'.sigma > 0 =>
         /\ block'.sw = -1 =>
              IF block'.sigma = Inf THEN In' <= block'.xl /\ truth'[0].s <= 0
              ELSE block'.xl - In' = block'.sigma - e' /\ truth'[0].s = 1
         /\ block'.sw = 1 =>
              IF block'.sigma = Inf THEN In' >= block'.xu /\ truth'[0].s >= 0
              ELSE In' - block'.xu = block'.sigma - e' /\ truth'[0].s = -1
         /\ block'.sw = 0 =>
              /\ out'.v = In' /\ out'.s = truth'[0].s /\ block'.xl <= In' /\ In' <= block'.xu
              /\ truth'[0].s = 0 <=> block'.sigma = Inf
              /\ truth'[0].s = 1 => block'.sigma - e' = block'.xu - In'
              /\ truth'[0].s = -1 => block'.sigma - e' = In' - block'.xl
    BY <2>7, <2>8
  <2> QED
    BY <2>5, <2>6, <2>7, <2>9, <2>10 DEF SaturationInv
<1> QED
  BY <1>8, <1>9

(* A saturation starts with its first output to send. *)
LEMMA SaturationStarts ==
  ASSUME Init
  PROVE  SaturationInv
<1> SUFFICES ASSUME kind = "qss_saturation"
             PROVE  SaturationInv
  BY DEF SaturationInv
<1>1. PICK band \in Bands : block = SaturationInit(band[1], band[2])
  BY DEF Init, BlockInit
<1>2. band[1] \in V /\ band[2] \in V /\ band[1] < band[2]
  BY QuantizedAssumption
<1>3. e = 0 /\ out = Zero /\ truth[0] = Zero /\ turns = 0 /\ begun = FALSE
  BY DEF Init, Integrates
<1>4. /\ block.u = Zero /\ block.sigma = 0 /\ block.soon = FALSE
      /\ block.xl = band[1] /\ block.xu = band[2]
  BY <1>1 DEF SaturationInit
<1>5. block \in Saturations
  BY <1>1, <1>2, ZeroSignal, Members DEF SaturationInit, Saturations
<1>6. Unsent
  BY <1>3, <1>4 DEF Unsent
<1> QED
  BY <1>2, <1>3, <1>4, <1>5, <1>6, ZeroSignal DEF SaturationInv, In, At

(* The invariant says that the output is the input cut to the limits. *)
LEMMA SaturationCuts ==
  ASSUME TypeOK, SaturationInv
  PROVE  SaturationRight
<1> SUFFICES ASSUME kind = "qss_saturation", ~Due, ~astray
             PROVE  out.v = IF In < block.xl THEN block.xl
                            ELSE IF In > block.xu THEN block.xu ELSE In
  BY DEF SaturationRight, In
<1>1. /\ e \in Nat /\ block.sigma \in Nat /\ e < block.sigma /\ block.sw \in {-1, 0, 1}
      /\ block.xl \in Int /\ block.xu \in Int /\ block.xl < block.xu /\ In \in Int
  BY SaturationIs DEF Due
<1>2. block.sw # 0 => out.v = IF block.sw = -1 THEN block.xl ELSE block.xu
  BY <1>1 DEF SaturationInv, Unsent, Limit
<1>3. /\ block.sw = -1 => In <= block.xl
      /\ block.sw = 1 => In >= block.xu
      /\ block.sw = 0 => out.v = In /\ block.xl <= In /\ In <= block.xu
  <2>1. /\ block.sw = -1 => In <= block.xl \/ block.xl - In = block.sigma - e
        /\ block.sw = 1 => In >= block.xu \/ In - block.xu = block.sigma - e
        /\ block.sw = 0 => out.v = In /\ block.xl <= In /\ In <= block.xu
    BY <1>1 DEF SaturationInv
  <2> QED
    BY <2>1, <1>1
<1> QED
  BY <1>1, <1>2, <1>3

-----------------------------------------------------------------------------
(* The multiple of d below v. *)
LEMMA FloorIs ==
  ASSUME NEW v \in Int, NEW d \in Nat, d >= 1
  PROVE  d * (v \div d) <= v /\ v < d * (v \div d) + d /\ d * (v \div d) \in Int
<1>1. v \div d \in Int
  BY SMT
<1>2. d * (v \div d) <= v /\ v < d * (v \div d) + d
  BY <1>1
<1> QED
  BY <1>1, <1>2

(* The plan from q: an input outside the level's band is due at once; one  *)
(* that stands on the lower end and falls, a little later without          *)
(* hysteresis, at once with it.                                            *)
LEMMA PlanIs ==
  ASSUME NEW b \in Quantizers, b.eps \in {0, b.dQ}, NEW u \in Signals,
         u.tiny = 0 \/ (u.tiny = -1 /\ u.s = -1 /\ u.v = b.q + b.dQ)
  PROVE  LET c  == PlanLevel(b, u)
             lo == b.q - b.eps
             hi == b.q + b.dQ
         IN /\ c = [b EXCEPT !.u = u, !.sigma = c.sigma, !.soon = c.soon]
            /\ c.sigma \in Nat /\ (c.sigma = Inf \/ c.sigma <= 2 * MaxV) /\ c.soon \in BOOLEAN
            /\ c.soon => c.sigma = 0 /\ b.eps = 0 /\ u.v = b.q /\ u.s = -1
            /\ c.sigma > 0 => /\ lo <= u.v /\ u.v <= hi
                              /\ u.v = hi => u.tiny = -1
                              /\ u.s = 0 <=> c.sigma = Inf
                              /\ u.s = 1 => c.sigma = hi - u.v
                              /\ u.s = -1 => c.sigma = u.v - lo
            /\ lo < u.v /\ (u.v < hi \/ (u.v = hi /\ u.tiny = -1)) => c.sigma > 0
            /\ u.v = lo /\ u.v < hi => c.sigma > 0 \/ c.soon \/ b.eps # 0
<1> DEFINE lo == b.q - b.eps
           hi == b.q + b.dQ
           a  == Since(u, hi)
           d  == Since(u, lo)
           f  == IF b.eps = 0 /\ OnLevel(u, b.q) THEN [d EXCEPT !.tiny = 1] ELSE d
           wrong == ~Below(a) \/ u.v < lo
           next  == Sooner(minposroot(a), minposroot(f))
           sg == IF wrong THEN 0 ELSE next
           soon == ~wrong /\ next = 0 /\ b.eps = 0
           c  == PlanLevel(b, u)
<1>1. /\ b.q \in Int /\ b.dQ \in Nat /\ 1 <= b.dQ /\ b.dQ <= MaxV /\ b.eps \in {0, b.dQ}
      /\ lo \in Int /\ hi \in Int /\ lo < hi /\ hi - lo <= 2 * MaxV
  <2>1. b.q \in Int /\ b.dQ \in Quanta
    BY DEF Quantizers
  <2> QED
    BY <2>1, Bounds
<1>2. c = [b EXCEPT !.u = u, !.sigma = sg, !.soon = soon]
  BY DEF PlanLevel, WrongLevel, UpperCrossing, LowerCrossing
<1> HIDE DEF lo, hi
<1>3. /\ a \in Signals /\ a.v = u.v - hi /\ a.s = u.s /\ a.tiny = u.tiny
      /\ d \in Signals /\ d.v = u.v - lo /\ d.s = u.s /\ d.tiny = u.tiny
      /\ u.v \in Int /\ u.s \in {-1, 0, 1}
  BY <1>1, SinceIs
<1> HIDE DEF a, d
<1>4. OnLevel(u, b.q) /\ b.eps = 0 <=> u.v = lo /\ b.eps = 0
  BY <1>1, <1>3 DEF OnLevel, lo, hi
<1>5. /\ f \in Signals /\ f.v = u.v - lo /\ f.s = u.s
      /\ f.tiny = IF u.v = lo /\ b.eps = 0 THEN 1 ELSE u.tiny
  BY <1>3, <1>4 DEF Signals
<1> HIDE DEF f
<1>6. wrong <=> u.v > hi \/ (u.v = hi /\ u.tiny # -1) \/ u.v < lo
  <2>1. Below(a) <=> u.v - hi < 0 \/ (u.v - hi = 0 /\ u.tiny = -1)
    BY <1>3 DEF Below
  <2> QED
    BY <2>1, <1>1, <1>3
<1> HIDE DEF wrong
<1>7. ASSUME ~wrong
      PROVE  /\ lo <= u.v /\ u.v <= hi /\ (u.v = hi => u.tiny = -1)
             /\ u.s = 0 => next = Inf
             /\ u.s = 1 => next = hi - u.v \/ (u.v = lo /\ next = 0 /\ b.eps # 0)
             /\ u.s = -1 => next = u.v - lo
  <2>1. lo <= u.v /\ u.v <= hi /\ (u.v = hi => u.tiny = -1)
    BY <1>1, <1>3, <1>6, <1>7
  <2>2. CASE u.s = 0
    <3>1. minposroot(a) = Inf /\ minposroot(f) = Inf
      BY <2>2, <1>3, <1>5, RootOf
    <3> QED
      BY <3>1, <2>1, <2>2, Bounds DEF Sooner
  <2>3. CASE u.s = 1
    <3>1. u.v < hi /\ u.tiny = 0
      BY <2>1, <2>3, <1>1, <1>3, <1>7, <1>6
    <3>2. minposroot(a) = hi - u.v
      BY <3>1, <2>3, <1>1, <1>3, RootOf
    <3>3. u.v > lo \/ b.eps = 0 => minposroot(f) = Inf
      BY <3>1, <2>1, <2>3, <1>1, <1>3, <1>5, RootOf
    <3>4. u.v = lo /\ b.eps # 0 => minposroot(f) = 0
      BY <3>1, <2>3, <1>1, <1>3, <1>5, RootOf
    <3>5. hi - u.v <= 2 * MaxV /\ hi - u.v > 0
      BY <3>1, <2>1, <1>1, <1>3, Bounds
    <3> QED
      BY <3>2, <3>3, <3>4, <3>5, <2>1, <2>3, <1>1, <1>3, Bounds DEF Sooner
  <2>4. CASE u.s = -1
    <3>1. minposroot(a) = Inf
      BY <2>1, <2>4, <1>1, <1>3, RootOf
    <3>2. u.v > lo => minposroot(f) = u.v - lo
      BY <2>4, <1>1, <1>3, <1>5, RootOf
    <3>3. u.v = lo => minposroot(f) = 0
      <4>1. u.v = lo => u.tiny = 0
        BY <1>1, <1>3 DEF hi
      <4> QED
        BY <4>1, <2>4, <1>1, <1>3, <1>5, RootOf
    <3>4. u.v - lo <= 2 * MaxV
      BY <2>1, <1>1, <1>3, Bounds
    <3> QED
      BY <3>1, <3>2, <3>3, <3>4, <2>1, <2>4, <1>1, <1>3, Bounds DEF Sooner
  <2> QED
    BY <2>1, <2>2, <2>3, <2>4, <1>3
<1> HIDE DEF next
<1>8. /\ sg \in Nat /\ (sg = Inf \/ sg <= 2 * MaxV)
      /\ sg > 0 => /\ lo <= u.v /\ u.v <= hi
                   /\ u.v = hi => u.tiny = -1
                   /\ u.s = 0 <=> sg = Inf
                   /\ u.s = 1 => sg = hi - u.v
                   /\ u.s = -1 => sg = u.v - lo
      /\ lo < u.v /\ (u.v < hi \/ (u.v = hi /\ u.tiny = -1)) => sg > 0
      /\ u.v = lo /\ u.v < hi => sg > 0 \/ soon \/ b.eps # 0
      /\ soon => sg = 0 /\ b.eps = 0 /\ u.v = lo /\ u.s = -1
  <2>1. CASE wrong
    BY <2>1, <1>1, <1>3, <1>6, Bounds
  <2>2. CASE ~wrong
    <3>1. hi - u.v <= 2 * MaxV /\ u.v - lo <= 2 * MaxV
      BY <2>2, <1>1, <1>3, <1>7, Bounds
    <3>2. u.s = 1 => u.v < hi
      BY <2>2, <1>1, <1>3, <1>6
    <3>3. CASE u.s = 0
      BY <3>3, <2>2, <1>1, <1>3, <1>7, Bounds
    <3>4. CASE u.s = 1
      BY <3>1, <3>2, <3>4, <2>2, <1>1, <1>3, <1>7, Bounds
    <3>5. CASE u.s = -1
      BY <3>1, <3>5, <2>2, <1>1, <1>3, <1>7, Bounds
    <3> QED
      BY <3>3, <3>4, <3>5, <1>3
  <2> QED
    BY <2>1, <2>2
<1>9. b.eps = 0 => lo = b.q
  BY <1>1 DEF lo
<1>10. c.u = u /\ c.sigma = sg /\ (c.soon <=> soon) /\ c.soon \in BOOLEAN
  <2>1. soon \in BOOLEAN
    OBVIOUS
  <2> HIDE DEF soon, sg
  <2> QED
    BY <2>1, <1>2 DEF Quantizers
<1>11. c = [b EXCEPT !.u = u, !.sigma = c.sigma, !.soon = c.soon]
  <2> HIDE DEF soon, sg
  <2>1. c.sigma = sg /\ c.soon = soon
    BY <1>2 DEF Quantizers
  <2> QED
    BY <2>1, <1>2
<1> HIDE DEF sg, soon, c
<1> QED
  BY <1>8, <1>9, <1>10, <1>11 DEF c, lo, hi

(* Types of a quantizer. *)
LEMMA QuantizerIs ==
  ASSUME TypeOK, QuantizerInv, kind = "qss_quantizer"
  PROVE  /\ block \in Quantizers /\ block.u \in Signals /\ block.u.v \in Int
         /\ block.u.s \in {-1, 0, 1} /\ block.dQ \in Quanta /\ block.dQ \in Nat
         /\ 1 <= block.dQ /\ block.dQ <= MaxV /\ block.q \in Int
         /\ block.eps \in {0, block.dQ} /\ block.eps \in Nat
         /\ block.sigma \in Nat /\ block.soon \in BOOLEAN
         /\ e \in Nat /\ e <= 2 * MaxV /\ e <= block.sigma
         /\ truth[0] \in Signals /\ In \in Int /\ In \in V /\ truth[0].s \in {-1, 0, 1}
<1>1. block \in Quantizers /\ e <= block.sigma /\ block.eps \in {0, block.dQ}
  BY DEF QuantizerInv
<1>2. block.u \in Signals /\ block.dQ \in Quanta
  BY <1>1 DEF Quantizers
<1>3. truth[0] \in Signals /\ In \in V
  BY DEF TypeOK, In
<1> QED
  BY <1>1, <1>2, <1>3, Bounds DEF Quantizers, Signals, Slopes, TypeOK, In

(* An input of a quantizer: it is due at once outside the band of the last *)
(* level.                                                                  *)
LEMMA QuantizerComes ==
  ASSUME NEW v \in V, NEW s \in Slopes, TypeOK, QuantizerInv, kind = "qss_quantizer",
         LevelsHear(Signal(v, s))
  PROVE  QuantizerInv'
<1> DEFINE x == Signal(v, s)
           lo == block.q - block.eps
           hi == block.q + block.dQ
           c  == PlanLevel(block, x)
<1>1. x \in Signals /\ x.v = v /\ x.s = s /\ x.tiny = 0 /\ v \in Int /\ s \in {-1, 0, 1}
  BY ASignal, Bounds DEF Slopes
<1>2. /\ kind' = kind /\ e' = 0 /\ turns' = 0 /\ out' = out
      /\ truth' = [truth EXCEPT ![0] = x] /\ block' = c
  BY DEF LevelsHear, Hears, QuantizerDext
<1>3. truth'[0] = x /\ In' = v /\ At(x.v, x.s, 0) = v
  BY <1>1, <1>2 DEF TypeOK, In, At
<1> HIDE DEF x
<1>4. /\ block \in Quantizers /\ block.eps \in {0, block.dQ}
      /\ lo \in Int /\ hi \in Int
  BY QuantizerIs
<1>5. /\ c = [block EXCEPT !.u = x, !.sigma = c.sigma, !.soon = c.soon]
      /\ c.sigma \in Nat /\ (c.sigma = Inf \/ c.sigma <= 2 * MaxV) /\ c.soon \in BOOLEAN
      /\ c.soon => c.sigma = 0 /\ block.eps = 0 /\ x.v = block.q /\ x.s = -1
      /\ c.sigma > 0 => /\ lo <= x.v /\ x.v <= hi
                        /\ x.v = hi => x.tiny = -1
                        /\ x.s = 0 <=> c.sigma = Inf
                        /\ x.s = 1 => c.sigma = hi - x.v
                        /\ x.s = -1 => c.sigma = x.v - lo
  BY <1>1, <1>4, PlanIs
<1> HIDE DEF c
<1>6. /\ block' \in Quantizers /\ block'.u = x /\ block'.dQ = block.dQ
      /\ block'.eps = block.eps /\ block'.q = block.q
      /\ block'.sigma = c.sigma /\ block'.soon = c.soon
  BY <1>2, <1>1, <1>4, <1>5 DEF Quantizers
<1>7. ASSUME c.sigma > 0
      PROVE  /\ s = 0 <=> c.sigma = Inf
             /\ lo <= v /\ v <= hi /\ v # hi
             /\ s = 1 => c.sigma - 0 = hi - v
             /\ s = -1 => c.sigma - 0 = v - lo
  <2> HIDE DEF lo, hi
  <2>1. v # hi
    BY <1>1, <1>5, <1>7
  <2> QED
    BY <2>1, <1>1, <1>4, <1>5, <1>7
<1>8. out'.s = 0 /\ out'.v = block'.q
  BY <1>2, <1>6 DEF QuantizerInv
<1>9. 0 <= c.sigma
  BY <1>5
<1>10. block'.q - block'.eps = lo /\ block'.q + block'.dQ = hi
  BY <1>6
<1> HIDE DEF lo, hi
<1>11. /\ block'.sigma # Inf => In' = At(block'.u.v, block'.u.s, e') /\ block'.sigma <= 2 * MaxV
       /\ block'.u.tiny = 0
       /\ block'.soon => block'.sigma = 0 /\ block'.eps = 0 /\ block'.u.v = block'.q
                         /\ block'.u.s = -1
  BY <1>1, <1>2, <1>3, <1>5, <1>6
<1>12. block'.sigma > 0 =>
         /\ truth'[0].s = 0 <=> block'.sigma = Inf
         /\ lo <= In' /\ In' <= hi
         /\ truth'[0].s # 1 /\ In' = hi => truth'[0].s = -1 /\ block'.eps = 0
         /\ truth'[0].s = 1 => block'.sigma - e' = hi - In'
         /\ truth'[0].s = -1 => block'.sigma - e' = In' - lo
  BY <1>1, <1>2, <1>3, <1>6, <1>7
<1>13. /\ block'.u.s = truth'[0].s /\ e' <= block'.sigma /\ block'.eps \in {0, block'.dQ}
  BY <1>1, <1>2, <1>3, <1>4, <1>6, <1>9
<1>14. turns' = 0 /\ block' \in Quantizers
  BY <1>2, <1>6
<1>15. block'.sigma > 0 =>
         /\ truth'[0].s = 0 <=> block'.sigma = Inf
         /\ block'.q - block'.eps <= In' /\ In' <= block'.q + block'.dQ
         /\ truth'[0].s # 1 /\ In' = block'.q + block'.dQ => truth'[0].s = -1 /\ block'.eps = 0
         /\ truth'[0].s = 1 => block'.sigma - e' = block'.q + block'.dQ - In'
         /\ truth'[0].s = -1 => block'.sigma - e' = In' - (block'.q - block'.eps)
  <2>1. /\ block'.q \in Int /\ block'.dQ \in Int /\ block'.eps \in Int /\ In' \in Int
        /\ lo \in Int /\ hi \in Int
    BY <1>1, <1>3, <1>4, <1>6, QuantizerIs
  <2> QED
    BY <2>1, <1>10, <1>12
<1> QED
  BY <1>8, <1>11, <1>13, <1>14, <1>15 DEF QuantizerInv

(* The level it changes to, when it is due, is that of its input. *)
LEMMA ArrivedIs ==
  ASSUME TypeOK, QuantizerInv, kind = "qss_quantizer", Due
  PROVE  LET m == Arrived(block)
             n == NextLevel(block)
         IN /\ e = block.sigma /\ block.sigma # Inf
            /\ m \in Signals /\ m.v = In /\ m.s = truth[0].s /\ n \in Int
            /\ m.tiny = 0 \/ (m.tiny = -1 /\ m.s = -1 /\ m.v = n + block.dQ)
            /\ m.tiny # 0 => block.eps = 0
            /\ \/ n <= In /\ In < n + block.dQ
               \/ n - block.eps < In /\ In < n + block.dQ
               \/ In = n + block.dQ /\ m.tiny = -1
            /\ block.soon => In = n + block.dQ /\ m.tiny = -1
<1> DEFINE u == advance_time(block.u, block.sigma)
           m == Arrived(block)
           n == NextLevel(block)
           d == block.dQ
           near == Planned(block) /\ block.eps = 0 /\ u.s < 0
<1>1. /\ block.u \in Signals /\ block.sigma \in Nat /\ block.soon \in BOOLEAN
      /\ d \in Nat /\ 1 <= d /\ d <= MaxV /\ block.q \in Int
      /\ block.eps \in {0, d} /\ block.eps \in Nat
      /\ e \in Nat /\ e <= 2 * MaxV /\ In \in Int /\ truth[0].s \in {-1, 0, 1}
  BY QuantizerIs
<1>2. e = block.sigma /\ block.sigma # Inf
  <2>1. e <= block.sigma
    BY QuantizerIs
  <2> QED
    BY <2>1, <1>1, Bounds DEF Due
<1>3. /\ u \in Signals /\ u.s = truth[0].s /\ u.v = In
      /\ block.sigma = 0 => u.tiny = block.u.tiny
      /\ block.sigma > 0 /\ u.s # 0 => u.tiny = 0
  BY <1>1, <1>2, Advanced DEF QuantizerInv
<1>4. u.tiny = 0
  BY <1>1, <1>2, <1>3 DEF QuantizerInv
<1>5. m = IF near THEN [u EXCEPT !.tiny = -1] ELSE u
  BY DEF Arrived
<1> HIDE DEF u
<1>6. /\ m \in Signals /\ m.v = In /\ m.s = truth[0].s
      /\ m.tiny = IF near THEN -1 ELSE 0
  BY <1>3, <1>4, <1>5 DEF Signals
<1> HIDE DEF m
<1>7. n = IF ~Planned(block) THEN d * (block.u.v \div d)
          ELSE IF 2 * (In - block.q) > d THEN block.q + d ELSE block.q - d
  BY <1>6 DEF NextLevel, m
<1> HIDE DEF n
<1>8. CASE ~Planned(block)
  <2>1. ~near /\ ~block.soon /\ block.sigma = 0
    BY <1>8, <1>1 DEF Planned
  <2>2. block.u.v = In
    BY <1>1, <1>2, <2>1, QuantizerIs, Bounds DEF QuantizerInv, At
  <2>3. n \in Int /\ n <= In /\ In < n + d
    BY <2>2, <1>1, <1>7, <1>8, FloorIs
  <2> QED
    BY <2>1, <2>3, <1>1, <1>2, <1>6 DEF m, n
<1>9. CASE block.soon
  <2>1. block.sigma = 0 /\ block.eps = 0 /\ block.u.v = block.q /\ block.u.s = -1
    BY <1>9 DEF QuantizerInv
  <2>2. In = block.q /\ truth[0].s = -1
    BY <2>1, <1>1, <1>2, Bounds DEF QuantizerInv, At
  <2>3. near
    BY <2>1, <2>2, <1>9, <1>3 DEF Planned
  <2>4. n = block.q - d
    BY <2>2, <1>1, <1>7, <1>9 DEF Planned
  <2>5. n \in Int /\ In = n + d
    BY <2>2, <2>4, <1>1
  <2>6. m.tiny = -1 /\ m.s = -1
    BY <2>2, <2>3, <1>6
  <2> QED
    BY <2>5, <2>6, <1>2, <1>6 DEF m, n
<1>10. CASE block.sigma > 0 /\ ~block.soon
  <2>1. Planned(block) /\ truth[0].s # 0
    BY <1>10, <1>2 DEF Planned, QuantizerInv
  <2>2. CASE truth[0].s = 1
    <3>1. In = block.q + d
      BY <2>2, <1>1, <1>2, <1>10 DEF QuantizerInv
    <3>2. n = In
      BY <3>1, <2>1, <1>1, <1>7
    <3>3. ~near
      BY <2>2, <1>3
    <3>4. n \in Int /\ n <= In /\ In < n + d
      BY <3>1, <3>2, <1>1
    <3> QED
      BY <3>3, <3>4, <1>2, <1>6, <1>10 DEF m, n
  <2>3. CASE truth[0].s = -1
    <3>1. In = block.q - block.eps
      BY <2>3, <1>1, <1>2, <1>10 DEF QuantizerInv
    <3>2. n = block.q - d
      BY <3>1, <2>1, <1>1, <1>7
    <3>3. near <=> block.eps = 0
      BY <2>1, <2>3, <1>3
    <3>4. n \in Int /\ (block.eps = 0 => In = n + d) /\ (block.eps # 0 => In = n)
      BY <3>1, <3>2, <1>1
    <3>5. m.tiny = 0 \/ (m.tiny = -1 /\ m.s = -1 /\ m.v = n + d)
      BY <2>3, <3>3, <3>4, <1>6
    <3>6. (n <= In /\ In < n + d) \/ (In = n + d /\ m.tiny = -1)
      BY <3>3, <3>4, <1>1, <1>6
    <3> QED
      BY <3>4, <3>5, <3>6, <1>2, <1>6, <1>10 DEF m, n
  <2> QED
    BY <2>1, <2>2, <2>3, <1>1
<1> QED
  BY <1>1, <1>8, <1>9, <1>10 DEF Planned

(* The transition of a quantizer: the level its input has come to, and the *)
(* plan from there. A falling input on the level takes one transition      *)
(* more.                                                                   *)
LEMMA QuantizerSendsIt ==
  ASSUME TypeOK, QuantizerInv, kind = "qss_quantizer", LevelsSend
  PROVE  QuantizerInv' /\ out' \in Signals
<1> DEFINE m == Arrived(block)
           n == NextLevel(block)
           b == [block EXCEPT !.q = n]
           lo == n - block.eps
           hi == n + block.dQ
           c == PlanLevel(b, m)
<1>1. /\ Due /\ kind' = kind /\ e' = 0 /\ truth' = truth
      /\ out' = Signal(n, 0) /\ block' = c
      /\ turns' = IF turns < MaxTurns THEN turns + 1 ELSE turns
  BY DEF LevelsSend, Sends, QuantizerOutput, QuantizerDint
<1>2. /\ block \in Quantizers /\ block.dQ \in Nat /\ 1 <= block.dQ
      /\ block.eps \in {0, block.dQ} /\ block.eps \in Nat /\ block.sigma \in Nat
      /\ block.soon \in BOOLEAN /\ In \in Int /\ truth[0].s \in {-1, 0, 1}
  BY QuantizerIs
<1>3. /\ e = block.sigma /\ block.sigma # Inf
      /\ m \in Signals /\ m.v = In /\ m.s = truth[0].s /\ n \in Int
      /\ m.tiny = 0 \/ (m.tiny = -1 /\ m.s = -1 /\ m.v = n + block.dQ)
      /\ m.tiny # 0 => block.eps = 0
      /\ \/ n <= In /\ In < n + block.dQ
         \/ n - block.eps < In /\ In < n + block.dQ
         \/ In = n + block.dQ /\ m.tiny = -1
      /\ block.soon => In = n + block.dQ /\ m.tiny = -1
  BY <1>1, ArrivedIs
<1> HIDE DEF m, n
<1>4. b \in Quantizers /\ b.q = n /\ b.eps = block.eps /\ b.dQ = block.dQ
  BY <1>2, <1>3 DEF Quantizers
<1> HIDE DEF b
<1>5. b.q - b.eps = lo /\ b.q + b.dQ = hi /\ lo \in Int /\ hi \in Int /\ lo < hi
  BY <1>2, <1>3, <1>4
<1>6. /\ c = [b EXCEPT !.u = m, !.sigma = c.sigma, !.soon = c.soon]
      /\ c.sigma \in Nat /\ (c.sigma = Inf \/ c.sigma <= 2 * MaxV) /\ c.soon \in BOOLEAN
      /\ c.soon => c.sigma = 0 /\ block.eps = 0 /\ m.v = n /\ m.s = -1
      /\ c.sigma > 0 => /\ lo <= m.v /\ m.v <= hi
                        /\ m.v = hi => m.tiny = -1
                        /\ m.s = 0 <=> c.sigma = Inf
                        /\ m.s = 1 => c.sigma = hi - m.v
                        /\ m.s = -1 => c.sigma = m.v - lo
      /\ lo < m.v /\ (m.v < hi \/ (m.v = hi /\ m.tiny = -1)) => c.sigma > 0
      /\ m.v = lo /\ m.v < hi => c.sigma > 0 \/ c.soon \/ block.eps # 0
  <2>1. b.eps \in {0, b.dQ} /\ (m.tiny = 0 \/ (m.tiny = -1 /\ m.s = -1 /\ m.v = b.q + b.dQ))
    BY <1>2, <1>3, <1>4, <1>5
  <2> HIDE DEF c, lo, hi
  <2>2. /\ c = [b EXCEPT !.u = m, !.sigma = c.sigma, !.soon = c.soon]
        /\ c.sigma \in Nat /\ (c.sigma = Inf \/ c.sigma <= 2 * MaxV) /\ c.soon \in BOOLEAN
        /\ c.soon => c.sigma = 0 /\ b.eps = 0 /\ m.v = b.q /\ m.s = -1
        /\ c.sigma > 0 => /\ b.q - b.eps <= m.v /\ m.v <= b.q + b.dQ
                          /\ m.v = b.q + b.dQ => m.tiny = -1
                          /\ m.s = 0 <=> c.sigma = Inf
                          /\ m.s = 1 => c.sigma = (b.q + b.dQ) - m.v
                          /\ m.s = -1 => c.sigma = m.v - (b.q - b.eps)
        /\ b.q - b.eps < m.v /\ (m.v < b.q + b.dQ \/ (m.v = b.q + b.dQ /\ m.tiny = -1)) =>
             c.sigma > 0
        /\ m.v = b.q - b.eps /\ m.v < b.q + b.dQ => c.sigma > 0 \/ c.soon \/ b.eps # 0
    BY <1>3, <1>4, <2>1, PlanIs DEF c
  <2> QED
    BY <2>2, <1>4, <1>5
<1> HIDE DEF c
<1>7. /\ block' \in Quantizers /\ block'.u = m /\ block'.dQ = block.dQ
      /\ block'.eps = block.eps /\ block'.q = n
      /\ block'.sigma = c.sigma /\ block'.soon = c.soon
  BY <1>1, <1>3, <1>4, <1>6 DEF Quantizers
<1>8. out' \in Signals /\ out'.s = 0 /\ out'.v = block'.q
  <2>1. 0 \in Slopes
    BY DEF Slopes
  <2> QED
    BY <2>1, <1>1, <1>3, <1>7, ASignal
<1>9. In' = In /\ truth'[0] = truth[0] /\ At(m.v, m.s, 0) = In
  BY <1>1, <1>2, <1>3 DEF In, At
<1>10. m.tiny # 0 => c.sigma > 0
  BY <1>3, <1>5, <1>6
<1>11. c.sigma > 0 \/ c.soon
  <2>1. lo < In \/ (In = lo /\ block.eps = 0)
    BY <1>2, <1>3
  <2>2. In < hi \/ (In = hi /\ m.tiny = -1)
    BY <1>2, <1>3
  <2> HIDE DEF lo, hi
  <2> QED
    BY <2>1, <2>2, <1>3, <1>5, <1>6
<1>12. block.soon => c.sigma > 0
  BY <1>3, <1>10
<1>13. \/ turns' = 1 /\ (c.sigma > 0 \/ c.soon)
       \/ turns' = 2 /\ c.sigma > 0
  <2>1. turns = 0 \/ (turns = 1 /\ block.soon)
    BY <1>2, <1>3 DEF QuantizerInv
  <2> QED
    BY <2>1, <1>1, <1>11, <1>12 DEF MaxTurns
<1>14. /\ block'.sigma # Inf => In' = At(block'.u.v, block'.u.s, e') /\ block'.sigma <= 2 * MaxV
       /\ block'.u.tiny # 0 => block'.u.tiny = -1 /\ block'.u.s = -1 /\ block'.sigma # 0
       /\ block'.soon => block'.sigma = 0 /\ block'.eps = 0 /\ block'.u.v = block'.q
                         /\ block'.u.s = -1
  BY <1>1, <1>3, <1>6, <1>7, <1>9, <1>10
<1>15. block'.q - block'.eps = lo /\ block'.q + block'.dQ = hi
  BY <1>7
<1> HIDE DEF lo, hi
<1>16. block'.sigma > 0 =>
         /\ truth'[0].s = 0 <=> block'.sigma = Inf
         /\ lo <= In' /\ In' <= hi
         /\ truth'[0].s # 1 /\ In' = hi => truth'[0].s = -1 /\ block'.eps = 0
         /\ truth'[0].s = 1 => block'.sigma - e' = hi - In'
         /\ truth'[0].s = -1 => block'.sigma - e' = In' - lo
  BY <1>1, <1>3, <1>6, <1>7, <1>9
<1>17. block'.sigma > 0 =>
         /\ truth'[0].s = 0 <=> block'.sigma = Inf
         /\ block'.q - block'.eps <= In' /\ In' <= block'.q + block'.dQ
         /\ truth'[0].s # 1 /\ In' = block'.q + block'.dQ => truth'[0].s = -1 /\ block'.eps = 0
         /\ truth'[0].s = 1 => block'.sigma - e' = block'.q + block'.dQ - In'
         /\ truth'[0].s = -1 => block'.sigma - e' = In' - (block'.q - block'.eps)
  <2>1. block'.q \in Int /\ block'.dQ \in Int /\ block'.eps \in Int /\ In' \in Int
    BY <1>2, <1>3, <1>7, <1>9
  <2> QED
    BY <2>1, <1>5, <1>15, <1>16
<1>18. /\ block'.u.s = truth'[0].s /\ e' <= block'.sigma /\ block'.eps \in {0, block'.dQ}
  BY <1>1, <1>2, <1>3, <1>6, <1>7, <1>9
<1>19. /\ \/ turns' = 0
          \/ turns' \in {1, 2} /\ e' = 0 /\ block'.sigma > 0
          \/ turns' = 1 /\ block'.soon
  BY <1>1, <1>7, <1>13
<1> QED
  BY <1>7, <1>8, <1>14, <1>17, <1>18, <1>19 DEF QuantizerInv

(* Time moves the input within the band. *)
LEMMA QuantizerPasses ==
  ASSUME TypeOK, QuantizerInv, kind = "qss_quantizer", TimePasses
  PROVE  QuantizerInv'
<1> DEFINE lo == block.q - block.eps
           hi == block.q + block.dQ
<1>1. /\ block.u \in Signals /\ block.u.v \in Int /\ block.u.s \in {-1, 0, 1}
      /\ block.dQ \in Nat /\ 1 <= block.dQ /\ block.q \in Int /\ block.eps \in {0, block.dQ}
      /\ block.eps \in Nat /\ block.sigma \in Nat
      /\ e \in Nat /\ e <= 2 * MaxV /\ truth[0] \in Signals /\ In \in Int
      /\ truth[0].s \in {-1, 0, 1}
  BY QuantizerIs
<1>2. /\ e < block.sigma /\ kind' = kind /\ block' = block /\ out' = out /\ turns' = 0
      /\ truth'[0] = advance_time(truth[0], 1)
      /\ e' = IF e < 2 * MaxV THEN e + 1 ELSE e
  <2>1. out.s = 0
    BY DEF QuantizerInv
  <2> QED
    BY <2>1, <1>1 DEF TimePasses, Due, Later, advance_time, TypeOK
<1>3. block.u.s = truth[0].s
  BY DEF QuantizerInv
<1>4. truth[0].s # 0 => block.sigma <= 2 * MaxV /\ e' = e + 1
  <2>1. truth[0].s # 0 => block.sigma # Inf
    BY <1>1, <1>2 DEF QuantizerInv
  <2> QED
    BY <2>1, <1>1, <1>2, Bounds DEF QuantizerInv
<1>5. truth'[0].s = truth[0].s /\ In' = At(In, truth[0].s, 1)
  <2>1. /\ advance_time(truth[0], 1).s = truth[0].s
        /\ advance_time(truth[0], 1).v = At(truth[0].v, truth[0].s, 1)
    BY <1>1, Advanced
  <2> QED
    BY <2>1, <1>2 DEF In
<1>6. e' <= block.sigma /\ e' \in Nat
  BY <1>1, <1>2, Bounds
<1>7. block.sigma # Inf => In' = At(block.u.v, block.u.s, e')
  <2>1. block.sigma # Inf => In = At(block.u.v, block.u.s, e) /\ truth[0].s # 0
    BY <1>1, <1>2 DEF QuantizerInv
  <2> QED
    BY <2>1, <1>1, <1>3, <1>4, <1>5 DEF At
<1>8. /\ truth[0].s = 0 <=> block.sigma = Inf
      /\ lo <= In' /\ In' <= hi
      /\ truth[0].s # 1 /\ In' = hi => truth[0].s = -1 /\ block.eps = 0
      /\ truth[0].s = 1 => block.sigma - e' = hi - In'
      /\ truth[0].s = -1 => block.sigma - e' = In' - lo
  <2>1. /\ truth[0].s = 0 <=> block.sigma = Inf
        /\ lo <= In /\ In <= hi
        /\ truth[0].s # 1 /\ In = hi => truth[0].s = -1 /\ block.eps = 0
        /\ truth[0].s = 1 => block.sigma - e = hi - In
        /\ truth[0].s = -1 => block.sigma - e = In - lo
    BY <1>1, <1>2 DEF QuantizerInv
  <2>2. lo \in Int /\ hi \in Int
    BY <1>1
  <2> HIDE DEF lo, hi
  <2>3. CASE truth[0].s = 0
    BY <2>1, <2>2, <2>3, <1>1, <1>5 DEF At
  <2>4. CASE truth[0].s = 1
    BY <2>1, <2>2, <2>4, <1>1, <1>2, <1>4, <1>5 DEF At
  <2>5. CASE truth[0].s = -1
    BY <2>1, <2>2, <2>5, <1>1, <1>2, <1>4, <1>5 DEF At
  <2> QED
    BY <2>3, <2>4, <2>5, <1>1
<1>9. /\ truth'[0].s = 0 <=> block'.sigma = Inf
      /\ block'.q - block'.eps <= In' /\ In' <= block'.q + block'.dQ
      /\ truth'[0].s # 1 /\ In' = block'.q + block'.dQ => truth'[0].s = -1 /\ block'.eps = 0
      /\ truth'[0].s = 1 => block'.sigma - e' = block'.q + block'.dQ - In'
      /\ truth'[0].s = -1 => block'.sigma - e' = In' - (block'.q - block'.eps)
  <2>1. In' \in Int
    BY <1>1, <1>5 DEF At
  <2> QED
    BY <2>1, <1>1, <1>2, <1>5, <1>8
<1>10. /\ block'.sigma # Inf => In' = At(block'.u.v, block'.u.s, e')
       /\ block'.u.s = truth'[0].s /\ e' <= block'.sigma /\ turns' = 0
       /\ out'.s = 0 /\ out'.v = block'.q
  BY <1>2, <1>3, <1>5, <1>6, <1>7 DEF QuantizerInv
<1> QED
  BY <1>2, <1>9, <1>10 DEF QuantizerInv

(* A quantizer starts due at once. *)
LEMMA QuantizerStarts ==
  ASSUME Init
  PROVE  QuantizerInv
<1> SUFFICES ASSUME kind = "qss_quantizer"
             PROVE  QuantizerInv
  BY DEF QuantizerInv
<1>1. PICK d \in Quanta : block = QuantizerInit(d, 0) \/ block = QuantizerInit(d, d)
  BY DEF Init, BlockInit
<1>2. e = 0 /\ out = Zero /\ truth[0] = Zero /\ turns = 0
  BY DEF Init, Integrates
<1>3. /\ block.u = Zero /\ block.sigma = 0 /\ block.soon = FALSE /\ block.q = 0
      /\ block.dQ = d /\ block.eps \in {0, d}
  BY <1>1 DEF QuantizerInit
<1>4. d \in Quanta /\ d \in Nat
  BY Bounds
<1>5. block \in Quantizers
  <2>1. PICK eps \in Nat : block = QuantizerInit(d, eps)
    BY <1>1, <1>4
  <2> QED
    BY <2>1, <1>4, ZeroSignal DEF QuantizerInit, Quantizers
<1> QED
  BY <1>2, <1>3, <1>4, <1>5, ZeroSignal, Bounds DEF QuantizerInv, In, At

(* The invariant says that the output is the multiple below the input. *)
LEMMA QuantizerSelects ==
  ASSUME TypeOK, QuantizerInv
  PROVE  QuantizerRight
<1> SUFFICES ASSUME kind = "qss_quantizer", ~Due
             PROVE  /\ out.v - block.eps <= In
                    /\ \/ In < out.v + block.dQ
                       \/ In = out.v + block.dQ /\ truth[0].s < 0 /\ block.eps = 0
  BY DEF QuantizerRight, In
<1>1. /\ block.dQ \in Nat /\ block.q \in Int /\ block.eps \in Nat /\ block.sigma \in Nat
      /\ e \in Nat /\ In \in Int /\ truth[0].s \in {-1, 0, 1} /\ e < block.sigma
  BY QuantizerIs DEF Due
<1>2. /\ out.v = block.q
      /\ block.q - block.eps <= In /\ In <= block.q + block.dQ
      /\ truth[0].s # 1 /\ In = block.q + block.dQ => truth[0].s = -1 /\ block.eps = 0
      /\ truth[0].s = 1 => block.sigma - e = (block.q + block.dQ) - In
  BY <1>1 DEF QuantizerInv
<1> QED
  BY <1>1, <1>2

-----------------------------------------------------------------------------
(* A block stays what it is. *)
LEMMA KindKept ==
  ASSUME [Next]_vars
  PROVE  kind' = kind
<1>1. ASSUME NEW port \in 0 .. 2, NEW v \in V, NEW s \in Slopes, Input(port, Signal(v, s))
      PROVE  kind' = kind
  <2> DEFINE x == Signal(v, s)
  <2> HIDE DEF x
  <2>1. Input(port, x)
    BY <1>1 DEF x
  <2> QED
    BY <2>1 DEF Input, SwitchHears, IntegratorHears, CompareHears, HystereticHears,
                CrossHears, LevelsHear, OutputHears, Hears
<1>2. CASE Internal
  BY <1>2 DEF Internal, SwitchSends, IntegratorSends, HystereticSends, CrossSends,
              CompareSends, LevelsSend, Sends
<1>3. CASE TimePasses
  BY <1>3 DEF TimePasses
<1>4. CASE UNCHANGED vars
  BY <1>4 DEF vars
<1> QED
  BY <1>1, <1>2, <1>3, <1>4 DEF Next

(* Every step keeps the invariant of a filter. *)
LEMMA FilterStep ==
  ASSUME TypeOK, FilterInv, [Next]_vars
  PROVE  FilterInv'
<1>1. CASE kind = "qss_signal_filter" /\ Next
  <2>1. CASE \E v \in V, s \in Slopes : LevelsHear(Signal(v, s))
    BY <2>1, <1>1, FilterHears
  <2>2. CASE LevelsSend
    BY <2>2, <1>1, FilterSends
  <2>3. CASE TimePasses
    BY <2>3, <1>1, FilterPasses
  <2> QED
    BY <2>1, <2>2, <2>3, <1>1, FilterCases
<1>2. CASE ~(kind = "qss_signal_filter")
  BY <1>2, KindKept DEF FilterInv
<1>3. CASE UNCHANGED vars
  BY <1>3 DEF vars, FilterInv, OnlyOnce, Filters, Drift
<1> QED
  BY <1>1, <1>2, <1>3

(* Every step keeps the invariant of an integrator. *)
LEMMA IntegratorStep ==
  ASSUME TypeOK, IntegratorInv, [Next]_vars
  PROVE  IntegratorInv'
<1>1. CASE Integrates /\ Next
  <2>1. CASE \E port \in {0, 1}, v \in V, s \in Slopes : IntegratorHears(port, Signal(v, s))
    BY <2>1, <1>1, DerivativeComes, StateComes
  <2>2. CASE IntegratorSends
    BY <2>2, <1>1, IntegratorSendsIt
  <2>3. CASE TimePasses
    BY <2>3, <1>1, IntegratorPasses
  <2> QED
    BY <2>1, <2>2, <2>3, <1>1, IntegratorCases
<1>2. CASE ~(Integrates)
  BY <1>2, KindKept DEF IntegratorInv, Integrates
<1>3. CASE UNCHANGED vars
  BY <1>3 DEF vars, IntegratorInv, Integrates, OnlyOnce, Integrators, InPlan, LowestX, Now, Bounded
<1> QED
  BY <1>1, <1>2, <1>3

(* Every step keeps the invariant of a detector. *)
LEMMA DetectorStep ==
  ASSUME TypeOK, DetectorInv, [Next]_vars
  PROVE  DetectorInv'
<1>1. CASE Detects /\ Next
  <2>1. CASE \E v \in V, s \in Slopes :
               CrossHears(Signal(v, s)) \/ OutputHears(Signal(v, s))
    BY <2>1, <1>1, CrossComes, OutputComes
  <2>2. CASE CrossSends
    BY <2>2, <1>1, CrossSendsIt
  <2>3. CASE TimePasses
    BY <2>3, <1>1, DetectorPasses
  <2> QED
    BY <2>1, <2>2, <2>3, <1>1, DetectorCases
<1>2. CASE ~(Detects)
  BY <1>2, KindKept DEF DetectorInv, Detects
<1>3. CASE UNCHANGED vars
  BY <1>3 DEF vars, DetectorInv, Detects, Detectors, Unheard, Toward, Across, Away, SideNow, Gap
<1> QED
  BY <1>1, <1>2, <1>3

(* Every step keeps the invariant of a hysteresis. *)
LEMMA HystereticStep ==
  ASSUME TypeOK, HystereticInv, [Next]_vars
  PROVE  HystereticInv'
<1>1. CASE kind = "hysteretic" /\ Next
  <2>1. CASE \E v \in V, s \in Slopes : HystereticHears(Signal(v, s))
    BY <2>1, <1>1, HystereticComes
  <2>2. CASE HystereticSends
    BY <2>2, <1>1, HystereticSendsIt
  <2>3. CASE TimePasses
    BY <2>3, <1>1, HystereticPasses
  <2> QED
    BY <2>1, <2>2, <2>3, <1>1, HystereticCases
<1>2. CASE ~(kind = "hysteretic")
  BY <1>2, KindKept DEF HystereticInv
<1>3. CASE UNCHANGED vars
  BY <1>3 DEF vars, HystereticInv, TurnsOfHysteresis, First, Nears, Beyond, Leaves, Past, Turned
<1> QED
  BY <1>1, <1>2, <1>3

(* Every step keeps the invariant of a comparison. *)
LEMMA CompareStep ==
  ASSUME TypeOK, CompareInv, [Next]_vars
  PROVE  CompareInv'
<1>1. CASE kind = "compare" /\ Next
  <2>1. CASE \E port \in {0, 1}, v \in V, s \in Slopes : CompareHears(port, Signal(v, s))
    BY <2>1, <1>1, CompareComes
  <2>2. CASE CompareSends
    BY <2>2, <1>1, CompareSendsIt
  <2>3. CASE TimePasses
    BY <2>3, <1>1, ComparePasses
  <2> QED
    BY <2>1, <2>2, <2>3, <1>1, CompareCases
<1>2. CASE ~(kind = "compare")
  BY <1>2, KindKept DEF CompareInv
<1>3. CASE UNCHANGED vars
  BY <1>3 DEF vars, CompareInv, TurnsOfComparison, Opening, Closes, Wrong, Opens, Lead, LeadSlope, Shown
<1> QED
  BY <1>1, <1>2, <1>3

(* Every step keeps the invariant of a switch. *)
LEMMA SwitchStep ==
  ASSUME TypeOK, SwitchInv, [Next]_vars
  PROVE  SwitchInv'
<1>1. CASE kind = "qss_switch" /\ Next
  <2>1. CASE \E port \in 0 .. 2, v \in V, s \in Slopes : SwitchHears(port, Signal(v, s))
    <3>1. PICK port \in 0 .. 2, v \in V, s \in Slopes : SwitchHears(port, Signal(v, s))
      BY <2>1
    <3>2. port = 1 \/ port \in {0, 2}
      OBVIOUS
    <3> QED
      BY <3>1, <3>2, <1>1, ControlComes, DataComes
  <2>2. CASE SwitchSends
    BY <2>2, <1>1, SwitchSendsIt
  <2>3. CASE TimePasses
    BY <2>3, <1>1, SwitchPasses
  <2> QED
    BY <2>1, <2>2, <2>3, <1>1, SwitchCases
<1>2. CASE ~(kind = "qss_switch")
  BY <1>2, KindKept DEF SwitchInv
<1>3. CASE UNCHANGED vars
  BY <1>3 DEF vars, SwitchInv, OnlyOnce, Cycling, OffLevel, OnTheLevel, Crossing, Leaving,
              Control, RightSide
<1> QED
  BY <1>1, <1>2, <1>3

(* Every step keeps the invariant of a saturation. *)
LEMMA SaturationStep ==
  ASSUME TypeOK, SaturationInv, [Next]_vars
  PROVE  SaturationInv'
<1>1. CASE kind = "qss_saturation" /\ Next
  <2>1. CASE \E v \in V, s \in Slopes : LevelsHear(Signal(v, s))
    BY <2>1, <1>1, SaturationComes
  <2>2. CASE LevelsSend
    BY <2>2, <1>1, SaturationSendsIt
  <2>3. CASE TimePasses
    BY <2>3, <1>1, SaturationPasses
  <2> QED
    BY <2>1, <2>2, <2>3, <1>1, LevelsCases
<1>2. CASE ~(kind = "qss_saturation")
  BY <1>2, KindKept DEF SaturationInv
<1>3. CASE UNCHANGED vars
  BY <1>3 DEF vars, SaturationInv, SaturationRank, Inward, Limit, In, Unsent
<1> QED
  BY <1>1, <1>2, <1>3

(* Every step keeps the invariant of a quantizer. *)
LEMMA QuantizerStep ==
  ASSUME TypeOK, QuantizerInv, [Next]_vars
  PROVE  QuantizerInv'
<1>1. CASE kind = "qss_quantizer" /\ Next
  <2>1. CASE \E v \in V, s \in Slopes : LevelsHear(Signal(v, s))
    BY <2>1, <1>1, QuantizerComes
  <2>2. CASE LevelsSend
    BY <2>2, <1>1, QuantizerSendsIt
  <2>3. CASE TimePasses
    BY <2>3, <1>1, QuantizerPasses
  <2> QED
    BY <2>1, <2>2, <2>3, <1>1, LevelsCases
<1>2. CASE ~(kind = "qss_quantizer")
  BY <1>2, KindKept DEF QuantizerInv
<1>3. CASE UNCHANGED vars
  BY <1>3 DEF vars, QuantizerInv, In
<1> QED
  BY <1>1, <1>2, <1>3

-----------------------------------------------------------------------------
(* The signals keep their types: what comes is a signal in V, what is sent *)
(* is one by the invariants of the blocks.                                 *)
LEMMA HearsKeepsTypes ==
  ASSUME NEW b, NEW i \in 0 .. 2, NEW y \in Signals, y.v \in V, TypeOK, Hears(b, i, y),
         heard' \in BOOLEAN, astray' \in BOOLEAN
  PROVE  TypeOK'
<1>1. e' = 0 /\ truth' = [truth EXCEPT ![i] = y] /\ begun' = begun /\ out' = out
  BY DEF Hears
<1>2. truth' \in [0 .. 2 -> Signals] /\ \A j \in 0 .. 2 : truth'[j].v \in V
  BY <1>1 DEF TypeOK
<1>3. e' \in 0 .. 2 * MaxV
  BY <1>1, Bounds
<1> QED
  BY <1>1, <1>2, <1>3 DEF TypeOK

(* Every input keeps the types. *)
LEMMA InputTypes ==
  ASSUME NEW port \in 0 .. 2, NEW v \in V, NEW s \in Slopes, TypeOK, IntegratorInv,
         Input(port, Signal(v, s))
  PROVE  TypeOK'
<1> DEFINE x == Signal(v, s)
<1>1. x \in Signals /\ x.v = v /\ x.s = s /\ x.v \in V /\ x.v \in Int
  BY ASignal, Bounds
<1> HIDE DEF x
<1>2. heard \in BOOLEAN /\ astray \in BOOLEAN
  BY DEF TypeOK
<1>3. CASE SwitchHears(port, x)
  <2>1. heard' \in BOOLEAN /\ astray' \in BOOLEAN
    BY <1>2, <1>3 DEF SwitchHears
  <2> QED
    BY <2>1, <1>1, <1>3, HearsKeepsTypes DEF SwitchHears
<1>4. CASE IntegratorHears(port, x)
  <2> DEFINE y == IF port = 0 THEN [truth[1] EXCEPT !.s = x.v] ELSE [truth[1] EXCEPT !.v = x.v]
  <2>1. Integrates /\ (port = 0 => x.v \in Slopes) /\ Hears(IntegratorDext(block, port, x, e), 1, y)
        /\ astray' = (IF port = 1 THEN block.atBound ELSE astray /\ block'.X # truth'[1])
        /\ heard' = heard
    BY <1>4 DEF IntegratorHears
  <2>2. truth[1] \in Signals /\ truth[1].v \in V
    BY DEF TypeOK
  <2>3. y \in Signals /\ y.v \in V
    BY <2>1, <2>2, <1>1 DEF Signals
  <2>4. block.atBound \in BOOLEAN
    BY <2>1 DEF IntegratorInv, Integrators
  <2>5. heard' \in BOOLEAN /\ astray' \in BOOLEAN
    BY <2>1, <2>4, <1>2
  <2> HIDE DEF y
  <2> QED
    BY <2>1, <2>3, <2>5, HearsKeepsTypes
<1>5. CASE CompareHears(port, x)
  BY <1>1, <1>2, <1>5, HearsKeepsTypes DEF CompareHears
<1>6. CASE port = 0 /\ HystereticHears(x)
  BY <1>1, <1>2, <1>6, HearsKeepsTypes DEF HystereticHears
<1>7. CASE port = 0 /\ CrossHears(x)
  <2>1. heard' \in BOOLEAN /\ astray' \in BOOLEAN
    BY <1>2, <1>7 DEF CrossHears
  <2> QED
    BY <2>1, <1>1, <1>7, HearsKeepsTypes DEF CrossHears
<1>8. CASE port = 0 /\ LevelsHear(x)
  <2>1. heard' \in BOOLEAN /\ astray' \in BOOLEAN
    BY <1>2, <1>8 DEF LevelsHear
  <2>2. PICK b \in {SaturationDext(block, x), QuantizerDext(block, x), FilterDext(block, x, e)} :
          Hears(b, 0, x)
    BY <1>8 DEF LevelsHear
  <2> QED
    BY <2>1, <2>2, <1>1, HearsKeepsTypes
<1>9. CASE port = 1 /\ OutputHears(x)
  BY <1>1, <1>2, <1>9, HearsKeepsTypes DEF OutputHears
<1>10. Input(port, x)
  BY DEF x
<1> QED
  BY <1>3, <1>4, <1>5, <1>6, <1>7, <1>8, <1>9, <1>10 DEF Input

(* So does the passing of time, which keeps the signals in V. *)
LEMMA PassingTypes ==
  ASSUME TypeOK, TimePasses
  PROVE  TypeOK'
<1>1. /\ truth' = [i \in 0 .. 2 |-> Later(truth[i])]
      /\ \A i \in 0 .. 2 : truth'[i].v \in V
      /\ out' = advance_time(out, 1)
      /\ e' = IF e < 2 * MaxV THEN e + 1 ELSE e
      /\ begun' = TRUE /\ heard' = heard /\ astray' = astray
  BY Bounds DEF TimePasses
<1>2. ASSUME NEW x \in Signals
      PROVE  advance_time(x, 1) \in Signals
  BY Advanced
<1>3. \A i \in 0 .. 2 : Later(truth[i]) \in Signals
  BY <1>2 DEF Later, TypeOK
<1>4. out' \in Signals /\ truth' \in [0 .. 2 -> Signals]
  BY <1>1, <1>2, <1>3 DEF TypeOK
<1>5. e' \in 0 .. 2 * MaxV
  BY <1>1, Bounds DEF TypeOK
<1> QED
  BY <1>1, <1>4, <1>5 DEF TypeOK

-----------------------------------------------------------------------------
(* All the blocks' invariants: kind never changes, so that one of them     *)
(* says something, and the others hold of no state.                        *)
BlocksInv ==
  /\ kind \in Kinds /\ TypeOK
  /\ FilterInv /\ IntegratorInv /\ DetectorInv /\ HystereticInv /\ CompareInv
  /\ SwitchInv /\ SaturationInv /\ QuantizerInv

(* And so does every transition. *)
LEMMA InternalTypes ==
  ASSUME BlocksInv, Internal
  PROVE  TypeOK'
<1>1. /\ e' = 0 /\ truth' = truth /\ begun' = begun /\ heard' = heard
  BY DEF Internal, SwitchSends, IntegratorSends, HystereticSends, CrossSends, CompareSends,
         LevelsSend, Sends
<1>2. astray' \in BOOLEAN
  BY DEF Internal, SwitchSends, IntegratorSends, HystereticSends, CrossSends, CompareSends,
         LevelsSend, BlocksInv, TypeOK
<1>3. out' \in Signals
  <2>1. CASE SwitchSends
    BY <2>1, SwitchSendsIt DEF SwitchSends, BlocksInv
  <2>2. CASE IntegratorSends
    BY <2>2, IntegratorSendsIt DEF IntegratorSends, BlocksInv
  <2>3. CASE HystereticSends
    BY <2>3, HystereticSendsIt DEF HystereticSends, BlocksInv
  <2>4. CASE CrossSends
    BY <2>4, CrossSendsIt DEF CrossSends, BlocksInv
  <2>5. CASE CompareSends
    BY <2>5, CompareSendsIt DEF CompareSends, BlocksInv
  <2>6. CASE LevelsSend
    <3>1. kind \in {"qss_saturation", "qss_quantizer", "qss_signal_filter"}
      BY <2>6 DEF LevelsSend
    <3> QED
      BY <3>1, <2>6, SaturationSendsIt, QuantizerSendsIt, FilterSends DEF BlocksInv
  <2> QED
    BY <2>1, <2>2, <2>3, <2>4, <2>5, <2>6 DEF Internal
<1>4. e' \in 0 .. 2 * MaxV
  BY <1>1, Bounds
<1> QED
  BY <1>1, <1>2, <1>3, <1>4 DEF BlocksInv, TypeOK

(* The initial states have them. *)
LEMMA StartTypes ==
  ASSUME Init
  PROVE  TypeOK
<1>1. /\ e = 0 /\ begun = FALSE /\ out = Zero /\ heard = FALSE /\ astray = FALSE
      /\ truth = [i \in 0 .. 2 |-> IF Integrates /\ i = 1 THEN block.X ELSE Zero]
  BY DEF Init
<1>2. Integrates => block.X \in Signals /\ block.X.v \in V
  <2> SUFFICES ASSUME Integrates
               PROVE  block.X \in Signals /\ block.X.v \in V
    OBVIOUS
  <2>1. PICK dQ \in Quanta, x \in V, b \in BOOLEAN : block = IntegratorInit(dQ, x, b)
    BY IntegratorBegins
  <2>2. block.X = Signal(x, 0) /\ 0 \in Slopes /\ x \in Int
    BY <2>1, Bounds DEF IntegratorInit, Slopes
  <2> QED
    BY <2>2, ASignal
<1>3. \A i \in 0 .. 2 : truth[i] \in Signals /\ truth[i].v \in V
  BY <1>1, <1>2, ZeroSignal, Members
<1>4. e \in 0 .. 2 * MaxV
  BY <1>1, Bounds
<1> QED
  BY <1>1, <1>3, <1>4, ZeroSignal DEF TypeOK

(* The invariant of every block holds, for every quantum, level, band and  *)
(* bound of the signals: whatever inputs come, at whatever instants, what  *)
(* a block has planned is what its input and its output will do.           *)
THEOREM BlocksInvariant == Spec => []BlocksInv
<1>1. Init => BlocksInv
  <2> SUFFICES ASSUME Init
               PROVE  BlocksInv
    OBVIOUS
  <2>1. kind \in Kinds
    BY DEF Init
  <2> QED
    BY <2>1, StartTypes, FilterStarts, IntegratorStarts, DetectorStarts, HystereticStarts,
       CompareStarts, SwitchStarts, SaturationStarts, QuantizerStarts DEF BlocksInv
<1>2. BlocksInv /\ [Next]_vars => BlocksInv'
  <2> SUFFICES ASSUME BlocksInv, [Next]_vars
               PROVE  BlocksInv'
    OBVIOUS
  <2>1. TypeOK'
    <3>1. CASE Next
      <4>1. CASE \E port \in 0 .. 2, v \in V, s \in Slopes : Input(port, Signal(v, s))
        BY <4>1, InputTypes DEF BlocksInv
      <4>2. CASE Internal
        BY <4>2, InternalTypes
      <4>3. CASE TimePasses
        BY <4>3, PassingTypes DEF BlocksInv
      <4> QED
        BY <3>1, <4>1, <4>2, <4>3 DEF Next
    <3>2. CASE UNCHANGED vars
      BY <3>2 DEF vars, BlocksInv, TypeOK
    <3> QED
      BY <3>1, <3>2
  <2>2. (kind \in Kinds)'
    BY KindKept DEF BlocksInv
  <2>3. /\ FilterInv' /\ IntegratorInv' /\ DetectorInv' /\ HystereticInv'
        /\ CompareInv' /\ SwitchInv' /\ SaturationInv' /\ QuantizerInv'
    BY FilterStep, IntegratorStep, DetectorStep, HystereticStep, CompareStep, SwitchStep,
       SaturationStep, QuantizerStep DEF BlocksInv
  <2> QED
    BY <2>1, <2>2, <2>3 DEF BlocksInv
<1> QED
  BY <1>1, <1>2, PTL DEF Spec

-----------------------------------------------------------------------------
(* The plan keeps an integrator's state within a quantum of its output. *)
LEMMA IntegratorClose ==
  ASSUME TypeOK, IntegratorInv, Integrates, ~Due, ~astray
  PROVE  Distance(truth[1].v, out.v) <= block.dQ
<1> DEFINE x == block.X.v
           q == block.q
           d == block.dQ
           n == Now
<1>1. /\ e \in Nat /\ block.sigma \in Nat /\ e < block.sigma
      /\ x \in Int /\ block.X.s \in {-1, 0, 1} /\ q \in Int /\ d \in Nat /\ d >= 1
  <2>1. block \in Integrators /\ block.X \in Signals /\ block.dQ \in Quanta /\ e \in Nat
    BY DEF IntegratorInv, Integrators, TypeOK
  <2> QED
    BY <2>1, Bounds DEF Integrators, Signals, Slopes, Due
<1>2. out.v = q /\ truth[1].v = Bounded(n)
  BY <1>1 DEF IntegratorInv
<1>3. n \in Int /\ n = (IF block.X.s = 0 THEN x ELSE IF block.X.s = 1 THEN x + e ELSE x - e)
  BY <1>1 DEF Now, At
<1> HIDE DEF n
<1>4. /\ block.X.s = 0 => Distance(x, q) <= d
      /\ block.X.s = 1 => block.sigma <= (q + d) - x /\ q - d <= x
      /\ block.X.s = -1 => block.sigma <= (x - q) + d /\ x <= q + d
      /\ block.bounded => -d <= q
  BY <1>1 DEF IntegratorInv, InPlan, LowestX
<1>5. q - d <= n /\ n <= q + d
  <2> HIDE DEF x, q, d
  <2>1. CASE block.X.s = 0
    BY <2>1, <1>1, <1>3, <1>4 DEF Distance
  <2>2. CASE block.X.s # 0
    BY <2>2, <1>1, <1>3, <1>4
  <2> QED
    BY <2>1, <2>2
<1>6. Bounded(n) \in {0, n} /\ (Bounded(n) # n => block.bounded /\ n < 0)
  BY DEF Bounded
<1>7. truth[1].v \in Int /\ q - d <= truth[1].v /\ truth[1].v <= q + d
  BY <1>1, <1>2, <1>3, <1>4, <1>5, <1>6
<1> HIDE DEF q, d
<1> QED
  BY <1>1, <1>2, <1>7 DEF Distance, q, d

(* The plan keeps a filter's input within tol of its output. *)
LEMMA FilterClose ==
  ASSUME TypeOK, FilterInv, kind = "qss_signal_filter", ~Due
  PROVE  Distance(truth[0].v, out.v) <= block.tol
<1> DEFINE tol == block.tol
           d == Drift
<1>1. /\ block \in Filters /\ e \in Nat /\ block.sigma \in Nat /\ e < block.sigma
      /\ block.u \in Signals /\ block.y \in Signals /\ tol \in Nat
  <2>1. block \in Filters /\ block.tol \in Quanta
    BY DEF FilterInv, Filters
  <2> QED
    BY <2>1, Bounds DEF Filters, TypeOK, Due
<1>2. /\ block.u.v \in Int /\ block.u.s \in {-1, 0, 1}
      /\ block.y.v \in Int /\ block.y.s \in {-1, 0, 1}
  BY <1>1 DEF Signals, Slopes
<1>3. /\ truth[0].v = At(block.u.v, block.u.s, e) /\ out.v = At(block.y.v, block.y.s, e)
      /\ d \in -tol .. tol
      /\ \/ block.u.s = block.y.s
         \/ block.u.s = block.y.s + 1 /\ block.sigma = tol - d
         \/ block.u.s = block.y.s - 1 /\ block.sigma = tol + d
  BY <1>1 DEF FilterInv
<1>4. d = block.u.v - block.y.v
  BY DEF Drift
<1> HIDE DEF tol, d
<1>5. /\ truth[0].v \in Int /\ out.v \in Int
      /\ truth[0].v - out.v \in -tol .. tol
  BY <1>1, <1>2, <1>3, <1>4 DEF At
<1> QED
  BY <1>1, <1>5 DEF Distance, tol

(* The invariant says that the side of the input is known. *)
LEMMA SideIsKnown ==
  ASSUME TypeOK, DetectorInv
  PROVE  SideKnown
<1> SUFFICES ASSUME Detects, ~Due, heard, ~astray
             PROVE  (Gap > 0 => block.sw = 1) /\ (Gap < 0 => block.sw = -1)
  <2>1. Detects => truth[0].v \in Int /\ block.level \in Int
    BY Bounds DEF DetectorInv, Detectors, TypeOK
  <2> QED
    BY <2>1 DEF SideKnown, AtRest, Gap
<1>1. /\ e \in Nat /\ block.sigma \in Nat /\ e < block.sigma
      /\ block.sw \in {-1, 1} /\ Gap \in Int
  <2>1. block \in Detectors /\ e \in Nat /\ truth[0].v \in Int /\ block.sw # 0
    BY Bounds DEF DetectorInv, TypeOK
  <2> QED
    BY <2>1, Bounds DEF Detectors, Due, Gap
<1>2. SideNow(Gap) >= 0
  BY <1>1 DEF DetectorInv, Toward, Across, Away, SideNow
<1> QED
  BY <1>1, <1>2 DEF SideNow

(* Every block's invariant bounds the transitions of one instant. *)
LEMMA AllSettle ==
  ASSUME BlocksInv
  PROVE  turns < MaxTurns \/ Cycling
<1> SUFFICES turns < 4 \/ Cycling
  BY DEF MaxTurns
<1>1. kind \in {"qss_switch", "qss", "qss_bounded", "hysteretic",
                "cross_detect", "cross_detect_withDynamicOutput", "compare",
                "qss_saturation", "qss_quantizer", "qss_signal_filter"}
  BY QuantizedAssumption DEF BlocksInv
<1>2. OnlyOnce => turns < 4
  BY DEF OnlyOnce
<1>3. CASE kind = "qss_switch" \/ kind = "hysteretic" \/ kind = "compare"
  BY <1>2, <1>3 DEF BlocksInv, SwitchInv, HystereticInv, CompareInv, TurnsOfHysteresis,
                    TurnsOfComparison
<1>4. CASE Integrates \/ kind = "qss_signal_filter"
  BY <1>2, <1>4 DEF BlocksInv, IntegratorInv, FilterInv
<1>5. CASE Detects
  BY <1>5 DEF BlocksInv, DetectorInv
<1>6. CASE kind = "qss_saturation"
  BY <1>6 DEF BlocksInv, SaturationInv
<1>7. CASE kind = "qss_quantizer"
  BY <1>7 DEF BlocksInv, QuantizerInv
<1> QED
  BY <1>1, <1>3, <1>4, <1>5, <1>6, <1>7 DEF Integrates, Detects

(* A switch that cycles is due, and neither its own transition nor a data  *)
(* input plans a later one.                                                *)
LEMMA CyclingStays ==
  ASSUME BlocksInv, [Next]_vars, Cycling
  PROVE  Cycling' \/ \E v \in V, s \in Slopes : SwitchHears(1, Signal(v, s))
<1>1. CASE UNCHANGED vars
  BY <1>1 DEF vars, Cycling
<1>2. CASE Next
  <2>1. /\ kind = "qss_switch" /\ block.change /\ block.sigma = 0 /\ block.tcross = 0
        /\ block \in Switches /\ e = 0
    BY SwitchIs DEF Cycling, BlocksInv
  <2>2. ASSUME NEW port \in {0, 2}, NEW v \in V, NEW s \in Slopes,
               SwitchHears(port, Signal(v, s))
        PROVE  Cycling'
    <3> DEFINE x == Signal(v, s)
               u == Heard(block, port, x, e)
    <3>1. block' = DataHeard(block, port, x, e) /\ kind' = kind
      BY <2>2 DEF SwitchHears, Hears, SwitchDext
    <3>2. Less(block.tcross, e) = 0 /\ ~(block.sw = port /\ e < block.sigma) /\ e >= block.sigma
      BY <2>1, Bounds DEF Less
    <3>3. block' = [block EXCEPT !.u = u, !.tcross = 0, !.change = TRUE, !.sigma = 0]
      BY <3>1, <3>2 DEF DataHeard
    <3> HIDE DEF u
    <3> QED
      BY <3>1, <3>3, <2>1 DEF Cycling, Switches
  <2>3. CASE SwitchSends
    <3> DEFINE b == SwitchLambda(block)
               c == AtCrossing(block)
               w == Side(block)
    <3>1. block' = SwitchDint(b) /\ kind' = kind
      BY <2>3 DEF SwitchSends, Sends
    <3>2. b = [block EXCEPT !.u = c, !.sw = w]
      BY DEF SwitchLambda
    <3> HIDE DEF b, c, w
    <3>3. b.change /\ b.sigma = 0 /\ b.tcross = 0
      BY <3>2, <2>1 DEF Switches
    <3>4. block' = [b EXCEPT !.sigma = b.tcross, !.sw = 2 - b.sw]
      BY <3>1, <3>3 DEF SwitchDint
    <3> QED
      BY <3>1, <3>2, <3>3, <3>4, <2>1 DEF Cycling, Switches
  <2>4. ~TimePasses
    BY <2>1 DEF TimePasses, Due
  <2>5. CASE \E port \in 0 .. 2, v \in V, s \in Slopes : SwitchHears(port, Signal(v, s))
    <3>1. PICK port \in 0 .. 2, v \in V, s \in Slopes : SwitchHears(port, Signal(v, s))
      BY <2>5
    <3>2. port = 1 \/ port \in {0, 2}
      OBVIOUS
    <3> QED
      BY <3>1, <3>2, <2>2
  <2> QED
    BY <1>2, <2>1, <2>3, <2>4, <2>5, SwitchCases
<1> QED
  BY <1>1, <1>2

-----------------------------------------------------------------------------
(* The last output of qss and qss_signal_filter is within a quantum of the *)
(* integral of the derivatives, of the input, at every instant between     *)
(* transitions: the plans that dext and dint make are never too late.  The *)
(* same of qss_bounded until it loses a derivative, which it may do with   *)
(* every one that would raise it, once it has gone below its bound, and    *)
(* with one that comes when it is due there (IntegratorSends).             *)
THEOREM OutputWithinQuantum == Spec => []WithinQuantum
<1>1. BlocksInv => WithinQuantum
  BY IntegratorClose, FilterClose DEF BlocksInv, WithinQuantum
<1> QED
  BY <1>1, BlocksInvariant, PTL

(* A cross detector at rest knows the side its input is on: no crossing is *)
(* missed, none is seen twice, though the transition that reports it looks *)
(* at the input on the level.                                              *)
THEOREM SideAlwaysKnown == Spec => []SideKnown
<1>1. BlocksInv => SideKnown
  BY SideIsKnown DEF BlocksInv
<1> QED
  BY <1>1, BlocksInvariant, PTL

(* The output of hysteretic is the right one outside the band and never    *)
(* changes inside it, though the block watches one level at a time.        *)
THEOREM HysteresisAlwaysRight == Spec => HysteresisRight
<1>1. BlocksInv => OutsideBand
  BY HystereticOutside DEF BlocksInv
<1>2. BlocksInv /\ [Next]_vars => [InsideBand]_vars
  <2> SUFFICES ASSUME BlocksInv, Next, kind = "hysteretic"
               PROVE  InsideBand
    BY DEF InsideBand
  <2>1. CASE \E v \in V, s \in Slopes : HystereticHears(Signal(v, s))
    BY <2>1 DEF HystereticHears, Hears, InsideBand
  <2>2. CASE HystereticSends
    BY <2>2, HystereticSendsIt DEF BlocksInv
  <2>3. CASE TimePasses
    BY <2>3, HystereticPasses DEF BlocksInv, InsideBand
  <2> QED
    BY <2>1, <2>2, <2>3, HystereticCases
<1> QED
  BY <1>1, <1>2, BlocksInvariant, PTL DEF Spec, HysteresisRight

(* The output of compare tells which input is the larger one, unless the   *)
(* inputs have crossed as they move or an input of time 0 was undone.      *)
THEOREM ComparesAlwaysUnlessAstray == Spec => []ComparesUnlessAstray
<1>1. BlocksInv => ComparesUnlessAstray
  BY CompareTells DEF BlocksInv
<1> QED
  BY <1>1, BlocksInvariant, PTL

(* Between their transitions qss_switch sends the input that its control   *)
(* selects, whatever the inputs, unless one came when it was due with its  *)
(* control on the level, and no control since; qss_saturation sends its    *)
(* input cut to the limits, unless an input of time 0 came before its      *)
(* first output; qss_quantizer sends the multiple of the quantum below its *)
(* input.                                                                  *)
THEOREM OutputIsSelected == Spec => []Selects
<1>1. BlocksInv => Selects
  BY SwitchSelects, SaturationCuts, QuantizerSelects DEF BlocksInv, Selects
<1> QED
  BY <1>1, BlocksInvariant, PTL

(* Whatever comes, no block but the switch goes on with transitions at one *)
(* instant: three at most follow an input, and then time passes.  Nor does *)
(* the switch, but after a data input at the instant of the crossing it    *)
(* plans: then it goes on for ever, unless a control comes at that         *)
(* instant.                                                                *)
THEOREM BlocksSettle == Spec => Settles
<1>1. BlocksInv => turns < MaxTurns \/ Cycling
  BY AllSettle
<1>2. BlocksInv /\ [Next]_vars =>
        [Cycling => Cycling' \/ \E v \in V, s \in Slopes : SwitchHears(1, Signal(v, s))]_vars
  BY CyclingStays
<1> QED
  BY <1>1, <1>2, BlocksInvariant, PTL DEF Spec, Settles

=============================================================================
