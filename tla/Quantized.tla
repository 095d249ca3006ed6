----------------------------- MODULE Quantized ------------------------------
(***************************************************************************)
(* A quantized block under the engine: values with a slope reach it at any *)
(* instant, also at the very instant it is due, before or after it, and    *)
(* several at once; when it is due it sends its output (lambda) and makes  *)
(* its internal transition (dint).  Beside it runs what it approximates:   *)
(* truth, the inputs as functions of time, or for an integrator the        *)
(* integral of its derivative.                                             *)
(***************************************************************************)
EXTENDS QssSwitch, QssIntegrator, QssDetectors, QssLevels

CONSTANTS
  Kinds,    \* the blocks, by the names of their files
  MaxV,     \* bound: signals and states stay in -MaxV .. MaxV,
  MaxData,  \* and what a switch chooses from in -MaxData .. MaxData
  Levels,   \* switching levels
  Bands,    \* lower and higher level of a hysteresis or saturation
  Quanta    \* dQmin

V == -MaxV .. MaxV
Data == -MaxData .. MaxData

ASSUME QuantizedAssumption ==
  /\ Kinds \subseteq {"qss_switch", "qss", "qss_bounded", "hysteretic",
                "cross_detect", "cross_detect_withDynamicOutput", "compare",
                "qss_saturation", "qss_quantizer", "qss_signal_filter"}
  /\ MaxV \in Nat /\ MaxData \in 0 .. MaxV /\ Levels \subseteq V /\ Quanta \subseteq 1 .. MaxV
  /\ Bands \subseteq {band \in V \X V : band[1] < band[2]}
  /\ 2 * MaxV < Inf

VARIABLES
  kind, block,   \* the block and its state
  e,             \* time since its last transition, as dextmessage has it
  begun,         \* time is past 0
  out,           \* its output, as a trajectory
  truth,         \* the inputs; 1 is the state, of an integrator
  heard,         \* history: the switch has heard of its control, the
                 \* detectors of their input
  astray,        \* history: what the properties except has happened, and
                 \* nothing since that puts it right
  turns          \* history: internal transitions since time passed or an
                 \* input came, counted up to MaxTurns

vars == <<kind, block, e, begun, out, truth, heard, astray, turns>>

MaxTurns == 4

Integrates == kind \in {"qss", "qss_bounded"}
Detects    == kind \in {"cross_detect", "cross_detect_withDynamicOutput"}

BlockInit(k) ==
  CASE k = "qss_switch"   -> {SwitchInit(level) : level \in Levels}
    [] k = "qss"          -> {IntegratorInit(dQ, x, FALSE) : dQ \in Quanta, x \in V}
    [] k = "qss_bounded"  -> {IntegratorInit(dQ, x, TRUE) : dQ \in Quanta, x \in V \cap Nat}
    [] k = "hysteretic"   -> {HystereticInit(band[1], band[2]) : band \in Bands}
    [] k = "cross_detect" -> {CrossInit(level, Signal(1, 0)) : level \in Levels}
    [] k = "cross_detect_withDynamicOutput" -> {CrossInit(level, Zero) : level \in Levels}
    [] k = "compare"      -> {CompareInit}
    [] k = "qss_saturation" -> {SaturationInit(band[1], band[2]) : band \in Bands}
    [] k = "qss_quantizer"  ->
         UNION {{QuantizerInit(dQ, 0), QuantizerInit(dQ, dQ)} : dQ \in Quanta}
    [] k = "qss_signal_filter" -> {FilterInit(dQ) : dQ \in Quanta}

Init ==
  /\ kind \in Kinds /\ block \in BlockInit(kind)
  /\ e = 0 /\ begun = FALSE /\ out = Zero
  /\ truth = [i \in 0 .. 2 |-> IF Integrates /\ i = 1 THEN block.X ELSE Zero]
  /\ heard = FALSE /\ astray = FALSE /\ turns = 0

-----------------------------------------------------------------------------
Due == e >= block.sigma

(* One unit of time later; the state of qss_bounded stops at its bound. *)
Later(x) ==
  IF kind = "qss_bounded" /\ x.v <= lowerBound /\ x.s < 0 THEN x ELSE advance_time(x, 1)

(* After twice MaxV, by when a signal that moves has left V, e is cut off. *)
TimePasses ==
  /\ ~Due
  /\ truth' = [i \in 0 .. 2 |-> Later(truth[i])]
  /\ \A i \in 0 .. 2 : truth'[i].v \in IF kind = "qss_switch" /\ i # 1 THEN Data ELSE V
  /\ out' = advance_time(out, 1)
  /\ e' = IF e < 2 * MaxV THEN e + 1 ELSE e
  /\ begun' = TRUE /\ turns' = 0
  /\ UNCHANGED <<kind, block, heard, astray>>

(* dextmessage *)
Hears(b, i, x) ==
  /\ block' = b /\ e' = 0
  /\ truth' = [truth EXCEPT ![i] = x]
  /\ turns' = 0
  /\ UNCHANGED <<kind, begun, out>>

(* A switch that hears of an input when it is due, with its control on the *)
(* level, goes astray; the next control puts it right.                     *)
SwitchHears(port, x) ==
  /\ kind = "qss_switch" /\ (port = 1 \/ x.v \in Data)
  /\ Hears(SwitchDext(block, port, x, e), port, x)
  /\ heard' = (heard \/ port = 1)
  /\ astray' = ((astray /\ port # 1) \/ (Due /\ truth'[1].v = block.level))

(* A bounded integrator that is given a new state while it stands at its   *)
(* bound has no derivative any more.  It is right again when it knows the  *)
(* state and its derivative.                                               *)
IntegratorHears(port, x) ==
  /\ Integrates /\ port \in {0, 1} /\ x.s = 0
  /\ port = 0 => x.v \in Slopes
  /\ port = 1 /\ kind = "qss_bounded" => x.v >= lowerBound
  /\ Hears(IntegratorDext(block, port, x, e), 1,
           IF port = 0 THEN [truth[1] EXCEPT !.s = x.v] ELSE [truth[1] EXCEPT !.v = x.v])
  /\ astray' = IF port = 1 THEN block.atBound ELSE astray /\ block'.X # truth'[1]
  /\ UNCHANGED heard

HystereticHears(x) ==
  /\ kind = "hysteretic"
  /\ Hears(HystereticDext(block, x, begun), 0, x)
  /\ heard' = TRUE /\ astray' = FALSE

(* A detector whose input jumps over the level while it moves back to it.  *)
CrossHears(x) ==
  /\ Detects
  /\ Hears(CrossDext(block, x), 0, x)
  /\ heard' = TRUE
  /\ astray' = (block.sw * (x.v - block.level) < 0 /\ block.sw * x.s > 0)

OutputHears(x) ==
  /\ kind = "cross_detect_withDynamicOutput" /\ x.s = 0
  /\ Hears(OutputHeard(block, x, e), 1, x)
  /\ UNCHANGED <<heard, astray>>

(* A saturation that starts beyond a limit does not send it any more when  *)
(* an input of time 0, beyond the same limit, comes before its first       *)
(* output.                                                                 *)
LevelsHear(x) ==
  /\ \/ kind = "qss_saturation" /\ Hears(SaturationDext(block, x), 0, x)
     \/ kind = "qss_quantizer" /\ Hears(QuantizerDext(block, x), 0, x)
     \/ /\ kind = "qss_signal_filter" /\ Distance(x.s, out.s) <= 1
        /\ Hears(FilterDext(block, x, e), 0, x)
  /\ astray' = (astray \/ (kind = "qss_saturation" /\ ~begun /\ Due /\ block'.sigma # 0))
  /\ UNCHANGED heard

(* One of the inputs stays as it is, so that no slope is steeper than 1. *)
CompareHears(port, x) ==
  /\ kind = "compare" /\ port \in {0, 1}
  /\ x.s = 0 \/ truth[1 - port].s = 0
  /\ Hears(CompareDext(block, port, x, e, begun), port, x)
  /\ astray' = FALSE
  /\ UNCHANGED heard

Input(port, x) ==
  \/ SwitchHears(port, x) \/ IntegratorHears(port, x) \/ CompareHears(port, x)
  \/ port = 0 /\ (HystereticHears(x) \/ CrossHears(x) \/ LevelsHear(x))
  \/ port = 1 /\ OutputHears(x)

-----------------------------------------------------------------------------
(* lambdamessage and dintmessage *)
Sends(y, b) ==
  /\ Due
  /\ out' = y /\ block' = b /\ e' = 0
  /\ turns' = IF turns < MaxTurns THEN turns + 1 ELSE turns
  /\ UNCHANGED <<kind, begun, truth, heard>>

SwitchSends ==
  /\ kind = "qss_switch"
  /\ Sends(SwitchOutput(block), SwitchDint(SwitchLambda(block)))
  /\ UNCHANGED astray

(* A bounded integrator that makes its transition at its bound, or below,  *)
(* forgets its derivative, also one that would raise it.  Such a one comes *)
(* just when the block is due at its bound; or at any time when the block  *)
(* is below it, for dint plans dQ / |X1| ahead without a look at the bound *)
(* (qss_bounded.cpp:51-55), and below it dext plans a transition at once   *)
(* (97-99).                                                                *)
IntegratorSends ==
  /\ Integrates
  /\ Sends(IntegratorOutput(block), IntegratorDint(block))
  /\ astray' = (astray \/ (block.X.s > 0 /\ block'.X.s = 0))

(* The new level is the other one only if the levels are opposite; and the *)
(* first output is sent whatever the input that has come before it.        *)
HystereticSends ==
  /\ kind = "hysteretic"
  /\ Sends(HystereticOutput(block), HystereticDint(block))
  /\ astray' = (astray \/ (heard /\ ~begun) \/ block.ud[1] + block.ud[2] # 0)

CrossSends ==
  /\ Detects
  /\ Sends(block.y, CrossDint(block))
  /\ UNCHANGED astray

(* A comparison of which the inputs cross as they move changes its output  *)
(* a second time, back to what it was, and keeps that until it hears of    *)
(* one of them; at time 0 it makes the change an input planned also when   *)
(* the next input has undone it.                                           *)
CompareSends ==
  /\ kind = "compare"
  /\ Sends(CompareOutput(block), CompareDint(CompareLambda(block)))
  /\ astray' = (astray \/ (block'.du.v = 0 /\ block'.du.s # 0)
                     \/ (~begun /\ block.sw # "UNDEFINED"))

LevelsSend ==
  /\ \/ kind = "qss_saturation" /\ Sends(SaturationOutput(block), SaturationDint(block))
     \/ kind = "qss_quantizer" /\ Sends(QuantizerOutput(block), QuantizerDint(block))
     \/ kind = "qss_signal_filter" /\ Sends(FilterOutput(block), FilterDint(block))
  /\ astray' = FALSE

Internal ==
  SwitchSends \/ IntegratorSends \/ HystereticSends \/ CrossSends \/ CompareSends
  \/ LevelsSend

Next ==
  \/ \E port \in 0 .. 2, v \in V, s \in Slopes : Input(port, Signal(v, s))
  \/ Internal
  \/ TimePasses

Spec == Init /\ [][Next]_vars

-----------------------------------------------------------------------------
AtRest == ~Due /\ heard

SwitchRight ==
  (kind = "qss_switch" /\ AtRest /\ ~astray /\ truth[1].v # block.level) =>
    out.v = truth[IF truth[1].v > block.level THEN 0 ELSE 2].v

SaturationRight ==
  (kind = "qss_saturation" /\ ~Due /\ ~astray) =>
    out.v = IF truth[0].v < block.xl THEN block.xl
            ELSE IF truth[0].v > block.xu THEN block.xu ELSE truth[0].v

(* An input that falls is below the level it has come to. *)
QuantizerRight ==
  (kind = "qss_quantizer" /\ ~Due) =>
    /\ out.v - block.eps <= truth[0].v
    /\ \/ truth[0].v < out.v + block.dQ
       \/ truth[0].v = out.v + block.dQ /\ truth[0].s < 0 /\ block.eps = 0

(* Between its transitions the output of a switch is the input that the    *)
(* control selects, that of a saturation its input cut to the limits, and  *)
(* that of a quantizer the multiple of the quantum below its input.  For   *)
(* the quantizer that is so whatever comes when.  The saturation is        *)
(* excepted after an input of time 0 (LevelsHear) until it sends again.    *)
(* The switch is excepted after the one thing it does not bear, an input   *)
(* when it is due with its control on the level, such as one at the        *)
(* instant for which it plans to change its side: until its next control   *)
(* it may send the wrong input then, or send for ever (Settles), which is  *)
(* not what the library says of it, "If u1>level then y=u0. Otherwise      *)
(* y=u2" (hybrid.pdl:230).                                                 *)
Selects == SwitchRight /\ SaturationRight /\ QuantizerRight

(* The last output of an integrator is within one quantum of the integral  *)
(* of its derivatives, and that of a filter within one quantum of its      *)
(* input, though dext plans again from a state and a last output of        *)
(* different times.  For qss and the filter that is so at every instant,   *)
(* whatever comes when.  qss_bounded follows the integral, which stops at  *)
(* the bound, until it loses a derivative: one that would raise it and     *)
(* comes when it is due at its bound, or, once a transition has taken it   *)
(* below, any that would raise it (IntegratorSends); or the one it has     *)
(* when it is given a new state at its bound (IntegratorHears).  Then it   *)
(* is excepted until it is given a state while it is not at its bound, or  *)
(* a state and with it a derivative that it keeps.                         *)
WithinQuantum ==
  /\ (Integrates /\ ~Due /\ ~astray) => Distance(truth[1].v, out.v) <= block.dQ
  /\ (kind = "qss_signal_filter" /\ ~Due) =>
       Distance(truth[0].v, out.v) <= block.tol

(* The output of a hysteresis is the right one while its input is outside  *)
(* the band, and does not change while it is inside, though the block      *)
(* watches one level at a time and changes it in dint.                     *)
OutsideBand ==
  (kind = "hysteretic" /\ AtRest /\ ~astray) =>
    /\ truth[0].v < block.ud[1] => out.v = 0
    /\ truth[0].v > block.ud[2] => out.v = 1
InsideBand ==
  (kind = "hysteretic" /\ heard /\ ~astray') =>
    (block.ud[1] < truth[0].v /\ truth[0].v < block.ud[2] => out' = out)
HysteresisRight == []OutsideBand /\ [][InsideBand]_vars

(* A cross detector knows on which side its input is: no crossing is       *)
(* missed, and none is reported twice.                                     *)
SideKnown ==
  (Detects /\ AtRest /\ ~astray) =>
    /\ truth[0].v > block.level => block.sw = 1
    /\ truth[0].v < block.level => block.sw = -1

(* The output of a comparison tells which input is the larger one.  The    *)
(* form without the exception is what the library says of the block: "The  *)
(* output is yu when u0>u1. Otherwise, the output is yl"                   *)
(* (logicalOperators.pdl:469).                                             *)
Compares ==
  (kind = "compare" /\ ~Due) =>
    /\ truth[0].v > truth[1].v => out.v = 1
    /\ truth[0].v < truth[1].v => out.v = 0
ComparesUnlessAstray == ~astray => Compares

(* A switch that hears of a data input at the instant for which it plans   *)
(* to change its side keeps a tcross of 0, and dint plans it again.        *)
Cycling ==
  kind = "qss_switch" /\ block.change /\ block.sigma = 0 /\ block.tcross = 0

(* No other block goes on with transitions at one instant, whatever has    *)
(* come: three follow an input at most, and then time passes.  A switch    *)
(* that Cycling describes goes on for ever, and time with it stands still, *)
(* unless a control comes at that very instant.                            *)
Settles ==
  /\ [](turns < MaxTurns \/ Cycling)
  /\ [][Cycling => Cycling' \/ \E v \in V, s \in Slopes : SwitchHears(1, Signal(v, s))]_vars

=============================================================================
