------------------------------ MODULE EngineRT ------------------------------
(***************************************************************************)
(* The engine of src/engine in real time (engine/linux): step(int) waits   *)
(* for the clock before each event when the simulation is timed,           *)
(* lambdamessage waits for it before an event with a real time mode is     *)
(* propagated, and while the engine waits, messages from the network reach *)
(* their listeners by externalinput, in the middle of whatever call waits. *)
(***************************************************************************)
EXTENDS Engine

CONSTANTS Timed,        \* setRealTime() was called
          Listeners,    \* atomic models registered by RequestNET
          InputSigmas,  \* their ta after a message; readudp: 0
          RealTime,     \* atomic models whose events have a real time mode
          RtMax,        \* bound on the clock
          MaxMessages   \* bound on the messages from the network

ASSUME RealTimeAssumption ==
  /\ Timed \in BOOLEAN /\ Listeners \subseteq Atomic /\ RealTime \subseteq Atomic
  /\ InputSigmas \subseteq Int /\ RtMax \in Nat /\ MaxMessages \in Nat

VARIABLES rt,       \* getRealSimulationTime()
          wait,     \* step(int): "call", "wait" or "go" on with step()
          until,    \* when the wait of step(int) ends
          messages  \* messages received so far

rtVars == <<vars, rt, wait, until, messages>>
clock  == <<rt, wait, until, messages>>

RtInit == Init /\ rt = 0 /\ wait = "call" /\ until = 0 /\ messages = 0

(* Time passes at any moment. *)
Tick == rt < RtMax /\ rt' = rt + 1 /\ UNCHANGED <<vars, wait, until, messages>>

(* step(int), one turn of its loop.  The wait is for t, which is still the *)
(* time of the event before unless an external input has changed it.       *)
CallStep ==
  /\ wait = "call" /\ phase = "run" /\ todo = <<>>
  /\ IF Timed /\ t - rt > 0 THEN wait' = "wait" /\ until' = t
                            ELSE wait' = "go" /\ UNCHANGED until
  /\ UNCHANGED <<vars, rt, messages>>

StepWaitOver ==
  /\ wait = "wait" /\ rt >= until
  /\ wait' = "go"
  /\ UNCHANGED <<vars, rt, until, messages>>

RtStep ==
  /\ wait = "go" /\ wait' = "call"
  /\ StepAborted \/ StepIllegitimate \/ StepPastEnd \/ StepEvent
  /\ UNCHANGED <<rt, until, messages>>

RtWait(m, u) == [op |-> "rtwait", m |-> m, until |-> u]
Prop(c, p)   == [op |-> "prop", m |-> c, port |-> p]

(* lambdamessage of a model that returns an event with a real time mode. *)
LambdaRealTime ==
  /\ Calling("lambda") /\ Head(todo).m \in RealTime
  /\ \E p \in Ports : Then(<<RtWait(Head(todo).m, at), Prop(Father(Head(todo).m), p)>>)
  /\ abort' \in {abort, TRUE}
  /\ UNCHANGED <<at, tn, tl, tc, key, root>>

LambdaWaitOver ==
  /\ Calling("rtwait") /\ rt >= Head(todo).until
  /\ Then(<<>>)
  /\ UNCHANGED <<at, tn, tl, tc, key, abort, root>>

(* waitFor() of Linux always returns 0: the event is propagated. *)
PropagateCall ==
  /\ Calling("prop")
  /\ Then(Propagate(Head(todo).m, Head(todo).port))
  /\ UNCHANGED <<at, tn, tl, tc, key, abort, root>>

RtCall ==
  /\ \/ LambdaCoupled \/ LambdaAtomic \/ LambdaRealTime \/ LambdaWaitOver \/ PropagateCall
     \/ EocTurn \/ ExtAtomic \/ ExtCoupled \/ DintCoupled \/ DintAtomic \/ Return
     \/ Throw
  /\ UNCHANGED clock

(* waitFor() looks for messages only as long as it still has to wait. *)
Waiting ==
  /\ phase = "run"
  /\ \/ wait = "wait" /\ rt < until
     \/ Calling("rtwait") /\ rt < Head(todo).until

-----------------------------------------------------------------------------
(* externalinput.  changemytn climbs from father to father as long as the  *)
(* new time seems to matter; on its way up each of them runs ta(0) on the  *)
(* heap as it was, and only on its way back it updates its heap.           *)
Matters(c, tnext, k) ==
  tn[c] > tnext \/ k = tc[c] \/ (tn[c] = tnext /\ k < tc[c])

(* The models whose father hears of the change ... *)
Climbers(a, tnext) ==
  LET hears[m \in Models] ==
        \/ m = a
        \/ /\ m \in Coupled
           /\ \E k \in Index(m) : hears[D[m][k]] /\ Matters(m, tnext, k)
  IN  {m \in Models : hears[m]}

(* ... and the time that a model shows, those that ran ta(0) taking it     *)
(* from the child their heap put first.                                    *)
Shown(a, tnext, again) ==
  LET show[m \in Models] ==
        IF m = a THEN tnext
        ELSE IF m \in again THEN show[D[m][First(key[m])]]
        ELSE tn[m]
  IN  show

(* Slip: changemytn updates the heap only when the new time seems to matter. *)
InputUpdatesIfMatters(a) ==
  /\ Waiting /\ messages < MaxMessages
  /\ messages' = messages + 1
  /\ tl' = [tl EXCEPT ![a] = rt]
  /\ \E s \in InputSigmas :
       LET tnext == IF s >= 0 THEN Plus(rt, s) ELSE tn[a]
           heard == Climbers(a, tnext)
           again == heard \cap Coupled
       IN  /\ tn' = Shown(a, tnext, again)
           /\ tc' = [c \in Coupled |-> IF c \in again THEN First(key[c]) ELSE tc[c]]
           /\ key' = [c \in Coupled |-> [k \in Index(c) |->
                        IF D[c][k] \in heard /\ c \in again THEN tn'[D[c][k]] ELSE key[c][k]]]
           /\ t' = IF Root \in again THEN tnext ELSE t
  /\ abort' \in {abort, TRUE}
  /\ UNCHANGED <<at, todo, last, steps, phase, rt, wait, until>>

(* A message reaches the listener a at the clock's time. *)
ExternalInput(a) ==
  /\ Waiting /\ messages < MaxMessages
  /\ messages' = messages + 1
  /\ tl' = [tl EXCEPT ![a] = rt]
  /\ \E s \in InputSigmas :
       LET tnext == IF s >= 0 THEN Plus(rt, s) ELSE tn[a]
           heard == Climbers(a, tnext)
           again == heard \cap Coupled
       IN  /\ tn' = Shown(a, tnext, again)
           /\ tc' = [c \in Coupled |-> IF c \in again THEN First(key[c]) ELSE tc[c]]
           /\ key' = [c \in Coupled |-> [k \in Index(c) |->
                        IF D[c][k] \in heard THEN tn'[D[c][k]] ELSE key[c][k]]]
           /\ t' = IF Root \in again THEN tnext ELSE t
  /\ abort' \in {abort, TRUE}
  /\ UNCHANGED <<at, todo, last, steps, phase, rt, wait, until>>

RtNext ==
  \/ Tick \/ CallStep \/ StepWaitOver \/ RtStep \/ RtCall
  \/ \E a \in Listeners : ExternalInput(a)

RtSpec == RtInit /\ [][RtNext]_rtVars

-----------------------------------------------------------------------------
(* Whatever arrives and whenever, a heap knows the times of its children   *)
(* when the engine waits or a step begins: only what is read from the heap *)
(* is too old.                                                             *)
HeapsKnowTimesInRealTime == \A c \in Coupled : KeysKnown(c)

(* root_simulator.h:60, "Sets if the simulation should synchronize all     *)
(* events": no event happens before its time.                              *)
EventsSynchronized == (Timed /\ todo # <<>>) => at <= rt

=============================================================================
