----------------------------- MODULE PacketLink -----------------------------
(***************************************************************************)
(* packetLinkBandwidth, a link that sends one packet after the other, each *)
(* for as long as its length takes; and packetDelay, a line that gives     *)
(* every packet the delay valid when it came, a value that port 1 changes. *)
(* In both, the packets are a queue and sigma belongs to its head.         *)
(***************************************************************************)
EXTENDS PacketTime, SequencesExt

CONSTANT Delays   \* values of the delay

ASSUME DelayAssumption == Delays \subseteq 0 .. Inf - 1

VARIABLES
  packetQueue, linkSigma,    \* packetLinkBandwidth
  packetOutputTimes,         \* packetDelay: packet, time left; due is history:
                             \* the time left to the last one out so far
  delay_s, lineSigma

linkVars == <<packetQueue, linkSigma>>
lineVars == <<packetOutputTimes, delay_s, lineSigma>>

OutputTime == [packet : Packets, left : 0 .. Inf - 1, due : 0 .. Inf - 1]

LinkTypeOK ==
  /\ packetQueue \in Seq(Packets) /\ linkSigma \in Sigmas
  /\ packetOutputTimes \in Seq(OutputTime)
  /\ delay_s \in Delays /\ lineSigma \in Sigmas

LinkInit == packetQueue = <<>> /\ linkSigma = Inf
LineInit ==
  /\ packetOutputTimes = <<>> /\ delay_s \in Delays
  /\ lineSigma = Inf

-----------------------------------------------------------------------------
(* getServiceTime, with a bandwidth of 1. *)
ServiceTime(p) == Length[p]

LinkArrive(p) ==
  /\ packetQueue' = Append(packetQueue, p)
  /\ linkSigma' = IF packetQueue = <<>> THEN ServiceTime(p) ELSE linkSigma

LinkSend ==
  /\ linkSigma = 0 /\ packetQueue # <<>>
  /\ packetQueue' = Tail(packetQueue)
  /\ linkSigma' = IF packetQueue' = <<>> THEN Inf ELSE ServiceTime(Head(packetQueue'))

LinkLater ==
  /\ linkSigma # 0
  /\ linkSigma' = Later(linkSigma)
  /\ UNCHANGED packetQueue

-----------------------------------------------------------------------------
Longest(a, b) == IF a > b THEN a ELSE b

(* dext on port 0. *)
LineArrive(p) ==
  /\ packetOutputTimes' = Append(packetOutputTimes,
       [packet |-> p, left |-> delay_s,
        due |-> IF packetOutputTimes = <<>> THEN delay_s
                ELSE Longest(delay_s, Last(packetOutputTimes).due)])
  /\ lineSigma' = IF packetOutputTimes = <<>> THEN delay_s ELSE lineSigma
  /\ UNCHANGED delay_s

(* dext on port 1. *)
NewDelay(d) ==
  /\ delay_s' = d
  /\ UNCHANGED <<packetOutputTimes, lineSigma>>

(* Slips: the delay again for the next one; no time for the next one. *)
LineSendThen(sigma) ==
  /\ lineSigma = 0 /\ packetOutputTimes # <<>>
  /\ packetOutputTimes' = Tail(packetOutputTimes)
  /\ lineSigma' = IF packetOutputTimes' = <<>> THEN Inf ELSE sigma
  /\ UNCHANGED delay_s
LineSendDelayed == LineSendThen(delay_s)
LineSendStops   == LineSendThen(Inf)

(* A time that is over gives a negative sigma, at which the simulator      *)
(* leaves the next transition at the present time (simulator.cpp:247).     *)
LineSend ==
  /\ lineSigma = 0 /\ packetOutputTimes # <<>>
  /\ packetOutputTimes' = Tail(packetOutputTimes)
  /\ lineSigma' = IF packetOutputTimes' = <<>> THEN Inf ELSE Head(packetOutputTimes').left
  /\ UNCHANGED delay_s

Shorter(n) == IF n = 0 THEN 0 ELSE n - 1

LineLater ==
  /\ lineSigma # 0
  /\ lineSigma' = Later(lineSigma)
  /\ packetOutputTimes' = [i \in DOMAIN packetOutputTimes |->
       [packetOutputTimes[i] EXCEPT !.left = Shorter(@), !.due = Shorter(@)]]
  /\ UNCHANGED delay_s

=============================================================================
