----------------------------- MODULE PacketPath -----------------------------
(***************************************************************************)
(* A path through the models of atomics/network: RED, a queue, the link    *)
(* that serves it, a delay line.  The link's output is the request for the *)
(* next packet (packetqueue.cpp:47), the length the queue notifies goes    *)
(* back to RED.  An action is the internal transition of one model         *)
(* together with the dext of those that receive its output; models due at  *)
(* the same time come in any order.  With kind = "JobQueue" the packets    *)
(* are jobs, RED is left aside, and link and line stand for the server.    *)
(***************************************************************************)
EXTENDS RedAqm, PacketQueue, PacketLink

VARIABLES sent,    \* packets the source has sent
          asked    \* external: the server has asked before its first packet

vars == <<redVars, queueVars, linkVars, lineVars, sent, asked>>

Init ==
  /\ RedInit /\ QueueInit /\ LinkInit /\ LineInit
  /\ sent = {} /\ asked = FALSE

NewPackets == {p \in Packets \ sent : \A q \in Packets \ sent : p <= q}

-----------------------------------------------------------------------------
Source ==
  \E p \in NewPackets :
    /\ sent' = sent \union {p}
    /\ \/ /\ kind = "JobQueue" /\ Arrive(p)
          /\ UNCHANGED <<redVars, linkVars, lineVars, asked>>
       \/ /\ kind # "JobQueue" /\ (Drop(p) \/ Admit(p))
          /\ UNCHANGED <<queueVars, linkVars, lineVars, asked>>

RedDropped == NoticeDrop /\ UNCHANGED <<queueVars, linkVars, lineVars, sent, asked>>

RedForwards ==
  /\ Forward /\ Arrive(Head(outputPackets))
  /\ UNCHANGED <<linkVars, lineVars, sent, asked>>

QueueWakes == WakeUp /\ UNCHANGED <<redVars, linkVars, lineVars, sent, asked>>

(* JobQueue notifies its number of jobs to whoever listens. *)
QueueNotifies ==
  /\ Notify
  /\ IF kind = "JobQueue"
     THEN queueSize' = Len(queue) /\ UNCHANGED <<phase, outputPackets, redSigma, dropped>>
     ELSE LengthNotified(qSize_bits)
  /\ UNCHANGED <<linkVars, lineVars, sent, asked>>

QueueEmits ==
  /\ Dequeue /\ LinkArrive(Head(queue))
  /\ UNCHANGED <<redVars, lineVars, sent, asked>>

QueueGoesWaiting == GoWaiting /\ UNCHANGED <<redVars, linkVars, lineVars, sent, asked>>

LinkEmits ==
  /\ LinkSend /\ LineArrive(Head(packetQueue)) /\ Requested
  /\ UNCHANGED <<redVars, sent, asked>>

LineEmits == LineSend /\ UNCHANGED <<redVars, queueVars, linkVars, sent, asked>>

DelayChanges ==
  /\ \E d \in Delays \ {delay_s} : NewDelay(d)
  /\ UNCHANGED <<redVars, queueVars, linkVars, sent, asked>>

(* A server may ask at the start; that of a JobQueue has to. *)
Ask ==
  /\ ~asked /\ packetQueue = <<>>
  /\ asked' = TRUE
  /\ Requested
  /\ UNCHANGED <<redVars, linkVars, lineVars, sent>>

TimePasses ==
  /\ RedLater /\ QueueLater /\ LinkLater /\ LineLater
  /\ UNCHANGED <<sent, asked>>

Internal ==
  \/ RedDropped \/ RedForwards
  \/ QueueWakes \/ QueueNotifies \/ QueueEmits \/ QueueGoesWaiting
  \/ LinkEmits \/ LineEmits

Next == Source \/ Internal \/ DelayChanges \/ Ask \/ TimePasses

Spec == Init /\ [][Next]_vars

(* The root simulator executes what is due, then lets time pass. *)
FairSpec == Spec /\ WF_vars(Internal) /\ WF_vars(TimePasses) /\ WF_vars(Ask)

-----------------------------------------------------------------------------
(* Properties. *)

(* The types; that qSize_bits is the sum of the lengths of what is queued, *)
(* and so never negative, is part of ImplementsFifo.                       *)
TypeOK ==
  /\ RedTypeOK /\ QueueTypeOK /\ LinkTypeOK
  /\ sent \subseteq Packets /\ asked \in BOOLEAN

(* Every model is due exactly when it has something to send.  A packet     *)
(* that RED has admitted leaves at once: a length notified or a drop at    *)
(* the same instant must not put RED to sleep (the comment at              *)
(* packetRED_AQM.cpp:101 remembers that one did).  RED is never due in a   *)
(* phase in which lambda has nothing to send, nor the link or the line     *)
(* without a packet: lambda would read the front of an empty queue.        *)
DueWithSomething ==
  /\ outputPackets # <<>> => redSigma = 0
  /\ redSigma = 0 => \/ phase = "T_NOTIFYING_DROP"
                     \/ phase = "T_EMITTING_PACKET" /\ outputPackets # <<>>
  /\ (packetQueue = <<>>) <=> (linkSigma = Inf)
  /\ (packetOutputTimes = <<>>) <=> (lineSigma = Inf)

(* The link serves one packet at a time, as the queue sends one for each   *)
(* request.  In packetqueue two things break this: a forced period, and a  *)
(* packet refused at an instant at which the queue was due, which is taken *)
(* for the end of a forced period (packetqueue.cpp:135).                   *)
OnePerRequest ==
  Len(packetQueue) > 1 => kind = "packetqueue" /\ (elapsed \/ pressed)

(* A queue with a packet and an idle server do not wait for each other.    *)
(* A JobQueue starts with a server that is busy until it asks.             *)
NotStranded ==
  (queue # <<>> /\ packetQueue = <<>> /\ (kind = "JobQueue" => asked)) => queueSigma = 0

(* When the queue is at rest the length notified last is its length, as    *)
(* long as it sends on request only.                                       *)
LengthKnown ==
  (kind # "simple" /\ queueSigma # 0 /\ ~elapsed /\ ~pressed) =>
    queueSize = IF kind = "JobQueue" THEN Len(queue) ELSE qSize_bits

(* A packet leaves the line at its output time, or, if the delay fell,     *)
(* when those before it have left: never early, and never later than that. *)
LeavesWhenDue ==
  packetOutputTimes # <<>> => lineSigma = Head(packetOutputTimes).due

(* Order, bound and reason of refusal, from the queue to the end of the    *)
(* line; qSize_bits must agree with what is in the queue for that.         *)
Fifo ==
  INSTANCE BoundedFifo WITH
    byNumber <- kind = "JobQueue",
    waiting  <- queue,
    ahead    <- [i \in 1 .. Len(packetOutputTimes) |-> packetOutputTimes[i].packet]
                  \o packetQueue,
    refused  <- discarded

ImplementsFifo == Fifo!Spec

(* Every packet accepted by the queue arrives. *)
Delivered ==
  \A p \in Packets :
    Contains(queue, p) ~>
      (p \in sent /\ ~Contains(queue, p) /\ ~Contains(packetQueue, p)
         /\ \A i \in DOMAIN packetOutputTimes : packetOutputTimes[i].packet # p)

=============================================================================
