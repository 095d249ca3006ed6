---------------------------- MODULE PacketQueue ----------------------------
(***************************************************************************)
(* The queues that emit on request of a server: packetqueue, its variant   *)
(* packetqueue_simple (both of atomics/network) and JobQueue (queueing).   *)
(* Port 0 brings packets, port 1 the requests.  An action is a dext, or a  *)
(* lambda with its dint.  Lengths are all that is kept of packets.         *)
(***************************************************************************)
EXTENDS PacketTime, SequencesExt

CONSTANTS Kinds,     \* of "packetqueue", "simple", "JobQueue"
          Periods,   \* values of ForcedPeriod, Inf when it is not given
          MaxCapacity

ASSUME QueueAssumption ==
  /\ Kinds \subseteq {"packetqueue", "simple", "JobQueue"}
  /\ Periods \subseteq Sigmas \ {0} /\ MaxCapacity \in Nat

VARIABLES
  kind, ForcedPeriod,        \* which model, and its parameter
  queue, qSize_bits,         \* myPacketQueue or queuedJobs
  mystate, serverstate,      \* packetqueue_simple has no mystate
  queueSigma,
  discarded,                 \* packets refused, as logged by discardedId
  pressed,                   \* history: a packet was refused with sigma 0
  elapsed                    \* history: a forced period was over

queueVars == <<kind, ForcedPeriod, queue, qSize_bits, mystate, serverstate,
               queueSigma, discarded, pressed, elapsed>>

QueueTypeOK ==
  /\ kind \in Kinds /\ ForcedPeriod \in Sigmas \ {0}
  /\ queue \in Seq(Packets) /\ qSize_bits \in Int
  /\ mystate \in {"WAITING", "t_NOTIFYING", "t_READYTOEMIT"}
  /\ serverstate \in {"SERVERWAITING", "SERVERBUSY"}
  /\ queueSigma \in Sigmas
  /\ discarded \subseteq Packets /\ pressed \in BOOLEAN /\ elapsed \in BOOLEAN

QueueInit ==
  /\ kind \in Kinds
  /\ ForcedPeriod \in IF kind = "JobQueue" THEN {Inf} ELSE Periods
  /\ queue = <<>> /\ qSize_bits = 0
  /\ mystate = "WAITING"
  /\ serverstate = IF kind = "JobQueue" THEN "SERVERBUSY" ELSE "SERVERWAITING"
  /\ queueSigma = ForcedPeriod
  /\ discarded = {} /\ pressed = FALSE /\ elapsed = FALSE

(* Slip: the capacity itself is too much. *)
FitsBelow(p) ==
  IF kind = "JobQueue" THEN Len(queue) < MaxCapacity
  ELSE qSize_bits + Length[p] < MaxCapacity

(* Capacities are numbers of jobs, or bits. *)
Fits(p) ==
  IF kind = "JobQueue" THEN Len(queue) < MaxCapacity
  ELSE qSize_bits + Length[p] <= MaxCapacity

-----------------------------------------------------------------------------
(* dext on port 0. *)
Enqueue(p) ==
  /\ Fits(p)
  /\ queue' = Append(queue, p)
  /\ qSize_bits' = qSize_bits + Length[p]
  /\ mystate' = IF kind = "simple" THEN mystate ELSE "t_NOTIFYING"
  /\ queueSigma' = 0
  /\ UNCHANGED <<kind, ForcedPeriod, serverstate, discarded, pressed, elapsed>>

(* packetqueue goes back to WAITING with the sigma it had; JobQueue        *)
(* announces the discard.                                                  *)
Refuse(p) ==
  /\ ~Fits(p)
  /\ discarded' = discarded \union {p}
  /\ mystate' = CASE kind = "packetqueue" -> "WAITING"
                  [] kind = "JobQueue" -> "t_NOTIFYING"
                  [] OTHER -> mystate
  /\ queueSigma' = IF kind = "JobQueue" THEN 0 ELSE queueSigma
  /\ pressed' = (pressed \/ queueSigma = 0)
  /\ UNCHANGED <<kind, ForcedPeriod, queue, qSize_bits, serverstate, elapsed>>

Arrive(p) == Enqueue(p) \/ Refuse(p)

(* Slip: the request is noted, the packet is left for the next transition. *)
RequestedLater ==
  /\ serverstate' = "SERVERWAITING"
  /\ mystate' = IF kind = "simple" THEN mystate ELSE "t_READYTOEMIT"
  /\ UNCHANGED <<kind, ForcedPeriod, queue, qSize_bits, queueSigma, discarded, pressed, elapsed>>

(* dext on port 1: the server asks for a packet. *)
Requested ==
  /\ serverstate' = "SERVERWAITING"
  /\ mystate' = IF kind = "simple" THEN mystate ELSE "t_READYTOEMIT"
  /\ queueSigma' = IF queue = <<>> THEN queueSigma ELSE 0
  /\ UNCHANGED <<kind, ForcedPeriod, queue, qSize_bits, discarded, pressed, elapsed>>

-----------------------------------------------------------------------------
(* dint of WAITING: the forced period is over. *)
WakeUp ==
  /\ queueSigma = 0 /\ kind # "simple" /\ mystate = "WAITING"
  /\ serverstate' = "SERVERWAITING"
  /\ mystate' = "t_NOTIFYING"
  /\ queueSigma' = 0
  /\ elapsed' = (elapsed \/ ForcedPeriod # Inf)
  /\ UNCHANGED <<kind, ForcedPeriod, queue, qSize_bits, discarded, pressed>>

CanEmit == serverstate = "SERVERWAITING" /\ queue # <<>>

(* lambda sends the size on port 1. *)
Notify ==
  /\ queueSigma = 0 /\ mystate = "t_NOTIFYING"
  /\ IF kind = "JobQueue" /\ ~CanEmit
     THEN mystate' = "WAITING" /\ queueSigma' = Inf
     ELSE mystate' = "t_READYTOEMIT" /\ queueSigma' = 0
  /\ UNCHANGED <<kind, ForcedPeriod, queue, qSize_bits, serverstate, discarded, pressed, elapsed>>

Ready == queueSigma = 0 /\ (kind = "simple" \/ mystate = "t_READYTOEMIT")

(* Slip: the server is not noted as busy. *)
DequeueIdle ==
  /\ Ready /\ CanEmit
  /\ queue' = Tail(queue)
  /\ qSize_bits' = qSize_bits - Length[Head(queue)]
  /\ serverstate' = "SERVERWAITING"
  /\ IF kind = "simple" THEN mystate' = mystate /\ queueSigma' = ForcedPeriod
                        ELSE mystate' = "t_NOTIFYING" /\ queueSigma' = 0
  /\ UNCHANGED <<kind, ForcedPeriod, discarded, pressed, elapsed>>

(* lambda sends the head of the queue. *)
Dequeue ==
  /\ Ready /\ CanEmit
  /\ queue' = Tail(queue)
  /\ qSize_bits' = qSize_bits - Length[Head(queue)]
  /\ serverstate' = "SERVERBUSY"
  /\ IF kind = "simple" THEN mystate' = mystate /\ queueSigma' = ForcedPeriod
                        ELSE mystate' = "t_NOTIFYING" /\ queueSigma' = 0
  /\ UNCHANGED <<kind, ForcedPeriod, discarded, pressed, elapsed>>

(* Nothing to emit, or nobody to emit it to. *)
GoWaiting ==
  /\ Ready /\ ~CanEmit
  /\ mystate' = "WAITING"
  /\ queueSigma' = ForcedPeriod
  /\ UNCHANGED <<kind, ForcedPeriod, queue, qSize_bits, serverstate, discarded, pressed, elapsed>>

QueueLater ==
  /\ queueSigma # 0
  /\ queueSigma' = Later(queueSigma)
  /\ UNCHANGED <<kind, ForcedPeriod, queue, qSize_bits, mystate, serverstate,
                 discarded, pressed, elapsed>>

=============================================================================
