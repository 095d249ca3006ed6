------------------------------- MODULE RedAqm -------------------------------
(***************************************************************************)
(* packetRED_AQM: drops packets at random before a queue, with a           *)
(* probability computed from the lengths the queue notifies on port 1.     *)
(* The average and the probability are left out: any packet may be         *)
(* dropped.  What remains is how packets, notified lengths and the notices *)
(* of drops share one phase and one sigma.                                 *)
(***************************************************************************)
EXTENDS PacketTime, SequencesExt

VARIABLES phase,
          outputPackets,
          queueSize,       \* last length notified
          redSigma,
          dropped          \* packets dropped; the code counts them

redVars == <<phase, outputPackets, queueSize, redSigma, dropped>>

RedTypeOK ==
  /\ phase \in {"WAITING_FOR_PACKET", "T_EMITTING_PACKET", "T_NOTIFYING_DROP"}
  /\ outputPackets \in Seq(Packets)
  /\ queueSize \in Int /\ redSigma \in {0, Inf} /\ dropped \subseteq Packets

RedInit ==
  /\ phase = "WAITING_FOR_PACKET" /\ outputPackets = <<>>
  /\ queueSize = 0 /\ redSigma = Inf /\ dropped = {}

(* dint, and the end of dext on port 1. *)
NextPhase ==
  IF outputPackets' = <<>>
  THEN phase' = "WAITING_FOR_PACKET" /\ redSigma' = Inf
  ELSE phase' = "T_EMITTING_PACKET" /\ redSigma' = 0

-----------------------------------------------------------------------------
(* dext on port 0. *)
Drop(p) ==
  /\ dropped' = dropped \union {p}
  /\ phase' = "T_NOTIFYING_DROP" /\ redSigma' = 0
  /\ UNCHANGED <<outputPackets, queueSize>>

Admit(p) ==
  /\ outputPackets' = Append(outputPackets, p)
  /\ phase' = "T_EMITTING_PACKET" /\ redSigma' = 0
  /\ UNCHANGED <<queueSize, dropped>>

(* Slip: the packet to be sent is forgotten. *)
LengthOnly(n) ==
  /\ queueSize' = n
  /\ phase' = "WAITING_FOR_PACKET" /\ redSigma' = Inf
  /\ UNCHANGED <<outputPackets, dropped>>

(* dext on port 1: a new length. *)
LengthNotified(n) ==
  /\ queueSize' = n
  /\ UNCHANGED <<outputPackets, dropped>>
  /\ NextPhase

-----------------------------------------------------------------------------
(* lambda sends queueSize on port 1. *)
NoticeDrop ==
  /\ redSigma = 0 /\ phase = "T_NOTIFYING_DROP"
  /\ UNCHANGED <<outputPackets, queueSize, dropped>>
  /\ NextPhase

(* lambda sends the first packet, and takes it out. *)
Forward ==
  /\ redSigma = 0 /\ phase = "T_EMITTING_PACKET" /\ outputPackets # <<>>
  /\ outputPackets' = Tail(outputPackets)
  /\ UNCHANGED <<queueSize, dropped>>
  /\ NextPhase

(* Sigma is 0 or infinite. *)
RedLater == redSigma = Inf /\ UNCHANGED redVars

=============================================================================
