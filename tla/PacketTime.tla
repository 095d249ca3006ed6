---------------------------- MODULE PacketTime ----------------------------
(***************************************************************************)
(* What the models of packets share: the packets with their lengths, and   *)
(* the time left to a model until its next internal transition, sigma, a   *)
(* natural number below Inf, or Inf for never.  Time passes for all models *)
(* together and only while none is due, as the engine has it; a dext that  *)
(* "continues as before" (sigma = sigma - e) keeps what is left.           *)
(***************************************************************************)
EXTENDS Integers

CONSTANTS
  Packets,
  Length,    \* Packets -> bits
  Inf        \* std::numeric_limits<double>::infinity(); in JobQueue max()

ASSUME PacketAssumption ==
  /\ Packets \subseteq Nat /\ Inf \in Nat \ {0}
  /\ Length \in [Packets -> 1 .. Inf - 1]

Sigmas == 0 .. Inf

(* One unit of time later. *)
Later(s) == IF s = Inf THEN Inf ELSE s - 1

=============================================================================
