---------------------------- MODULE MCPacketPath ----------------------------
(* Instances of PacketPath for TLC. *)
EXTENDS PacketPath
MCLength == [p \in Packets |-> IF p = 3 THEN 2 ELSE 1]
=============================================================================
