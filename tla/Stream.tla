------------------------------- MODULE Stream -------------------------------
(***************************************************************************)
(* What a TCP session promises: the bytes of the application reach the     *)
(* other end in their order, each once, and the sender forgets a packet    *)
(* only when it is there.                                                  *)
(***************************************************************************)
EXTENDS Integers

CONSTANT Unit        \* bytes of a packet

VARIABLES given,     \* bytes taken from the application
          accepted,  \* bytes that arrived in order
          dropped    \* bytes the sender keeps no longer

Init == given = 0 /\ accepted = 0 /\ dropped = 0

Give == given' = given + Unit /\ UNCHANGED <<accepted, dropped>>

Accept ==
  /\ accepted + Unit <= given /\ accepted' = accepted + Unit
  /\ UNCHANGED <<given, dropped>>

Drop ==
  /\ dropped + Unit <= accepted /\ dropped' = dropped + Unit
  /\ UNCHANGED <<given, accepted>>

Spec == Init /\ [][Give \/ Accept \/ Drop]_<<given, accepted, dropped>>

=============================================================================
