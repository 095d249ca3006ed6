---------------------------- MODULE MCQuantized -----------------------------
(* Instances of Quantized for TLC: a hysteresis with opposite levels, and  *)
(* one whose levels are not.                                               *)
EXTENDS Quantized
MCLevels == {0, 1}
MCBands == {<<-1, 1>>, <<0, 1>>, <<1, 2>>}
=============================================================================
