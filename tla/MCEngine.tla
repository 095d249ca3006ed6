------------------------------ MODULE MCEngine ------------------------------
(***************************************************************************)
(* A model with three levels: Top = (A, b), A = (B, a2), B = (a1).         *)
(* Port 1 of a1 leaves B, reaches a2 and b; port 1 of b goes back into A,  *)
(* to a2 and through B to a1; port 1 of a2 leaves A for b, and port 2 of   *)
(* a1 stays inside A.                                                      *)
(***************************************************************************)
EXTENDS EngineFlat, TLC

CONSTANTS a1, a2, b, A, B, Top

MCD     == (Top :> <<A, b>>) @@ (A :> <<B, a2>>) @@ (B :> <<a1>>)
MCLevel == (Top :> 0) @@ (A :> 1) @@ (b :> 1) @@ (B :> 2) @@ (a2 :> 2) @@ (a1 :> 3)

Inner(src, sport, sink, iport) ==
  [src |-> src, sport |-> sport, sink |-> sink, iport |-> iport]
In(sport, sink, iport) == [sport |-> sport, sink |-> sink, iport |-> iport]
Out(src, sport, oport) == [src |-> src, sport |-> sport, oport |-> oport]

MCIC  == (Top :> <<Inner(1, 1, 2, 1), Inner(2, 1, 1, 1)>>)
      @@ (A   :> <<Inner(1, 1, 2, 1), Inner(1, 2, 2, 2)>>)
      @@ (B   :> <<>>)
MCEIC == (Top :> <<>>)
      @@ (A   :> <<In(1, 2, 1), In(1, 1, 1), In(2, 1, 1)>>)
      @@ (B   :> <<In(1, 1, 1)>>)
MCEOC == (Top :> <<>>)
      @@ (A   :> <<Out(1, 1, 1), Out(2, 1, 1)>>)
      @@ (B   :> <<Out(1, 1, 1), Out(1, 2, 2)>>)

(* An invalid time advance, now, later, and never. *)
MCSigmas == {-1, 0, 1, 2, INF}

(* Nothing feeds its own father's input: no model receives what it sends. *)
ASSUME \A c \in Coupled : \A i \in DOMAIN IC[c] : IC[c][i].src # IC[c][i].sink

(* The flat model, written down by hand from the drawing and not from the   *)
(* engine's walk through the couplings.                                    *)
MCLeaves == (Top :> {a1, a2, b}) @@ (A :> {a1, a2}) @@ (B :> {a1})
         @@ [a \in Atomic |-> {a}]
MCRank   == (a1 :> 1) @@ (a2 :> 2) @@ (b :> 3)

MCReach ==
     [x \in Atomic \X Ports |-> <<x>>]
  @@ (<<A, 1>> :> <<<<a2, 1>>, <<a1, 1>>>>)
  @@ (<<A, 2>> :> <<<<a1, 1>>>>)
  @@ (<<B, 1>> :> <<<<a1, 1>>>>)
  @@ [x \in Models \X Ports |-> <<>>]

MCRoute ==
     (<<a1, 1>> :> <<<<a2, 1>>, <<b, 1>>>>)
  @@ (<<a1, 2>> :> <<<<a2, 2>>>>)
  @@ (<<a2, 1>> :> <<<<b, 1>>>>)
  @@ (<<b, 1>>  :> <<<<a2, 1>>, <<a1, 1>>>>)
  @@ (<<A, 1>>  :> <<<<b, 1>>>>)
  @@ (<<B, 1>>  :> <<<<a2, 1>>, <<b, 1>>>>)
  @@ (<<B, 2>>  :> <<<<a2, 2>>>>)
  @@ [x \in Models \X Ports |-> <<>>]

=============================================================================
