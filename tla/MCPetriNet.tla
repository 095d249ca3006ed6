----------------------------- MODULE MCPetriNet -----------------------------
(***************************************************************************)
(* Two transitions compete for the tokens of p: x takes one of p and one   *)
(* of q and returns one to p, y takes two of p and makes one for q.  A     *)
(* source feeds p and, through a triggered transition, q.                  *)
(***************************************************************************)
EXTENDS PetriNet, TLC

CONSTANTS p1, p2, x1, x2, src, trg

MCPre    == (x1 :> <<p2, p1>>) @@ (x2 :> <<p1>>)
MCWeight == (x1 :> (p1 :> 1 @@ p2 :> 1)) @@ (x2 :> (p1 :> 2 @@ p2 :> 0))
To(a, b, c) == (p1 :> a) @@ (p2 :> b) @@ (trg :> c)
MCArcs   == (x1 :> To(1, 0, 0)) @@ (x2 :> To(0, 1, 0)) @@ (src :> To(1, 0, 1)) @@ (trg :> To(0, 1, 0))

(* Every order of the places and of the competing transitions, the source *)
(* and the triggered transition on either side of them.                    *)
MCOrders ==
  LET mid == {s \in [1 .. 4 -> {p1, p2, x1, x2}] : \A i, j \in 1 .. 4 : s[i] = s[j] => i = j}
  IN  {IF s[1] \in {p1, x1} THEN <<src>> \o s \o <<trg>> ELSE <<trg>> \o s \o <<src>> : s \in mid}

=============================================================================
