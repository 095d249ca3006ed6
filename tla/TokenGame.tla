------------------------------ MODULE TokenGame ------------------------------
(***************************************************************************)
(* A Petri net without time: a transition whose input places hold enough   *)
(* tokens takes them and puts others in its output places, in one step.    *)
(* What the blocks of atomics/petri promise.                               *)
(***************************************************************************)
EXTENDS Integers

CONSTANTS Places, Transitions,
          Take, Give   \* Take[x][p] and Give[x][p]: the arcs of transition x

VARIABLE marking

Init == marking \in [Places -> Nat]

Fire(x) ==
  /\ \A p \in Places : marking[p] >= Take[x][p]
  /\ marking' = [p \in Places |-> marking[p] - Take[x][p] + Give[x][p]]

Spec == Init /\ [][\E x \in Transitions : Fire(x)]_marking

=============================================================================
