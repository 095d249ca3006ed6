----------------------------- MODULE MCEngineRT -----------------------------
(***************************************************************************)
(* A model with a UDP listener inside a coupled model, Top = (A, b) and    *)
(* A = (a1), where a1 sends to b and b is a source of events.               *)
(***************************************************************************)
EXTENDS EngineRT, TLC

CONSTANTS a1, b, A, Top

MCD     == (Top :> <<A, b>>) @@ (A :> <<a1>>)
MCLevel == (Top :> 0) @@ (A :> 1) @@ (b :> 1) @@ (a1 :> 2)
MCIC    == (Top :> <<[src |-> 1, sport |-> 1, sink |-> 2, iport |-> 1]>>)
        @@ (A   :> <<>>)
MCEIC   == (Top :> <<>>) @@ (A :> <<>>)
MCEOC   == (Top :> <<>>) @@ (A :> <<[src |-> 1, sport |-> 1, oport |-> 1]>>)

=============================================================================
