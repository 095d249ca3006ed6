------------------------------ MODULE FlatDEVS ------------------------------
(***************************************************************************)
(* What a simulation of a coupled model means, with the hierarchy gone:    *)
(* atomic models that reach each other through fixed routes.  One event at *)
(* a time, the first model among those due earliest sends its output to    *)
(* every model on a route from it, once per route and in the order of the  *)
(* routes, and makes its internal transition after all of them.            *)
(***************************************************************************)
EXTENDS Integers, Sequences

CONSTANTS Atomic, None,
          Rank,      \* the order of the atomic models that breaks ties
          Route,     \* Route[a, p]: the inputs port p of a reaches, in order
          Ports, Sigmas, INF, Tf,
          MaxSteps   \* events allowed at one time, give or take the first

VARIABLES now,       \* time of the event under way
          tn, tl,    \* next and last transition of each model
          imm,       \* the model whose event is under way, or None
          emitted,   \* it has produced its output
          pending,   \* the inputs its output still has to reach
          burst,     \* events at this time
          abort, phase

flatVars == <<now, tn, tl, imm, emitted, pending, burst, abort, phase>>

Plus(x, s) == IF s >= INF THEN INF ELSE x + s

Due(a) == \A x \in Atomic : tn[a] < tn[x] \/ (tn[a] = tn[x] /\ Rank[a] <= Rank[x])

FlatInit ==
  /\ now = 0 /\ imm = None /\ emitted = FALSE /\ pending = <<>> /\ burst = 0
  /\ tn \in [Atomic -> {Plus(0, s) : s \in {v \in Sigmas : v >= 0}}]
  /\ tl = [a \in Atomic |-> 0]
  /\ abort = FALSE /\ phase = "run"

Select(a) ==
  /\ phase = "run" /\ imm = None /\ ~abort
  /\ Due(a) /\ tn[a] <= Tf
  /\ now' = tn[a] /\ imm' = a /\ emitted' = FALSE
  /\ burst' = IF now' = now THEN burst + 1 ELSE 1
  /\ burst' <= MaxSteps + 1
  /\ UNCHANGED <<tn, tl, pending, abort, phase>>

Emit ==
  /\ phase = "run" /\ imm # None /\ ~emitted
  /\ pending' \in {<<>>} \cup {Route[imm, p] : p \in Ports}
  /\ emitted' = TRUE
  /\ abort' \in {abort, TRUE}
  /\ UNCHANGED <<now, tn, tl, imm, burst, phase>>

Transition(a) ==
  /\ tl' = [tl EXCEPT ![a] = now]
  /\ \E s \in Sigmas : tn' = [tn EXCEPT ![a] = IF s >= 0 THEN Plus(now, s) ELSE tn[a]]
  /\ abort' \in {abort, TRUE}

Receive ==
  /\ phase = "run" /\ emitted /\ pending # <<>>
  /\ Transition(Head(pending)[1])
  /\ pending' = Tail(pending)
  /\ UNCHANGED <<now, imm, emitted, burst, phase>>

Internal ==
  /\ phase = "run" /\ emitted /\ pending = <<>>
  /\ Transition(imm)
  /\ imm' = None /\ emitted' = FALSE
  /\ UNCHANGED <<now, pending, burst, phase>>

(* The run ends at the final time, on request, or when too many events     *)
(* happen at one time; never otherwise.                                    *)
Stop ==
  /\ phase = "run" /\ imm = None
  /\ \/ abort
     \/ \A a \in Atomic : tn[a] > Tf
     \/ burst >= MaxSteps /\ \E a \in Atomic : tn[a] = now
  /\ phase' = "done" /\ burst' = 0
  /\ UNCHANGED <<now, tn, tl, imm, emitted, pending, abort>>

(* A model throws while it is called. *)
Fail ==
  /\ phase = "run" /\ imm # None
  /\ phase' = "failed" /\ imm' = None /\ emitted' = FALSE
  /\ pending' = <<>> /\ burst' = 0
  /\ UNCHANGED <<now, tn, tl, abort>>

FlatNext ==
  \/ \E a \in Atomic : Select(a)
  \/ Emit \/ Receive \/ Internal \/ Stop \/ Fail

FlatSpec == FlatInit /\ [][FlatNext]_flatVars

=============================================================================
