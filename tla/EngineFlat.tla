----------------------------- MODULE EngineFlat -----------------------------
(***************************************************************************)
(* The hierarchy of couplings simulates the flat model: Engine implements  *)
(* FlatDEVS.  The mapping reads the stack of calls: the inputs an event    *)
(* has still to reach are those to which the calls on it will lead.        *)
(***************************************************************************)
EXTENDS Engine, SequencesExt

CONSTANTS Leaves,   \* Leaves[m]: the atomic models in m
          Rank,     \* their order in the tree, first children first
          Reach,    \* Reach[m, p]: the atomic inputs that port p of m hands its input to
          Route,    \* Route[m, p]: those that the output of m at port p gets to
          None

(* The flat model of the tree. *)
ASSUME FlatAssumption ==
  /\ None \notin Atomic
  /\ \A a \in Atomic : Leaves[a] = {a} /\ Rank[a] \in Int
  /\ \A c \in Coupled :
       /\ Leaves[c] = UNION {Leaves[D[c][k]] : k \in Index(c)}
       /\ \A k, j \in Index(c) : k < j =>
            \A a \in Leaves[D[c][k]], b \in Leaves[D[c][j]] : Rank[a] < Rank[b]

(* The inputs that a choice of connections leads to. *)
Served(c, conns, which) ==
  FlattenSeq([i \in DOMAIN conns |->
    IF i \in which THEN Reach[D[c][conns[i].sink], conns[i].iport] ELSE <<>>])

Passed(c, which) ==
  FlattenSeq([i \in DOMAIN EOC[c] |->
    IF i \in which THEN Route[c, EOC[c][i].oport] ELSE <<>>])

(* Connections are followed in their order, inner ones before those that   *)
(* leave the coupling.                                                     *)
From(conns, k, p) == {i \in DOMAIN conns : conns[i].src = k /\ conns[i].sport = p}

ASSUME RouteAssumption == \A p \in Ports :
  /\ \A m \in Models : Reach[m, p] \in Seq(Atomic \X Ports)
  /\ \A m \in Models \ {Root} : Route[m, p] \in Seq(Atomic \X Ports)
  /\ \A a \in Atomic : Reach[a, p] = <<<<a, p>>>>
  /\ \A c \in Coupled :
       /\ Reach[c, p] = Served(c, EIC[c], {i \in DOMAIN EIC[c] : EIC[c][i].sport = p})
       /\ \A k \in Index(c) :
            Route[D[c][k], p] = Served(c, IC[c], From(IC[c], k, p)) \o Passed(c, From(EOC[c], k, p))

(* The atomic model that a call of lambda or dint to m leads to. *)
Leaf[m \in Models] == IF m \in Atomic THEN m ELSE Leaf[Child(m)]

(* The atomic inputs that the calls on a stack lead to, in order. *)
LeadsTo(o) ==
  CASE o.op = "ext" -> Reach[D[o.m][o.child], o.port]
    [] o.op = "eoc" -> Passed(o.m, {i \in From(EOC[o.m], tc[o.m], o.port) : i >= o.i})
    [] OTHER        -> <<>>

Inputs(calls) == FlattenSeq([j \in DOMAIN calls |-> LeadsTo(calls[j])])

Calls(ops) == \E j \in DOMAIN todo : todo[j].op \in ops

(* The rest of the flat state. *)
AtomicTn == [a \in Atomic |-> tn[a]]
Acting   == IF Calls({"lambda", "dint"}) THEN Leaf[Root] ELSE None
Sent     == Calls({"dint"}) /\ ~Calls({"lambda"})
Burst    == IF phase # "run" THEN 0 ELSE IF last = 0 THEN steps ELSE steps + 1

Flat == INSTANCE FlatDEVS WITH
  now <- at, tn <- AtomicTn, imm <- Acting, emitted <- Sent,
  pending <- Inputs(todo), burst <- Burst

ImplementsFlatDEVS == Flat!FlatSpec

=============================================================================
