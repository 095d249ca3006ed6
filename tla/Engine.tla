------------------------------- MODULE Engine -------------------------------
(***************************************************************************)
(* The hierarchical simulator of src/engine/common: RootSimulator::step,   *)
(* the messages of Simulator and the methods of Coupling that answer them. *)
(*                                                                         *)
(* The engine is one thread that runs nested calls.  A call that a coupled *)
(* model still has to make, or to return from, is an operation on the      *)
(* stack "todo"; each action takes the operation on top and replaces it by *)
(* the calls it makes, in the order it makes them.  An atomic model is     *)
(* whatever its author wrote: at each call it chooses an output, its next  *)
(* time advance, to abort the simulation or to throw.                      *)
(*                                                                         *)
(* The tournament tree of each Coupling is represented by its leaves, key, *)
(* and by the answer of next() for them (ChildHeap_proofs!Refinement).     *)
(***************************************************************************)
EXTENDS Integers, Sequences

CONSTANTS Atomic, Coupled,  \* the models
          Root,             \* mainCoupling
          D,                \* D[c] lists the children of c
          Level,            \* how many couplings hold a model
          IC, EIC, EOC,     \* IC[c], EIC[c], EOC[c] list the connections of c
          Ports,
          Sigmas,           \* what ta() returns; a negative one is invalid
          INF,              \* 1e20, the ta of a passive model
          Tf,               \* final time
          MaxSteps          \* maxSteps, the events allowed at one time

Models   == Atomic \cup Coupled
Index(c) == 1 .. Len(D[c])

ASSUME TreeAssumption ==
  /\ Root \in Coupled /\ Atomic \cap Coupled = {}
  /\ D \in [Coupled -> Seq(Models \ {Root})]
  /\ \A c \in Coupled : Len(D[c]) > 0
  /\ \A m \in Models \ {Root} : \E c \in Coupled : \E k \in Index(c) : D[c][k] = m
  /\ \A c, d \in Coupled : \A k \in Index(c), j \in Index(d) :
       D[c][k] = D[d][j] => c = d /\ k = j
  /\ Level \in [Models -> Nat]
  /\ \A c \in Coupled : \A k \in Index(c) : Level[D[c][k]] = Level[c] + 1

(* The tree ends: some model is as deep as any. *)
ASSUME DepthAssumption == \E d \in Models : \A m \in Models : Level[m] <= Level[d]

ASSUME ConnectionAssumption ==
  \A c \in Coupled :
    /\ IC[c] \in Seq([src : Index(c), sport : Ports, sink : Index(c), iport : Ports])
    /\ EIC[c] \in Seq([sport : Ports, sink : Index(c), iport : Ports])
    /\ EOC[c] \in Seq([src : Index(c), sport : Ports, oport : Ports])
    /\ c = Root => EOC[c] = <<>>

ASSUME TimeAssumption ==
  /\ Tf \in Nat /\ INF \in Nat /\ Tf < INF /\ MaxSteps \in Nat
  /\ Sigmas \subseteq Int

(* imessage(f, my, t) tells a model its father and its place there. *)
Father(m) == CHOOSE c \in Coupled : \E k \in Index(c) : D[c][k] = m
Myself(m) == CHOOSE k \in Index(Father(m)) : D[Father(m)][k] = m

(* t + ta: adding to 1e20 does not change it. *)
Plus(x, s) == IF s >= INF THEN INF ELSE x + s
Times      == 0 .. INF + Tf

VARIABLES t,      \* RootSimulator: time of the event under way
          at,     \* the time passed down with the calls under way
          tn,     \* tn[m]: time of the next internal transition of m
          tl,     \* tl[a]: time of the last transition of atomic a
          tc,     \* tc[c]: transitionChild
          key,    \* key[c][k]: time of child k in the heap of c
          todo,   \* the calls still to be made, next one first
          last, steps,   \* lastTransition, stepsCount
          abort,  \* abort_simulation
          phase   \* "run", "done" or "failed"

vars == <<t, at, tn, tl, tc, key, todo, last, steps, abort, phase>>

Lambda(m)     == [op |-> "lambda", m |-> m]
Ext(c, k, p)  == [op |-> "ext", m |-> c, child |-> k, port |-> p]
Eoc(c, p, i)  == [op |-> "eoc", m |-> c, port |-> p, i |-> i]
Dint(m)       == [op |-> "dint", m |-> m]
Ret(c, why)   == [op |-> "ret", m |-> c, why |-> why]  \* why: "ext" or "int"

(* heap.next() when the heap of c holds the times k. *)
IsFirst(k, i) == \A j \in DOMAIN k : k[i] < k[j] \/ (k[i] = k[j] /\ i <= j)
First(k)      == CHOOSE i \in DOMAIN k : IsFirst(k, i)
Child(c)      == D[c][tc[c]]

(* c is in order: its heap knows its children's times, and transitionChild *)
(* and tn are those of its first child.                                    *)
KeysKnown(c) == key[c] = [k \in Index(c) |-> tn[D[c][k]]]
Settled(c)   == tc[c] = First(key[c]) /\ tn[c] = key[c][tc[c]]
Synced       == \A c \in Coupled : KeysKnown(c) /\ Settled(c)

(* RootSimulator::init at ti = 0: imessage has reached every model.  The   *)
(* first ta() of a model is valid: tn has no value yet that could be kept. *)
Init ==
  /\ t = 0 /\ at = 0 /\ last = 0 /\ steps = 0 /\ todo = <<>>
  /\ abort = FALSE /\ phase = "run"
  /\ tn \in [Models -> {Plus(0, s) : s \in {v \in Sigmas : v >= 0}}]
  /\ tl = [a \in Atomic |-> 0]
  /\ key = [c \in Coupled |-> [k \in Index(c) |-> tn[D[c][k]]]]
  /\ tc = [c \in Coupled |-> First(key[c])]
  /\ Synced

(* RootSimulator::step. *)
Exit == phase' = "done" /\ UNCHANGED <<at, tn, tl, tc, key, todo, abort>>

(* Slip: the events at one time are not counted. *)
CountNothing ==
  /\ t' = tn[Root] /\ last' = t'
  /\ steps' = 0

CountStep ==
  /\ t' = tn[Root] /\ last' = t'
  /\ steps' = IF last = t' THEN steps + 1 ELSE 0

StepAborted ==
  /\ phase = "run" /\ todo = <<>> /\ abort
  /\ t' = tn[Root] /\ Exit
  /\ UNCHANGED <<last, steps>>

StepIllegitimate ==
  /\ phase = "run" /\ todo = <<>> /\ ~abort
  /\ CountStep /\ steps' > MaxSteps /\ Exit

StepPastEnd ==
  /\ phase = "run" /\ todo = <<>> /\ ~abort
  /\ CountStep /\ steps' <= MaxSteps /\ t' > Tf /\ Exit

StepEvent ==
  /\ phase = "run" /\ todo = <<>> /\ ~abort
  /\ CountStep /\ steps' <= MaxSteps /\ t' <= Tf
  /\ at' = t'
  /\ todo' = <<Lambda(Root), Dint(Root)>>
  /\ UNCHANGED <<tn, tl, tc, key, abort, phase>>

-----------------------------------------------------------------------------
(* The calls. *)
Calling(o) == phase = "run" /\ todo # <<>> /\ Head(todo).op = o
Then(ops)  == todo' = ops \o Tail(todo)
root       == <<t, last, steps, phase>>

(* The calls of dextmessage for the connections at the positions in which, *)
(* in their order; each call ends with its heap.update.                    *)
Serve(c, conns, which) ==
  LET serve[i \in Nat] ==
        IF i = 0 THEN <<>>
        ELSE IF i \in which
        THEN Append(serve[i - 1], Ext(c, conns[i].sink, conns[i].iport))
        ELSE serve[i - 1]
  IN  serve[Len(conns)]

(* Slip: the source port of a connection is not compared. *)
PropagateAnyPort(c, p) ==
  LET from == {i \in DOMAIN IC[c] : IC[c][i].src = tc[c]}
  IN  Serve(c, IC[c], from) \o <<Eoc(c, p, 1)>>

(* Coupling::propagate, up to the loop over EOC: the internal connections  *)
(* of the transition child are served first.                               *)
Propagate(c, p) ==
  LET from == {i \in DOMAIN IC[c] : IC[c][i].src = tc[c] /\ IC[c][i].sport = p}
  IN  Serve(c, IC[c], from) \o <<Eoc(c, p, 1)>>

(* Coupling::dext serves the input connections from a port. *)
Enter(c, p) == Serve(c, EIC[c], {i \in DOMAIN EIC[c] : EIC[c][i].sport = p})

(* Coupling::lambda; what it returns is always the null event. *)
LambdaCoupled ==
  /\ Calling("lambda") /\ Head(todo).m \in Coupled
  /\ Then(<<Lambda(Child(Head(todo).m))>>)
  /\ UNCHANGED <<at, tn, tl, tc, key, abort, root>>

(* lambda of an atomic model, and the propagation by its father of the     *)
(* event it returns unless that is null.                                   *)
LambdaAtomic ==
  /\ Calling("lambda") /\ Head(todo).m \in Atomic
  /\ \/ \E p \in Ports : Then(Propagate(Father(Head(todo).m), p))
     \/ Then(<<>>)
  /\ abort' \in {abort, TRUE}
  /\ UNCHANGED <<at, tn, tl, tc, key, root>>

(* One turn of the loop over EOC of Coupling::propagate. *)
EocTurn ==
  /\ Calling("eoc")
  /\ LET o == Head(todo)
         x == EOC[o.m][o.i]
     IN  IF o.i > Len(EOC[o.m]) THEN Then(<<>>)
         ELSE IF x.src = tc[o.m] /\ x.sport = o.port
         THEN Then(Propagate(Father(o.m), x.oport) \o <<Eoc(o.m, o.port, o.i + 1)>>)
         ELSE Then(<<Eoc(o.m, o.port, o.i + 1)>>)
  /\ UNCHANGED <<at, tn, tl, tc, key, abort, root>>

(* Slip: the new time advance counts from the last transition. *)
TransitionFromLast(a) ==
  /\ tl' = [tl EXCEPT ![a] = at]
  /\ \E s \in Sigmas : tn' = [tn EXCEPT ![a] = IF s >= 0 THEN Plus(tl[a], s) ELSE tn[a]]
  /\ abort' \in {abort, TRUE}

(* An atomic model has made a transition: tl, and tn unless ta is invalid. *)
Transition(a) ==
  /\ tl' = [tl EXCEPT ![a] = at]
  /\ \E s \in Sigmas : tn' = [tn EXCEPT ![a] = IF s >= 0 THEN Plus(at, s) ELSE tn[a]]
  /\ abort' \in {abort, TRUE}

(* Slip: the heap of the father is not told. *)
UpdateNothing(c, k) == key' = key

(* Slip: the update reaches the child after the one that was called. *)
UpdateNeighbour(c, k) ==
  LET j == IF k < Len(D[c]) THEN k + 1 ELSE k
  IN  key' = [key EXCEPT ![c][j] = tn'[D[c][j]]]

(* heap.update(k) in c, after the call to that child. *)
UpdateHeap(c, k) == key' = [key EXCEPT ![c][k] = tn'[D[c][k]]]

(* dextmessage to an atomic child. *)
ExtAtomic ==
  /\ Calling("ext")
  /\ LET o == Head(todo)
     IN  /\ D[o.m][o.child] \in Atomic
         /\ Transition(D[o.m][o.child])
         /\ UpdateHeap(o.m, o.child)
  /\ Then(<<>>)
  /\ UNCHANGED <<at, tc, root>>

(* dextmessage to a coupled child. *)
ExtCoupled ==
  /\ Calling("ext")
  /\ LET o == Head(todo)
         c == D[o.m][o.child]
     IN  /\ c \in Coupled
         /\ Then(Enter(c, o.port) \o <<Ret(c, "ext")>>)
  /\ UNCHANGED <<at, tn, tl, tc, key, abort, root>>

(* dintmessage.  The root's is called with the t of that moment. *)
DintCoupled ==
  /\ Calling("dint")
  /\ LET c == Head(todo).m
     IN  /\ c \in Coupled
         /\ at' = IF c = Root THEN t ELSE at
         /\ Then(<<Dint(Child(c)), Ret(c, "int")>>)
  /\ UNCHANGED <<tn, tl, tc, key, abort, root>>

(* Slip: the heap is updated at its first child, not at the one called. *)
DintUpdatesFirst ==
  /\ Calling("dint")
  /\ LET a == Head(todo).m
     IN  /\ a \in Atomic
         /\ Transition(a)
         /\ UpdateHeap(Father(a), First(key[Father(a)]))
  /\ Then(<<>>)
  /\ UNCHANGED <<at, tc, root>>

(* Coupling::dint of the father reads transitionChild again for the heap. *)
DintAtomic ==
  /\ Calling("dint")
  /\ LET a == Head(todo).m
     IN  /\ a \in Atomic
         /\ Transition(a)
         /\ UpdateHeap(Father(a), tc[Father(a)])
  /\ Then(<<>>)
  /\ UNCHANGED <<at, tc, root>>

(* Slip: after a call a coupled model keeps its transition child. *)
ReturnSameChild ==
  /\ Calling("ret")
  /\ LET c == Head(todo).m
     IN  /\ tn' = [tn EXCEPT ![c] = tn[Child(c)]]
         /\ IF c = Root THEN UNCHANGED key
            ELSE UpdateHeap(Father(c), IF Head(todo).why = "ext" THEN Myself(c)
                                       ELSE tc[Father(c)])
  /\ Then(<<>>)
  /\ UNCHANGED <<at, tl, tc, abort, root>>

(* The end of dextmessage or dintmessage to a coupled model: Coupling::ta  *)
(* looks for the next child, and the father updates its heap.              *)
Return ==
  /\ Calling("ret")
  /\ LET c == Head(todo).m
         k == First(key[c])
     IN  /\ tc' = [tc EXCEPT ![c] = k]
         /\ tn' = [tn EXCEPT ![c] = tn[D[c][k]]]
         /\ IF c = Root THEN UNCHANGED key
            ELSE UpdateHeap(Father(c), IF Head(todo).why = "ext" THEN Myself(c)
                                       ELSE tc[Father(c)])
  /\ Then(<<>>)
  /\ UNCHANGED <<at, tl, abort, root>>

(* A runtime_error leaves every call; step() calls exit and rethrows it. *)
InAtomic(o) == IF o.op = "ext" THEN D[o.m][o.child] \in Atomic
               ELSE o.op \in {"lambda", "dint"} /\ o.m \in Atomic

Throw ==
  /\ phase = "run" /\ todo # <<>> /\ InAtomic(Head(todo))
  /\ phase' = "failed" /\ todo' = <<>>
  /\ UNCHANGED <<t, at, tn, tl, tc, key, last, steps, abort>>

Next ==
  \/ StepAborted \/ StepIllegitimate \/ StepPastEnd \/ StepEvent
  \/ LambdaCoupled \/ LambdaAtomic \/ EocTurn
  \/ ExtAtomic \/ ExtCoupled
  \/ DintCoupled \/ DintAtomic \/ Return
  \/ Throw

Spec == Init /\ [][Next]_vars

(* run() calls step(1) until it answers true, in one thread. *)
FairSpec == Spec /\ WF_vars(Next)

-----------------------------------------------------------------------------
(* The types.  The stack holds calls to models of the tree only, for       *)
(* connections that exist.                                                 *)
Call ==
  [op : {"lambda", "dint"}, m : Models]
    \cup {o \in [op : {"ext"}, m : Coupled, child : Nat, port : Ports] :
             o.child \in Index(o.m)}
    \cup {o \in [op : {"eoc"}, m : Coupled, port : Ports, i : Nat] :
             o.i \in 1 .. Len(EOC[o.m]) + 1}
    \cup [op : {"ret"}, m : Coupled, why : {"ext", "int"}]

TypeOK ==
  /\ t \in Times /\ at \in 0 .. Tf /\ last \in Times
  /\ steps \in 0 .. MaxSteps + 1
  /\ tn \in [Models -> Times] /\ tl \in [Atomic -> 0 .. Tf]
  /\ \A c \in Coupled : tc[c] \in Index(c) /\ key[c] \in [Index(c) -> Times]
  /\ DOMAIN tc = Coupled /\ DOMAIN key = Coupled
  /\ todo \in Seq(Call)
  /\ abort \in BOOLEAN /\ phase \in {"run", "done", "failed"}
  /\ phase # "run" => todo = <<>>

(* Whenever step() returns, every coupled model has in transitionChild its *)
(* first child and in tn the time of that child, which its heap knows      *)
(* (coupling.h:84): what the next step() starts from.                      *)
TransitionChildIsFirst == (todo = <<>> /\ phase # "failed") => Synced

(* The atomic model a call is made to. *)
Called(o) == IF o.op = "ext" THEN D[o.m][o.child] ELSE o.m

(* Every call to an atomic model finds it between its last and its next    *)
(* transition: the elapsed time e is never negative and never goes past    *)
(* the time advance.                                                       *)
ElapsedTimeLegal ==
  (phase = "run" /\ todo # <<>> /\ InAtomic(Head(todo))) =>
    tl[Called(Head(todo))] <= at /\ at <= tn[Called(Head(todo))]

(* lambda is called on a model whose time has come, and no other is due    *)
(* before it.                                                              *)
ImminentFirst ==
  (phase = "run" /\ todo # <<>> /\ Head(todo).op = "lambda" /\ InAtomic(Head(todo))) =>
    /\ tn[Head(todo).m] = at
    /\ \A x \in Atomic : at <= tn[x]

(* The simulation never leaves an event behind and time never goes back.   *)
NothingMissed == phase = "run" => \A m \in Models : at <= tn[m]
(* The heaps follow every change of time at once, also in the middle of an *)
(* event: an update is never applied to another child than the one called. *)
HeapsKnowTimes == \A c \in Coupled : KeysKnown(c)

(* The simulation ends, also when models schedule event after event at one *)
(* time: this is what maxSteps is for.                                     *)
Terminates == <>(phase # "run")

=============================================================================
