---------------------------- MODULE Engine_proofs ----------------------------
(***************************************************************************)
(* Proofs about Engine for every tree of models, whatever the atomic       *)
(* models do: TypeOK, and that the heaps always know the times of their    *)
(* children (HeapsKnowTimes), also in the middle of an event.  For every   *)
(* tree in which no child of a coupling is connected to itself there:      *)
(* transition children are first children between events, lambda is called *)
(* on a model that is due and no other is due before it, no event is left  *)
(* behind, no elapsed time is illegal, and the hierarchy simulates the     *)
(* flat model.                                                             *)
(*                                                                         *)
(* About EngineRT, that the heaps know as well when messages arrive in the *)
(* middle of an event.                                                     *)
(***************************************************************************)
EXTENDS EngineRT, EngineFlat, SequenceTheorems, WellFoundedInduction, TLAPS

-----------------------------------------------------------------------------
(* Natural numbers. *)

(* Every non-empty set of natural numbers has a least element. *)
LEMMA LeastNatural ==
  ASSUME NEW T \in SUBSET Nat, T # {}
  PROVE  \E x \in T : \A y \in T : x <= y
<1>1. PICK x \in T : \A y \in T : ~(<<y, x>> \in OpToRel(<, Nat))
  BY WFMin, NatLessThanWellFounded, Zenon
<1>2. \A y \in T : y < x => <<y, x>> \in OpToRel(<, Nat)
  BY DEF OpToRel
<1>3. \A y \in T : ~(y < x)
  BY <1>1, <1>2, Zenon
<1> QED
  BY <1>3

(* Induction: a set that holds 0 and the successor of each of its natural  *)
(* numbers holds them all.                                                 *)
LEMMA InductiveSet ==
  ASSUME NEW T, 0 \in T, \A n \in Nat : n \in T => n + 1 \in T
  PROVE  Nat \subseteq T
<1> SUFFICES ASSUME Nat \ T # {}
             PROVE  FALSE
  OBVIOUS
<1>1. PICK x \in Nat \ T : \A y \in Nat \ T : x <= y
  BY LeastNatural
<1> QED
  BY <1>1

-----------------------------------------------------------------------------
(* The tree. *)

LEMMA TreeFacts ==
  /\ Root \in Coupled /\ Root \in Models
  /\ \A c \in Coupled : /\ Len(D[c]) \in Nat \ {0}
                        /\ \A k \in Index(c) : D[c][k] \in Models \ {Root}
BY TreeAssumption DEF Models, Index

(* A child has one father, and one place there. *)
LEMMA ChildFacts ==
  ASSUME NEW c \in Coupled, NEW k \in Index(c)
  PROVE  /\ D[c][k] \in Models \ {Root}
         /\ Father(D[c][k]) = c /\ Myself(D[c][k]) = k
         /\ Level[D[c][k]] = Level[c] + 1
<1> DEFINE m == D[c][k]
<1>1. m \in Models \ {Root} /\ Level[m] = Level[c] + 1
  BY TreeFacts, TreeAssumption
<1>2. \A d \in Coupled : \A j \in Index(d) : D[d][j] = m => d = c /\ j = k
  BY TreeAssumption
<1>3. Father(m) = c
  BY <1>2 DEF Father
<1>4. Myself(m) = k
  BY <1>2, <1>3 DEF Myself
<1> QED
  BY <1>1, <1>3, <1>4

LEMMA FatherFacts ==
  ASSUME NEW m \in Models, m # Root
  PROVE  /\ Father(m) \in Coupled
         /\ Myself(m) \in Index(Father(m)) /\ D[Father(m)][Myself(m)] = m
         /\ Level[m] = Level[Father(m)] + 1
<1>1. PICK c \in Coupled : \E k \in Index(c) : D[c][k] = m
  BY TreeAssumption
<1>2. PICK k \in Index(c) : D[c][k] = m
  BY <1>1
<1> QED
  BY <1>2, ChildFacts

LEMMA LevelType == \A m \in Models : Level[m] \in Nat
BY TreeAssumption

-----------------------------------------------------------------------------
(* The heap of a coupling has a first child: a nonempty list of integers   *)
(* has an earliest position with its least element.                        *)
LEMMA FirstExists ==
  ASSUME NEW n \in Nat \ {0}, NEW k \in [1 .. n -> Int]
  PROVE  First(k) \in 1 .. n /\ IsFirst(k, First(k))
<1> DEFINE Least(i, j) == \A x \in 1 .. j : k[i] < k[x] \/ (k[i] = k[x] /\ i <= x)
           T == {j \in Nat : j \in 1 .. n => \E i \in 1 .. j : Least(i, j)}
<1>1. 0 \in T
  OBVIOUS
<1>2. ASSUME NEW j \in Nat, j \in T
      PROVE  j + 1 \in T
  <2> SUFFICES ASSUME j + 1 \in 1 .. n
               PROVE  \E i \in 1 .. j + 1 : Least(i, j + 1)
    OBVIOUS
  <2>1. CASE j = 0
    <3>1. Least(1, 1)
      BY <2>1
    <3> QED
      BY <2>1, <3>1
  <2>2. CASE j # 0
    <3>1. PICK i \in 1 .. j : Least(i, j)
      BY <1>2, <2>2
    <3>2. CASE k[i] <= k[j + 1]
      <4>1. Least(i, j + 1)
        BY <3>1, <3>2
      <4> QED
        BY <4>1, SMTT(30)
    <3>3. CASE k[j + 1] < k[i]
      <4>1. Least(j + 1, j + 1)
        BY <3>1, <3>3, SMTT(30)
      <4> QED
        BY <4>1
    <3> QED
      BY <3>2, <3>3
  <2> QED
    BY <2>1, <2>2
<1>3. Nat \subseteq T
  <2> HIDE DEF T
  <2> QED
    BY <1>1, <1>2, InductiveSet
<1>4. PICK i \in 1 .. n : Least(i, n)
  <2>1. n \in T
    <3> HIDE DEF T
    <3> QED
      BY <1>3
  <2> QED
    BY <2>1
<1>5. DOMAIN k = 1 .. n
  OBVIOUS
<1>6. IsFirst(k, i)
  BY <1>4, <1>5 DEF IsFirst
<1> QED
  BY <1>5, <1>6 DEF First

-----------------------------------------------------------------------------
(* Serve returns calls for the connections chosen, and for children of c   *)
(* if the connections name such.                                           *)
ExtCalls(c) == [op : {"ext"}, m : {c}, child : Index(c), port : Ports]

Into(c, conns) == /\ Len(conns) \in Nat
                  /\ \A i \in 1 .. Len(conns) :
                       conns[i].sink \in Index(c) /\ conns[i].iport \in Ports

(* f[i] is what the first i of the connections add to the calls. *)
Serves(f, c, conns, which) ==
  /\ f[0] = <<>>
  /\ \A i \in Nat :
       f[i + 1] = IF i + 1 \in which
                  THEN Append(f[i], Ext(c, conns[i + 1].sink, conns[i + 1].iport))
                  ELSE f[i]

LEMMA ServeSteps ==
  ASSUME NEW c, NEW conns, NEW which
  PROVE  \E f : Serves(f, c, conns, which) /\ Serve(c, conns, which) = f[Len(conns)]
<1> DEFINE E(i)    == Ext(c, conns[i].sink, conns[i].iport)
           S       == {E(i) : i \in which}
           Eq(f, i) == f[i] = IF i = 0 THEN <<>>
                              ELSE IF i \in which THEN Append(f[i - 1], E(i))
                              ELSE f[i - 1]
           UpTo(n, f) == /\ f \in [0 .. n -> Seq(S)]
                         /\ \A i \in 0 .. n : Eq(f, i)
<1>1. \A i \in which : E(i) \in S
  OBVIOUS
<1> HIDE DEF E, S
<1>2. \A n \in Nat : \E f : UpTo(n, f)
  <2> DEFINE T == {n \in Nat : \E f : UpTo(n, f)}
  <2>1. 0 \in T
    <3>1. UpTo(0, [i \in 0 .. 0 |-> <<>>])
      OBVIOUS
    <3> QED
      BY <3>1
  <2>2. ASSUME NEW n \in Nat, n \in T
        PROVE  n + 1 \in T
    <3>1. PICK f : UpTo(n, f)
      BY <2>2
    <3> DEFINE v == IF n + 1 \in which THEN Append(f[n], E(n + 1)) ELSE f[n]
               g == [i \in 0 .. n + 1 |-> IF i = n + 1 THEN v ELSE f[i]]
    <3>2. f[n] \in Seq(S)
      BY <3>1
    <3>3. v \in Seq(S)
      BY <3>2, <1>1
    <3> HIDE DEF v
    <3>4. g \in [0 .. n + 1 -> Seq(S)]
      BY <3>1, <3>3
    <3>5. ASSUME NEW i \in 0 .. n
          PROVE  Eq(g, i)
      <4>1. Eq(f, i)
        BY <3>1
      <4>2. g[i] = f[i] /\ (i # 0 => g[i - 1] = f[i - 1])
        OBVIOUS
      <4> QED
        BY <4>1, <4>2
    <3>6. Eq(g, n + 1)
      <4>1. g[n + 1] = v /\ g[n] = f[n] /\ n + 1 # 0 /\ (n + 1) - 1 = n
        OBVIOUS
      <4> QED
        BY <4>1 DEF v
    <3>7. \A i \in 0 .. n + 1 : i \in 0 .. n \/ i = n + 1
      OBVIOUS
    <3>8. UpTo(n + 1, g)
      BY <3>4, <3>5, <3>6, <3>7
    <3> HIDE DEF g, UpTo
    <3>9. n + 1 \in Nat /\ \E h : UpTo(n + 1, h)
      BY <3>8
    <3> QED
      BY <3>9
  <2>3. Nat \subseteq T
    <3> HIDE DEF T
    <3> QED
      BY <2>1, <2>2, InductiveSet
  <2> QED
    BY <2>3
<1>3. ASSUME NEW m \in Nat, NEW n \in Nat, m <= n,
             NEW f, NEW g, UpTo(m, f), UpTo(n, g)
      PROVE  f[m] = g[m]
  <2> DEFINE T == {i \in Nat : i <= m => f[i] = g[i]}
  <2>1. 0 \in T
    BY <1>3
  <2>2. ASSUME NEW i \in Nat, i \in T
        PROVE  i + 1 \in T
    <3> SUFFICES ASSUME i + 1 <= m
                 PROVE  f[i + 1] = g[i + 1]
      OBVIOUS
    <3>1. f[i] = g[i]
      BY <2>2
    <3>2. i + 1 \in 0 .. m /\ i + 1 \in 0 .. n /\ i + 1 # 0 /\ (i + 1) - 1 = i
      BY <1>3
    <3>3. Eq(f, i + 1) /\ Eq(g, i + 1)
      BY <3>2, <1>3
    <3> QED
      BY <3>1, <3>2, <3>3
  <2>3. Nat \subseteq T
    <3> HIDE DEF T
    <3> QED
      BY <2>1, <2>2, InductiveSet
  <2> QED
    BY <2>3
<1> DEFINE Ch(n) == CHOOSE f : UpTo(n, f)
           F     == [n \in Nat |-> Ch(n)[n]]
<1>4. \A n \in Nat : UpTo(n, Ch(n))
  BY <1>2, Zenon
<1> HIDE DEF Ch
<1>5. F \in [Nat -> Seq(S)]
  BY <1>4
<1>6. ASSUME NEW n \in Nat
      PROVE  Eq(F, n)
  <2>1. CASE n = 0
    <3>1. UpTo(0, Ch(0))
      BY <1>4
    <3> QED
      BY <2>1, <3>1
  <2>2. CASE n # 0
    <3>1. UpTo(n, Ch(n)) /\ UpTo(n - 1, Ch(n - 1)) /\ n - 1 \in Nat /\ n - 1 <= n
      <4> HIDE DEF UpTo
      <4> QED
        BY <1>4, <2>2
    <3>2. Ch(n - 1)[n - 1] = Ch(n)[n - 1]
      <4> HIDE DEF UpTo
      <4> QED
        BY <3>1, <1>3
    <3>3. F[n] = Ch(n)[n] /\ F[n - 1] = Ch(n - 1)[n - 1]
      BY <3>1
    <3>4. Eq(Ch(n), n)
      <4> HIDE DEF Eq
      <4> QED
        BY <3>1
    <3> QED
      BY <3>2, <3>3, <3>4, <2>2
  <2> QED
    BY <2>1, <2>2
<1> HIDE DEF F
<1> DEFINE Fix(f) == f = [i \in Nat |->
                           IF i = 0 THEN <<>>
                           ELSE IF i \in which THEN Append(f[i - 1], E(i))
                           ELSE f[i - 1]]
           serve == CHOOSE f : Fix(f)
<1>7. Fix(F)
  <2>1. F = [n \in Nat |-> F[n]]
    BY <1>5
  <2> QED
    BY <1>6, <2>1
<1>8. Fix(serve)
  BY <1>7, Zenon
<1>9. Serve(c, conns, which) = serve[Len(conns)]
  BY Zenon DEF Serve, E
<1> HIDE DEF serve
<1>10. serve[0] = <<>>
  BY <1>8
<1>11. ASSUME NEW i \in Nat
       PROVE  serve[i + 1] = IF i + 1 \in which THEN Append(serve[i], E(i + 1)) ELSE serve[i]
  <2>1. i + 1 \in Nat /\ i + 1 # 0 /\ (i + 1) - 1 = i
    OBVIOUS
  <2> QED
    BY <1>8, <2>1
<1>12. Serves(serve, c, conns, which)
  BY <1>10, <1>11, Zenon DEF Serves, E
<1> QED
  BY <1>9, <1>12

LEMMA ServeCalls ==
  ASSUME NEW c, NEW conns, NEW which, Len(conns) \in Nat,
         NEW S, \A i \in which : Ext(c, conns[i].sink, conns[i].iport) \in S
  PROVE  Serve(c, conns, which) \in Seq(S)
<1>1. PICK f : Serves(f, c, conns, which) /\ Serve(c, conns, which) = f[Len(conns)]
  BY ServeSteps
<1> DEFINE E(i) == Ext(c, conns[i].sink, conns[i].iport)
           T    == {i \in Nat : f[i] \in Seq(S)}
<1>2. \A i \in which : E(i) \in S
  OBVIOUS
<1>3. f[0] = <<>> /\ \A i \in Nat : f[i + 1] = IF i + 1 \in which THEN Append(f[i], E(i + 1)) ELSE f[i]
  BY <1>1, Zenon DEF Serves
<1> HIDE DEF E
<1>4. 0 \in T
  <2>1. f[0] = <<>>
    BY <1>3, Zenon
  <2>2. f[0] \in Seq(S)
    BY <2>1
  <2> QED
    BY <2>2
<1>5. ASSUME NEW i \in Nat, i \in T
      PROVE  i + 1 \in T
  <2>1. f[i + 1] = IF i + 1 \in which THEN Append(f[i], E(i + 1)) ELSE f[i]
    BY <1>3
  <2>2. f[i] \in Seq(S)
    BY <1>5
  <2>3. f[i + 1] \in Seq(S)
    BY <1>2, <2>1, <2>2
  <2> QED
    BY <2>3
<1>6. Nat \subseteq T
  <2> HIDE DEF T
  <2> QED
    BY <1>4, <1>5, InductiveSet
<1> QED
  BY <1>1, <1>6

LEMMA ServeType ==
  ASSUME NEW c, NEW conns, NEW which, Into(c, conns), which \subseteq 1 .. Len(conns)
  PROVE  Serve(c, conns, which) \in Seq(ExtCalls(c))
<1>1. \A i \in which : Ext(c, conns[i].sink, conns[i].iport) \in ExtCalls(c)
  BY DEF Into, Ext, ExtCalls
<1>2. Len(conns) \in Nat
  BY DEF Into
<1> QED
  BY <1>1, <1>2, ServeCalls

-----------------------------------------------------------------------------
(* What the calls leave typed. *)

LEMMA ConnectionFacts ==
  ASSUME NEW c \in Coupled
  PROVE  /\ Into(c, IC[c]) /\ DOMAIN IC[c] = 1 .. Len(IC[c])
         /\ Into(c, EIC[c]) /\ DOMAIN EIC[c] = 1 .. Len(EIC[c])
         /\ Len(EOC[c]) \in Nat
         /\ \A i \in 1 .. Len(EOC[c]) : EOC[c][i].oport \in Ports
         /\ c = Root => EOC[c] = <<>>
<1> DEFINE Ins   == [src : Index(c), sport : Ports, sink : Index(c), iport : Ports]
           Downs == [sport : Ports, sink : Index(c), iport : Ports]
           Ups   == [src : Index(c), sport : Ports, oport : Ports]
<1>1. IC[c] \in Seq(Ins) /\ EIC[c] \in Seq(Downs) /\ EOC[c] \in Seq(Ups)
  BY ConnectionAssumption
<1>2. /\ \A x \in Ins : x.sink \in Index(c) /\ x.iport \in Ports
      /\ \A x \in Downs : x.sink \in Index(c) /\ x.iport \in Ports
      /\ \A x \in Ups : x.oport \in Ports
  OBVIOUS
<1> HIDE DEF Ins, Downs, Ups
<1>3. /\ Len(IC[c]) \in Nat /\ DOMAIN IC[c] = 1 .. Len(IC[c])
      /\ \A i \in 1 .. Len(IC[c]) : IC[c][i] \in Ins
  BY <1>1
<1>4. /\ Len(EIC[c]) \in Nat /\ DOMAIN EIC[c] = 1 .. Len(EIC[c])
      /\ \A i \in 1 .. Len(EIC[c]) : EIC[c][i] \in Downs
  BY <1>1
<1>5. Len(EOC[c]) \in Nat /\ \A i \in 1 .. Len(EOC[c]) : EOC[c][i] \in Ups
  BY <1>1
<1>6. Into(c, IC[c])
  BY <1>2, <1>3 DEF Into
<1>7. Into(c, EIC[c])
  BY <1>2, <1>4 DEF Into
<1>8. \A i \in 1 .. Len(EOC[c]) : EOC[c][i].oport \in Ports
  BY <1>2, <1>5
<1>9. c = Root => EOC[c] = <<>>
  BY ConnectionAssumption
<1> QED
  BY <1>3, <1>4, <1>5, <1>6, <1>7, <1>8, <1>9

(* A call of the engine's, and not a return from one. *)
Outer == {o \in Call : o.op \in {"lambda", "ext", "eoc"} \/ (o.op = "ret" /\ o.why = "ext")}

LEMMA CallTypes ==
  /\ Outer \subseteq Call
  /\ \A c \in Coupled : ExtCalls(c) \subseteq Outer
  /\ \A m \in Models : Lambda(m) \in Outer /\ Dint(m) \in Call
  /\ \A c \in Coupled : Ret(c, "ext") \in Outer /\ Ret(c, "int") \in Call
  /\ \A c \in Coupled, p \in Ports, i \in Nat :
       i \in 1 .. Len(EOC[c]) + 1 => Eoc(c, p, i) \in Outer
<1>1. Outer \subseteq Call
  BY DEF Outer
<1>2. ASSUME NEW c \in Coupled
      PROVE  ExtCalls(c) \subseteq Outer
  BY TreeFacts DEF ExtCalls, Outer, Call, Index
<1>3. ASSUME NEW m \in Models
      PROVE  Lambda(m) \in Outer /\ Dint(m) \in Call
  BY DEF Lambda, Dint, Outer, Call
<1>4. ASSUME NEW c \in Coupled
      PROVE  Ret(c, "ext") \in Outer /\ Ret(c, "int") \in Call
  BY DEF Ret, Outer, Call
<1>5. ASSUME NEW c \in Coupled, NEW p \in Ports, NEW i \in Nat,
             i \in 1 .. Len(EOC[c]) + 1
      PROVE  Eoc(c, p, i) \in Outer
  BY <1>5 DEF Eoc, Outer, Call
<1> QED
  BY <1>1, <1>2, <1>3, <1>4, <1>5

LEMMA SeqFacts ==
  ASSUME NEW S, NEW R, S \subseteq R
  PROVE  Seq(S) \subseteq Seq(R)
OBVIOUS

LEMMA PropagateType ==
  ASSUME NEW c \in Coupled, NEW p \in Ports
  PROVE  Propagate(c, p) \in Seq(Outer)
<1> DEFINE from == {i \in DOMAIN IC[c] : IC[c][i].src = tc[c] /\ IC[c][i].sport = p}
<1>0. Into(c, IC[c]) /\ DOMAIN IC[c] = 1 .. Len(IC[c])
  BY ConnectionFacts
<1>1. from \subseteq 1 .. Len(IC[c])
  BY <1>0
<1>2. Serve(c, IC[c], from) \in Seq(ExtCalls(c))
  <2> HIDE DEF from
  <2> QED
    BY <1>0, <1>1, ServeType
<1>3. Serve(c, IC[c], from) \in Seq(Outer)
  BY <1>2, CallTypes, SeqFacts, Zenon
<1>4. Eoc(c, p, 1) \in Outer
  BY CallTypes, ConnectionFacts
<1>5. Propagate(c, p) = Serve(c, IC[c], from) \o <<Eoc(c, p, 1)>>
  BY DEF Propagate
<1> HIDE DEF from
<1> QED
  BY <1>3, <1>4, <1>5

LEMMA EnterType ==
  ASSUME NEW c \in Coupled, NEW p \in Ports
  PROVE  Enter(c, p) \in Seq(Outer)
<1> DEFINE from == {i \in DOMAIN EIC[c] : EIC[c][i].sport = p}
<1>0. Into(c, EIC[c]) /\ DOMAIN EIC[c] = 1 .. Len(EIC[c])
  BY ConnectionFacts
<1>1. from \subseteq 1 .. Len(EIC[c])
  BY <1>0
<1>2. Serve(c, EIC[c], from) \in Seq(ExtCalls(c))
  <2> HIDE DEF from
  <2> QED
    BY <1>0, <1>1, ServeType
<1>3. Serve(c, EIC[c], from) \in Seq(Outer)
  BY <1>2, CallTypes, SeqFacts, Zenon
<1>4. Enter(c, p) = Serve(c, EIC[c], from)
  BY DEF Enter
<1> QED
  BY <1>3, <1>4

-----------------------------------------------------------------------------
(* Type correctness.  It is inductive with two more facts: an event is     *)
(* under way at a time that is not past the end, and the engine goes on    *)
(* only while the events at one time are few enough.                       *)

UnderWay == /\ todo # <<>> => t <= Tf
            /\ phase = "run" => steps <= MaxSteps

LEMMA OpTypes ==
  ASSUME NEW o \in Call
  PROVE  /\ o.op \in {"lambda", "dint"} => o.m \in Models
         /\ o.op = "ext" => o.m \in Coupled /\ o.child \in Index(o.m) /\ o.port \in Ports
         /\ o.op = "eoc" => /\ o.m \in Coupled /\ o.port \in Ports /\ o.i \in Nat
                            /\ o.i \in 1 .. Len(EOC[o.m]) + 1
         /\ o.op = "ret" => o.m \in Coupled /\ o.why \in {"ext", "int"}
BY DEF Call

LEMMA HeadTypes ==
  ASSUME TypeOK, NEW op, Calling(op)
  PROVE  /\ Head(todo) \in Call /\ Tail(todo) \in Seq(Call)
         /\ Head(todo).op = op /\ todo # <<>> /\ phase = "run"
BY HeadTailProperties DEF TypeOK, Calling

LEMMA ThenType ==
  ASSUME TypeOK, todo # <<>>, NEW ops \in Seq(Call), Then(ops)
  PROVE  todo' \in Seq(Call)
<1>1. todo \in Seq(Call)
  BY DEF TypeOK
<1>2. Tail(todo) \in Seq(Call)
  BY <1>1, HeadTailProperties
<1> QED
  BY <1>2 DEF Then

LEMMA TransitionType ==
  ASSUME TypeOK, NEW a \in Atomic, Transition(a)
  PROVE  /\ tn' \in [Models -> Times] /\ tl' \in [Atomic -> 0 .. Tf]
         /\ abort' \in BOOLEAN
         /\ \A m \in Models : m # a => tn'[m] = tn[m]
<1>1. a \in Models /\ at \in 0 .. Tf /\ tn \in [Models -> Times] /\ tl \in [Atomic -> 0 .. Tf]
      /\ abort \in BOOLEAN
  BY DEF TypeOK, Models
<1>2. PICK s \in Sigmas : tn' = [tn EXCEPT ![a] = IF s >= 0 THEN Plus(at, s) ELSE tn[a]]
  BY DEF Transition
<1>3. s >= 0 => Plus(at, s) \in Times
  BY <1>1, TimeAssumption DEF Plus, Times
<1>4. tn' \in [Models -> Times]
  BY <1>1, <1>2, <1>3
<1>5. \A m \in Models : m # a => tn'[m] = tn[m]
  BY <1>1, <1>2
<1>6. tl' \in [Atomic -> 0 .. Tf] /\ abort' \in BOOLEAN
  BY <1>1 DEF Transition
<1> QED
  BY <1>4, <1>5, <1>6

LEMMA UpdateType ==
  ASSUME TypeOK, tn' \in [Models -> Times],
         NEW c \in Coupled, NEW k \in Index(c), UpdateHeap(c, k)
  PROVE  /\ DOMAIN key' = Coupled
         /\ \A d \in Coupled : key'[d] \in [Index(d) -> Times]
         /\ \A d \in Coupled : d # c => key'[d] = key[d]
         /\ key'[c] = [key[c] EXCEPT ![k] = tn'[D[c][k]]]
<1>1. DOMAIN key = Coupled /\ \A d \in Coupled : key[d] \in [Index(d) -> Times]
  BY DEF TypeOK
<1>2. tn'[D[c][k]] \in Times
  BY TreeFacts
<1>3. key' = [key EXCEPT ![c][k] = tn'[D[c][k]]]
  BY DEF UpdateHeap
<1>4. DOMAIN key' = Coupled
  BY <1>1, <1>3
<1>5. key'[c] = [key[c] EXCEPT ![k] = tn'[D[c][k]]]
  BY <1>1, <1>3
<1>6. key'[c] \in [Index(c) -> Times]
  BY <1>1, <1>2, <1>5
<1>7. \A d \in Coupled : d # c => key'[d] = key[d]
  BY <1>1, <1>3
<1>8. \A d \in Coupled : key'[d] \in [Index(d) -> Times]
  BY <1>1, <1>6, <1>7
<1> QED
  BY <1>4, <1>5, <1>7, <1>8

(* The first child of a heap is a child, and its time is a time. *)
LEMMA FirstType ==
  ASSUME TypeOK, NEW c \in Coupled
  PROVE  First(key[c]) \in Index(c) /\ D[c][First(key[c])] \in Models
<1>1. key[c] \in [Index(c) -> Times]
  BY DEF TypeOK
<1>2. key[c] \in [1 .. Len(D[c]) -> Int]
  <2>1. Times \subseteq Int
    BY TimeAssumption DEF Times
  <2> QED
    BY <1>1, <2>1 DEF Index
<1>3. First(key[c]) \in Index(c)
  BY <1>2, TreeFacts, FirstExists DEF Index
<1> QED
  BY <1>3, TreeFacts

LEMMA TypeInit ==
  ASSUME Init
  PROVE  TypeOK /\ UnderWay
<1>1. \A s \in Sigmas : s >= 0 => Plus(0, s) \in Times
  BY TimeAssumption DEF Plus, Times
<1>2. tn \in [Models -> Times]
  BY <1>1 DEF Init
<1>3. \A c \in Coupled : key[c] \in [Index(c) -> Times]
  BY <1>2, TreeFacts DEF Init
<1>4. DOMAIN key = Coupled /\ DOMAIN tc = Coupled
  BY DEF Init
<1>5. Times \subseteq Int
  BY TimeAssumption DEF Times
<1>6. ASSUME NEW c \in Coupled
      PROVE  tc[c] \in Index(c)
  <2>1. key[c] \in [1 .. Len(D[c]) -> Int]
    BY <1>3, <1>5 DEF Index
  <2>2. First(key[c]) \in Index(c)
    BY <2>1, TreeFacts, FirstExists DEF Index
  <2> QED
    BY <2>2 DEF Init
<1>7. todo \in Seq(Call)
  BY DEF Init
<1>8. /\ t \in Times /\ at \in 0 .. Tf /\ last \in Times /\ steps \in 0 .. MaxSteps + 1
      /\ tl \in [Atomic -> 0 .. Tf]
  BY TimeAssumption DEF Init, Times
<1>9. abort \in BOOLEAN /\ phase \in {"run", "done", "failed"} /\ (phase # "run" => todo = <<>>)
  BY DEF Init
<1>10. UnderWay
  BY TimeAssumption DEF Init, UnderWay
<1> QED
  BY <1>2, <1>3, <1>4, <1>6, <1>7, <1>8, <1>9, <1>10 DEF TypeOK

(* The actions of RootSimulator::step. *)
LEMMA StepTypes ==
  ASSUME TypeOK, UnderWay,
         StepAborted \/ StepIllegitimate \/ StepPastEnd \/ StepEvent
  PROVE  TypeOK' /\ UnderWay'
<1>1. tn[Root] \in Times /\ steps \in 0 .. MaxSteps + 1 /\ t \in Times /\ last \in Times
  BY TreeFacts DEF TypeOK
<1>2. CASE StepAborted
  <2>1. t' \in Times
    BY <1>1, <1>2 DEF StepAborted
  <2> QED
    BY <1>2, <2>1 DEF TypeOK, UnderWay, StepAborted, Exit, Index
<1>3. CASE StepIllegitimate
  <2>1. /\ t' \in Times /\ last' \in Times /\ steps' \in 0 .. MaxSteps + 1
    BY <1>1, <1>3, TimeAssumption DEF StepIllegitimate, CountStep, UnderWay
  <2> QED
    BY <1>3, <2>1 DEF TypeOK, UnderWay, StepIllegitimate, Exit, Index
<1>4. CASE StepPastEnd
  <2>1. /\ t' \in Times /\ last' \in Times /\ steps' \in 0 .. MaxSteps + 1
    BY <1>1, <1>4, TimeAssumption DEF StepPastEnd, CountStep, UnderWay
  <2> QED
    BY <1>4, <2>1 DEF TypeOK, UnderWay, StepPastEnd, Exit, Index
<1>5. CASE StepEvent
  <2>1. /\ t' \in Times /\ last' \in Times /\ steps' \in 0 .. MaxSteps
    BY <1>1, <1>5, TimeAssumption DEF StepEvent, CountStep, UnderWay
  <2>2. t' \in 0 .. Tf /\ at' \in 0 .. Tf /\ t' <= Tf
    BY <2>1, <1>5, TimeAssumption DEF StepEvent, Times
  <2>3. Lambda(Root) \in Call /\ Dint(Root) \in Call
    BY TreeFacts, CallTypes
  <2>4. todo' \in Seq(Call)
    BY <2>3, <1>5 DEF StepEvent
  <2>5. steps' \in 0 .. MaxSteps + 1 /\ steps' <= MaxSteps
    BY <2>1, TimeAssumption
  <2>6. /\ tn' = tn /\ tl' = tl /\ tc' = tc /\ key' = key /\ abort' = abort
        /\ phase = "run" /\ phase' = phase
    BY <1>5 DEF StepEvent
  <2> QED
    BY <2>1, <2>2, <2>4, <2>5, <2>6 DEF TypeOK, UnderWay, Index
<1> QED
  BY <1>2, <1>3, <1>4, <1>5

(* The calls that take the place of one of the outputs are of the same kind.*)
LEMMA OuterCalls ==
  ASSUME TypeOK, LambdaCoupled \/ LambdaAtomic \/ EocTurn \/ ExtCoupled
  PROVE  \E ops \in Seq(Outer) : Then(ops)
<1> DEFINE o == Head(todo)
<1>1. <<>> \in Seq(Outer)
  OBVIOUS
<1>2. \A c \in Coupled : Child(c) \in Models
  BY TreeFacts DEF TypeOK, Child
<1>3. CASE LambdaCoupled
  <2>1. o.m \in Coupled /\ Then(<<Lambda(Child(o.m))>>)
    BY <1>3 DEF LambdaCoupled
  <2>2. Lambda(Child(o.m)) \in Outer
    BY <2>1, <1>2, CallTypes
  <2>3. <<Lambda(Child(o.m))>> \in Seq(Outer)
    BY <2>2
  <2> QED
    BY <2>1, <2>3
<1>4. CASE LambdaAtomic
  <2>1. PICK ops : /\ Then(ops)
                   /\ ops = <<>> \/ \E p \in Ports : ops = Propagate(Father(o.m), p)
    BY <1>4 DEF LambdaAtomic
  <2>2. Father(o.m) \in Coupled
    <3>1. o.m \in Models /\ o.m # Root
      BY <1>4, TreeFacts, TreeAssumption DEF LambdaAtomic, Models
    <3> QED
      BY <3>1, FatherFacts
  <2>3. \A p \in Ports : Propagate(Father(o.m), p) \in Seq(Outer)
    BY <2>2, PropagateType
  <2>4. ops \in Seq(Outer)
    BY <1>1, <2>1, <2>3, Zenon
  <2> QED
    BY <2>1, <2>4
<1>5. CASE EocTurn
  <2>1. /\ o \in Call /\ o.m \in Coupled /\ o.port \in Ports
        /\ o.i \in Nat /\ o.i \in 1 .. Len(EOC[o.m]) + 1
    BY <1>5, HeadTypes, OpTypes DEF EocTurn
  <2>2. /\ Len(EOC[o.m]) \in Nat
        /\ \A i \in 1 .. Len(EOC[o.m]) : EOC[o.m][i].oport \in Ports
        /\ o.m = Root => EOC[o.m] = <<>>
    BY <2>1, ConnectionFacts
  <2>3. CASE o.i > Len(EOC[o.m])
    <3>1. Then(<<>>)
      BY <1>5, <2>3 DEF EocTurn
    <3> QED
      BY <1>1, <3>1
  <2>4. CASE ~(o.i > Len(EOC[o.m]))
    <3>1. o.i \in 1 .. Len(EOC[o.m]) /\ o.i + 1 \in 1 .. Len(EOC[o.m]) + 1 /\ o.i + 1 \in Nat
      BY <2>1, <2>2, <2>4
    <3>2. Eoc(o.m, o.port, o.i + 1) \in Outer
      BY <2>1, <3>1, CallTypes
    <3>3. o.m # Root /\ o.m \in Models
      BY <2>1, <2>2, <3>1 DEF Models
    <3>4. Propagate(Father(o.m), EOC[o.m][o.i].oport) \in Seq(Outer)
      BY <2>2, <3>1, <3>3, FatherFacts, PropagateType
    <3> DEFINE one  == <<Eoc(o.m, o.port, o.i + 1)>>
               more == Propagate(Father(o.m), EOC[o.m][o.i].oport) \o one
    <3>5. one \in Seq(Outer)
      BY <3>2
    <3>6. more \in Seq(Outer)
      BY <3>4, <3>5
    <3>7. Then(more) \/ Then(one)
      BY <1>5, <2>4 DEF EocTurn
    <3> HIDE DEF one, more
    <3> QED
      BY <3>5, <3>6, <3>7
  <2> QED
    BY <2>3, <2>4
<1>6. CASE ExtCoupled
  <2>1. o \in Call /\ o.op = "ext"
    BY <1>6, HeadTypes DEF ExtCoupled
  <2>2. o.port \in Ports
    BY <2>1, OpTypes
  <2> DEFINE c   == D[o.m][o.child]
             ops == Enter(c, o.port) \o <<Ret(c, "ext")>>
  <2>3. c \in Coupled /\ Then(ops)
    BY <1>6 DEF ExtCoupled
  <2>4. Enter(c, o.port) \in Seq(Outer) /\ Ret(c, "ext") \in Outer
    BY <2>2, <2>3, EnterType, CallTypes
  <2>5. ops \in Seq(Outer)
    BY <2>4
  <2> HIDE DEF c, ops
  <2> QED
    BY <2>3, <2>5
<1> QED
  BY <1>3, <1>4, <1>5, <1>6

(* The actions that only make further calls. *)
LEMMA CallTypesKept ==
  ASSUME TypeOK, UnderWay,
         LambdaCoupled \/ LambdaAtomic \/ EocTurn \/ ExtCoupled \/ DintCoupled
  PROVE  TypeOK' /\ UnderWay'
<1>1. phase = "run" /\ todo # <<>> /\ t <= Tf
  BY DEF LambdaCoupled, LambdaAtomic, EocTurn, ExtCoupled, DintCoupled, Calling, UnderWay
<1>2. at \in 0 .. Tf /\ abort \in BOOLEAN /\ t \in 0 .. Tf
  BY <1>1, TimeAssumption DEF TypeOK, Times
<1>3. at' \in 0 .. Tf /\ abort' \in BOOLEAN /\ UNCHANGED <<tn, tl, tc, key, root>>
  BY <1>2 DEF LambdaCoupled, LambdaAtomic, EocTurn, ExtCoupled, DintCoupled
<1>4. todo' \in Seq(Call)
  <2>1. CASE DintCoupled
    <3> DEFINE c   == Head(todo).m
               ops == <<Dint(Child(c)), Ret(c, "int")>>
    <3>1. c \in Coupled /\ Then(ops)
      BY <2>1 DEF DintCoupled
    <3>2. Child(c) \in Models
      BY <3>1, TreeFacts DEF TypeOK, Child
    <3>3. Dint(Child(c)) \in Call /\ Ret(c, "int") \in Call
      BY <3>1, <3>2, CallTypes
    <3>4. ops \in Seq(Call)
      BY <3>3
    <3> HIDE DEF ops
    <3> QED
      BY <1>1, <3>1, <3>4, ThenType
  <2>2. CASE LambdaCoupled \/ LambdaAtomic \/ EocTurn \/ ExtCoupled
    <3>1. PICK ops \in Seq(Outer) : Then(ops)
      BY <2>2, OuterCalls
    <3>2. ops \in Seq(Call)
      BY <3>1, CallTypes, SeqFacts, Zenon
    <3> QED
      BY <1>1, <3>1, <3>2, ThenType
  <2> QED
    BY <2>1, <2>2
<1>5. /\ t' = t /\ last' = last /\ steps' = steps /\ phase' = phase
      /\ tn' = tn /\ tl' = tl /\ tc' = tc /\ key' = key
  BY <1>3 DEF root
<1> QED
  BY <1>1, <1>3, <1>4, <1>5 DEF TypeOK, UnderWay, Index

(* The actions that change times: a transition of an atomic model, and the *)
(* return from a coupled one.                                              *)
LEMMA TimeTypesKept ==
  ASSUME TypeOK, UnderWay, ExtAtomic \/ DintAtomic \/ Return \/ Throw
  PROVE  TypeOK' /\ UnderWay'
<1> DEFINE o == Head(todo)
<1>1. ASSUME tn' \in [Models -> Times], tl' \in [Atomic -> 0 .. Tf], abort' \in BOOLEAN,
             DOMAIN key' = Coupled, \A d \in Coupled : key'[d] \in [Index(d) -> Times],
             DOMAIN tc' = Coupled, \A d \in Coupled : tc'[d] \in Index(d),
             phase = "run", todo # <<>>, Then(<<>>), UNCHANGED <<at, root>>
      PROVE  TypeOK' /\ UnderWay'
  <2>1. todo' \in Seq(Call)
    <3>1. <<>> \in Seq(Call)
      OBVIOUS
    <3> QED
      BY <1>1, <3>1, ThenType
  <2>2. t' = t /\ at' = at /\ last' = last /\ steps' = steps /\ phase' = phase
    BY <1>1 DEF root
  <2> QED
    BY <1>1, <2>1, <2>2 DEF TypeOK, UnderWay, Index
<1>2. DOMAIN tc = Coupled /\ \A d \in Coupled : tc[d] \in Index(d)
  BY DEF TypeOK
<1>3. ASSUME NEW a \in Atomic, Transition(a),
             NEW c \in Coupled, NEW k \in Index(c), UpdateHeap(c, k),
             phase = "run", todo # <<>>, Then(<<>>), UNCHANGED <<at, tc, root>>
      PROVE  TypeOK' /\ UnderWay'
  <2>1. /\ tn' \in [Models -> Times] /\ tl' \in [Atomic -> 0 .. Tf] /\ abort' \in BOOLEAN
    BY <1>3, TransitionType
  <2>2. DOMAIN key' = Coupled /\ \A d \in Coupled : key'[d] \in [Index(d) -> Times]
    BY <1>3, <2>1, UpdateType
  <2>3. DOMAIN tc' = Coupled /\ \A d \in Coupled : tc'[d] \in Index(d)
    BY <1>2, <1>3
  <2> QED
    BY <1>1, <1>3, <2>1, <2>2, <2>3
<1>4. CASE ExtAtomic
  <2>1. o \in Call /\ o.op = "ext" /\ phase = "run" /\ todo # <<>>
    BY <1>4, HeadTypes DEF ExtAtomic
  <2>2. o.m \in Coupled /\ o.child \in Index(o.m)
    BY <2>1, OpTypes
  <2>3. /\ D[o.m][o.child] \in Atomic /\ Transition(D[o.m][o.child])
        /\ UpdateHeap(o.m, o.child) /\ Then(<<>>) /\ UNCHANGED <<at, tc, root>>
    BY <1>4 DEF ExtAtomic
  <2> QED
    BY <1>3, <2>1, <2>2, <2>3
<1>5. CASE DintAtomic
  <2>1. phase = "run" /\ todo # <<>>
    BY <1>5, HeadTypes DEF DintAtomic
  <2>2. /\ o.m \in Atomic /\ Transition(o.m) /\ UpdateHeap(Father(o.m), tc[Father(o.m)])
        /\ Then(<<>>) /\ UNCHANGED <<at, tc, root>>
    BY <1>5 DEF DintAtomic
  <2>3. Father(o.m) \in Coupled
    <3>1. o.m \in Models /\ o.m # Root
      BY <2>2, TreeAssumption DEF Models
    <3> QED
      BY <3>1, FatherFacts
  <2>4. tc[Father(o.m)] \in Index(Father(o.m))
    BY <2>3, <1>2
  <2> QED
    BY <1>3, <2>1, <2>2, <2>3, <2>4
<1>6. CASE Return
  <2> DEFINE c == o.m
             k == First(key[c])
             j == IF o.why = "ext" THEN Myself(c) ELSE tc[Father(c)]
  <2>1. o \in Call /\ o.op = "ret" /\ phase = "run" /\ todo # <<>>
    BY <1>6, HeadTypes DEF Return
  <2>2. c \in Coupled
    BY <2>1, OpTypes
  <2>3. k \in Index(c) /\ D[c][k] \in Models
    BY <2>2, FirstType
  <2>4. /\ tc' = [tc EXCEPT ![c] = k] /\ tn' = [tn EXCEPT ![c] = tn[D[c][k]]]
        /\ Then(<<>>) /\ tl' = tl /\ abort' = abort /\ UNCHANGED <<at, root>>
    BY <1>6 DEF Return
  <2>5. IF c = Root THEN key' = key ELSE UpdateHeap(Father(c), j)
    BY <1>6 DEF Return
  <2> HIDE DEF k, j
  <2>6. /\ tn \in [Models -> Times] /\ tl \in [Atomic -> 0 .. Tf] /\ abort \in BOOLEAN
        /\ DOMAIN key = Coupled /\ \A d \in Coupled : key[d] \in [Index(d) -> Times]
    BY DEF TypeOK
  <2>7. tn' \in [Models -> Times]
    BY <2>3, <2>4, <2>6
  <2>8. DOMAIN tc' = Coupled /\ \A d \in Coupled : tc'[d] \in Index(d)
    BY <1>2, <2>3, <2>4
  <2>9. DOMAIN key' = Coupled /\ \A d \in Coupled : key'[d] \in [Index(d) -> Times]
    <3>1. CASE c = Root
      BY <3>1, <2>5, <2>6
    <3>2. CASE c # Root
      <4>1. Father(c) \in Coupled /\ Myself(c) \in Index(Father(c))
        BY <2>2, <3>2, FatherFacts DEF Models
      <4>2. j \in Index(Father(c))
        BY <4>1, <1>2 DEF j
      <4>3. UpdateHeap(Father(c), j)
        BY <2>5, <3>2
      <4> QED
        BY <4>1, <4>2, <4>3, <2>7, UpdateType
    <3> QED
      BY <3>1, <3>2
  <2> QED
    BY <1>1, <2>1, <2>4, <2>6, <2>7, <2>8, <2>9
<1>7. CASE Throw
  <2>1. /\ todo' = <<>> /\ phase' = "failed" /\ <<>> \in Seq(Call)
        /\ UNCHANGED <<t, at, tn, tl, tc, key, last, steps, abort>>
    BY <1>7 DEF Throw
  <2> QED
    BY <2>1 DEF TypeOK, UnderWay, Index
<1> QED
  BY <1>4, <1>5, <1>6, <1>7

(* The state of the engine has its types: every call on the stack is to a  *)
(* model of the tree and for a connection that exists, every transition    *)
(* child is a child, and no time leaves the range.                         *)
THEOREM TypeCorrect == Spec => []TypeOK
<1>1. Init => TypeOK /\ UnderWay
  BY TypeInit
<1>2. TypeOK /\ UnderWay /\ [Next]_vars => TypeOK' /\ UnderWay'
  <2> SUFFICES ASSUME TypeOK, UnderWay, [Next]_vars
               PROVE  TypeOK' /\ UnderWay'
    OBVIOUS
  <2>1. CASE Next
    BY <2>1, StepTypes, CallTypesKept, TimeTypesKept DEF Next
  <2>2. CASE UNCHANGED vars
    BY <2>2 DEF vars, TypeOK, UnderWay, Index
  <2> QED
    BY <2>1, <2>2
<1> QED
  BY <1>1, <1>2, PTL DEF Spec

-----------------------------------------------------------------------------
(* The heaps always know.  After dint, Coupling reads transitionChild again*)
(* to tell its heap which child was called; this is the child it called    *)
(* because of the order of the calls.  First come those of the outputs     *)
(* (Outward): none of them is waiting to read a transition child.  Then    *)
(* come those of the internal transitions (Inward): the stack is one path  *)
(* of the tree up to the root, along the transition children, and a return *)
(* changes the transition child only at its lower end.                     *)

Internal(o) == o.op = "dint" \/ (o.op = "ret" /\ o.why = "int")

Outward ==
  /\ Len(todo) > 0
  /\ \A j \in 1 .. Len(todo) :
       IF j = Len(todo) THEN todo[j] = Dint(Root) ELSE todo[j] \in Outer

OnPath(s, first, j) ==
  /\ Internal(s[j]) /\ s[j].m \in Models
  /\ Level[s[j].m] + j = Level[s[1].m] + 1
  /\ j = Len(s) => s[j].m = Root
  /\ j < Len(s) => /\ s[j].m # Root
                   /\ s[j + 1] = Ret(Father(s[j].m), "int")
                   /\ D[Father(s[j].m)][first[Father(s[j].m)]] = s[j].m

Inward == \A j \in 1 .. Len(todo) : OnPath(todo, tc, j)

LEMMA NotBoth == \A o \in Outer : ~Internal(o)
BY DEF Outer, Internal

LEMMA DintInternal == \A m : Internal(Dint(m)) /\ Internal(Ret(m, "int"))
BY DEF Dint, Ret, Internal

(* An internal call on top is the top of a path. *)
LEMMA InternalInward ==
  ASSUME TypeOK, Outward \/ Inward, todo # <<>>, Internal(Head(todo))
  PROVE  Inward
<1>1. CASE Outward
  <2>1. Len(todo) \in Nat /\ Len(todo) > 0 /\ Head(todo) = todo[1]
    BY <1>1 DEF TypeOK, Outward
  <2>2. Len(todo) = 1
    BY <1>1, <2>1, NotBoth, SMTT(30) DEF Outward
  <2>3. todo[1] = Dint(Root)
    BY <1>1, <2>2 DEF Outward
  <2>4. todo[1].m = Root
    BY <2>3 DEF Dint
  <2>5. Root \in Models /\ Level[Root] \in Nat
    BY TreeFacts, LevelType
  <2> QED
    BY <2>2, <2>3, <2>4, <2>5, DintInternal DEF Inward, OnPath
<1> QED
  BY <1>1

(* A call of the outputs has more calls under it. *)
LEMMA OuterOutward ==
  ASSUME TypeOK, Outward \/ Inward, todo # <<>>, ~Internal(Head(todo))
  PROVE  Outward /\ Len(todo) > 1
<1>1. todo \in Seq(Call) /\ Len(todo) \in Nat /\ Len(todo) > 0 /\ Head(todo) = todo[1]
  BY DEF TypeOK
<1>2. Outward
  BY <1>1 DEF Inward, OnPath
<1>3. Len(todo) # 1
  BY <1>1, <1>2, DintInternal DEF Outward
<1>4. \A n \in Nat : n > 0 /\ n # 1 => n > 1
  OBVIOUS
<1>5. Len(todo) > 1
  BY <1>1, <1>3, <1>4, Zenon
<1> QED
  BY <1>2, <1>5

(* The calls that take the place of one of the outputs. *)
LEMMA OutwardKept ==
  ASSUME TypeOK, Outward, Len(todo) > 1, NEW ops \in Seq(Outer), Then(ops)
  PROVE  Outward'
<1>1. todo \in Seq(Call) /\ Len(todo) \in Nat
  BY DEF TypeOK
<1>2. Len(ops) \in Nat /\ \A j \in 1 .. Len(ops) : ops[j] \in Outer
  OBVIOUS
<1>3. /\ Tail(todo) \in Seq(Call) /\ Len(Tail(todo)) = Len(todo) - 1
      /\ \A j \in 1 .. Len(todo) - 1 : Tail(todo)[j] = todo[j + 1]
  BY <1>1
<1>4. /\ Len(todo') = Len(ops) + Len(todo) - 1
      /\ \A j \in 1 .. Len(todo') :
           todo'[j] = IF j <= Len(ops) THEN ops[j] ELSE Tail(todo)[j - Len(ops)]
  BY <1>1, <1>2, <1>3 DEF Then
<1>5. ASSUME NEW j \in 1 .. Len(todo')
      PROVE  IF j = Len(todo') THEN todo'[j] = Dint(Root) ELSE todo'[j] \in Outer
  <2>1. CASE j <= Len(ops)
    BY <1>1, <1>2, <1>4, <2>1
  <2>2. CASE j > Len(ops)
    <3>1. j - Len(ops) \in 1 .. Len(todo) - 1
      BY <1>1, <1>2, <1>4, <2>2
    <3>2. todo'[j] = todo[(j - Len(ops)) + 1]
      BY <1>2, <1>3, <1>4, <2>2, <3>1
    <3>3. (j - Len(ops)) + 1 \in 1 .. Len(todo)
      BY <1>1, <1>2, <3>1
    <3>4. (j - Len(ops)) + 1 = Len(todo) <=> j = Len(todo')
      BY <1>1, <1>2, <1>4
    <3> QED
      BY <3>2, <3>3, <3>4 DEF Outward
  <2> QED
    BY <1>2, <2>1, <2>2
<1>6. Len(todo') > 0
  BY <1>1, <1>2, <1>4
<1> QED
  BY <1>5, <1>6 DEF Outward

(* The lower end of the path is done: only its transition child may change.*)
LEMMA PathPop ==
  ASSUME NEW S, NEW s \in Seq(S), s # <<>>, NEW first, NEW new,
         \A j \in 1 .. Len(s) : OnPath(s, first, j),
         \A c \in Coupled : c # s[1].m => new[c] = first[c],
         NEW j \in 1 .. Len(Tail(s))
  PROVE  OnPath(Tail(s), new, j)
<1> DEFINE r == Tail(s)
           i == j + 1
           m == s[i].m
<1>1. Len(s) \in Nat /\ Len(s) >= 1
  OBVIOUS
<1>2. Len(r) = Len(s) - 1 /\ \A x \in 1 .. Len(s) - 1 : r[x] = s[x + 1]
  OBVIOUS
<1> HIDE DEF r
<1>3. /\ j \in Nat /\ j >= 1 /\ j <= Len(s) - 1
      /\ 1 \in 1 .. Len(s) /\ 2 \in 1 .. Len(s) /\ i \in 1 .. Len(s)
  BY <1>1, <1>2 DEF r
<1>4. r[j] = s[i] /\ r[1] = s[2]
  BY <1>2, <1>3
<1>5. OnPath(s, first, i) /\ OnPath(s, first, 1) /\ OnPath(s, first, 2)
  BY <1>3
<1>6. Internal(s[i]) /\ m \in Models /\ s[1].m \in Models /\ s[2].m \in Models
  BY <1>5 DEF OnPath
<1>7. Level[m] \in Nat /\ Level[s[1].m] \in Nat /\ Level[s[2].m] \in Nat
  BY <1>6, LevelType
<1>8. Level[m] + i = Level[s[1].m] + 1 /\ Level[s[2].m] + 2 = Level[s[1].m] + 1
  BY <1>5 DEF OnPath
<1>9. Level[m] + j = Level[s[2].m] + 1
  <2> DEFINE x == Level[m]
             y == Level[s[2].m]
             z == Level[s[1].m]
  <2>1. /\ x \in Nat /\ y \in Nat /\ z \in Nat /\ j \in Nat
        /\ x + (j + 1) = z + 1 /\ y + 2 = z + 1
    BY <1>3, <1>7, <1>8
  <2> HIDE DEF x, y, z
  <2>2. x + j = y + 1
    BY <2>1
  <2> QED
    BY <2>2 DEF x, y
<1>10. j = Len(r) => m = Root
  BY <1>1, <1>2, <1>3, <1>5 DEF OnPath
<1>11. ASSUME j < Len(r)
       PROVE  m # Root /\ r[j + 1] = Ret(Father(m), "int") /\ D[Father(m)][new[Father(m)]] = m
  <2>1. i < Len(s) /\ j + 1 \in 1 .. Len(s) - 1 /\ (j + 1) + 1 = i + 1
    BY <1>1, <1>2, <1>3, <1>11
  <2>2. /\ m # Root
        /\ s[i + 1] = Ret(Father(m), "int")
        /\ D[Father(m)][first[Father(m)]] = m
    BY <1>5, <2>1 DEF OnPath
  <2>3. Father(m) \in Coupled /\ Level[m] = Level[Father(m)] + 1
    BY <1>6, <2>2, FatherFacts
  <2>4. Father(m) \in Models
    BY <2>3 DEF Models
  <2>5. Level[Father(m)] \in Nat
    BY <2>4, LevelType
  <2>6. Father(m) # s[1].m
    BY <1>3, <1>7, <1>8, <2>3, <2>5
  <2>7. new[Father(m)] = first[Father(m)]
    BY <2>3, <2>6
  <2>8. r[j + 1] = s[i + 1]
    BY <1>2, <2>1
  <2> QED
    BY <2>2, <2>7, <2>8
<1>12. r[j].m = m
  BY <1>4
<1> HIDE DEF m, i
<1>13. /\ Internal(r[j]) /\ r[j].m \in Models
       /\ Level[r[j].m] + j = Level[r[1].m] + 1
  BY <1>4, <1>6, <1>9, <1>12
<1>14. OnPath(r, new, j)
  BY <1>10, <1>11, <1>12, <1>13 DEF OnPath
<1> QED
  BY <1>14 DEF r

(* The path grows by a transition child. *)
LEMMA PathPush ==
  ASSUME NEW S, NEW s \in Seq(S), s # <<>>, NEW first,
         \A x \in 1 .. Len(s) : OnPath(s, first, x),
         NEW c \in Coupled, c = s[1].m, first[c] \in Index(c),
         NEW r, r = <<Dint(D[c][first[c]]), Ret(c, "int")>> \o Tail(s),
         NEW j \in 1 .. Len(r)
  PROVE  OnPath(r, first, j)
<1> DEFINE ch == D[c][first[c]]
<1>1. Len(s) \in Nat /\ Len(s) >= 1
  OBVIOUS
<1>2. Tail(s) \in Seq(S) /\ Len(Tail(s)) = Len(s) - 1
      /\ \A x \in 1 .. Len(s) - 1 : Tail(s)[x] = s[x + 1]
  OBVIOUS
<1>3. /\ ch \in Models /\ ch # Root /\ Father(ch) = c /\ Level[ch] = Level[c] + 1
  BY ChildFacts
<1>4. Level[c] \in Nat /\ c \in Models
  BY LevelType DEF Models
<1> HIDE DEF ch
<1>5. r = <<Dint(ch), Ret(c, "int")>> \o Tail(s)
  BY DEF ch
<1>6. Len(r) = Len(s) + 1 /\ r[1] = Dint(ch) /\ r[2] = Ret(c, "int")
  BY <1>1, <1>2, <1>5
<1>7. \A x \in 3 .. Len(s) + 1 : r[x] = s[x - 1]
  <2> SUFFICES ASSUME NEW x \in 3 .. Len(s) + 1
               PROVE  r[x] = s[x - 1]
    OBVIOUS
  <2>1. x - 2 \in 1 .. Len(s) - 1 /\ (x - 2) + 1 = x - 1
    BY <1>1
  <2>2. r[x] = Tail(s)[x - 2]
    BY <1>1, <1>2, <1>5
  <2> QED
    BY <1>2, <2>1, <2>2
<1>8. r[1].m = ch /\ r[2].m = c /\ Internal(r[1]) /\ Internal(r[2])
  <2>1. Internal(r[1]) /\ Internal(r[2])
    BY <1>6, DintInternal
  <2> QED
    BY <1>6, <2>1 DEF Dint, Ret
<1>9. OnPath(s, first, 1)
  BY <1>1
<1>10. j \in Nat /\ j >= 1 /\ j <= Len(s) + 1
  BY <1>1, <1>6
<1>11. CASE j = 1
  <2>1. D[Father(ch)][first[Father(ch)]] = ch
    BY <1>3 DEF ch
  <2>2. Level[r[j].m] + j = Level[r[1].m] + 1 /\ ~(j = Len(r)) /\ j + 1 = 2
    BY <1>1, <1>6, <1>11
  <2>3. r[j + 1] = Ret(Father(r[j].m), "int")
    BY <1>3, <1>6, <1>8, <1>11, <2>2
  <2> QED
    BY <1>3, <1>8, <1>11, <2>1, <2>2, <2>3 DEF OnPath
<1>12. CASE j = 2
  <2>1. Level[r[j].m] + j = Level[r[1].m] + 1
    <3>1. Level[r[j].m] = Level[c] /\ Level[r[1].m] = Level[ch]
      BY <1>8, <1>12, Zenon
    <3>2. Level[ch] = Level[c] + 1 /\ Level[c] \in Nat
      BY <1>3, <1>4
    <3>3. \A x \in Nat : x + 2 = (x + 1) + 1
      OBVIOUS
    <3> QED
      BY <1>12, <3>1, <3>2, <3>3, Zenon
  <2>2. j = Len(r) => 1 = Len(s)
    <3>1. \A n \in Nat : 2 = n + 1 => 1 = n
      OBVIOUS
    <3> QED
      BY <1>1, <1>6, <1>12, <3>1, Zenon
  <2>3. j < Len(r) => 1 < Len(s) /\ 3 \in 3 .. Len(s) + 1 /\ j + 1 = 3 /\ 3 - 1 = 2 /\ 1 + 1 = 2
    BY <1>1, <1>6, <1>12
  <2>4. /\ 1 = Len(s) => c = Root
        /\ 1 < Len(s) => /\ c # Root /\ s[1 + 1] = Ret(Father(c), "int")
                         /\ D[Father(c)][first[Father(c)]] = c
    BY <1>9 DEF OnPath
  <2>5. j < Len(r) => r[j + 1] = s[1 + 1]
    BY <1>7, <2>3
  <2>6. r[j].m = c /\ Internal(r[j]) /\ c \in Models
    BY <1>4, <1>8, <1>12
  <2> QED
    BY <2>1, <2>2, <2>3, <2>4, <2>5, <2>6 DEF OnPath
<1>13. CASE j > 2
  <2> DEFINE i == j - 1
  <2>1. /\ i \in 1 .. Len(s) /\ i \in Nat /\ j = i + 1 /\ j \in 3 .. Len(s) + 1
        /\ j = Len(r) => i = Len(s)
        /\ j < Len(r) => i < Len(s) /\ j + 1 \in 3 .. Len(s) + 1 /\ (j + 1) - 1 = i + 1
    BY <1>1, <1>6, <1>10, <1>13
  <2>2. OnPath(s, first, i)
    BY <2>1
  <2>3. r[j] = s[i]
    BY <1>7, <2>1
  <2> HIDE DEF i
  <2>4. j < Len(r) => r[j + 1] = s[i + 1]
    BY <1>7, <2>1
  <2>5. s[i].m \in Models /\ Level[s[i].m] + i = Level[c] + 1
    BY <2>2 DEF OnPath
  <2>6. Level[s[i].m] \in Nat
    BY <2>5, LevelType
  <2>7. Level[r[j].m] + j = Level[r[1].m] + 1
    <3> DEFINE x == Level[s[i].m]
               y == Level[c]
    <3>1. x \in Nat /\ y \in Nat /\ i \in Nat /\ x + i = y + 1 /\ j = i + 1
      BY <1>4, <2>1, <2>5, <2>6
    <3>2. Level[r[j].m] = x /\ Level[r[1].m] = y + 1
      BY <1>3, <1>8, <2>3
    <3> HIDE DEF x, y
    <3>3. x + (i + 1) = (y + 1) + 1
      BY <3>1
    <3> QED
      BY <3>1, <3>2, <3>3
  <2> QED
    BY <2>1, <2>2, <2>3, <2>4, <2>7 DEF OnPath
<1> QED
  BY <1>10, <1>11, <1>12, <1>13

LEMMA InwardPop ==
  ASSUME TypeOK, Inward, todo # <<>>, Then(<<>>),
         \A c \in Coupled : c # Head(todo).m => tc'[c] = tc[c]
  PROVE  Inward'
<1>1. todo \in Seq(Call) /\ Head(todo) = todo[1]
  BY DEF TypeOK
<1>2. todo' = Tail(todo)
  <2>1. Tail(todo) \in Seq(Call)
    BY <1>1
  <2> QED
    BY <2>1 DEF Then
<1>3. ASSUME NEW j \in 1 .. Len(Tail(todo))
      PROVE  OnPath(Tail(todo), tc', j)
  BY <1>1, PathPop DEF Inward
<1> QED
  BY <1>2, <1>3 DEF Inward

LEMMA InwardPush ==
  ASSUME TypeOK, Inward, todo # <<>>, Head(todo).m \in Coupled, UNCHANGED tc,
         Then(<<Dint(Child(Head(todo).m)), Ret(Head(todo).m, "int")>>)
  PROVE  Inward'
<1> DEFINE c == Head(todo).m
<1>1. todo \in Seq(Call) /\ Head(todo) = todo[1] /\ tc[c] \in Index(c)
  BY DEF TypeOK
<1>2. todo' = <<Dint(D[c][tc[c]]), Ret(c, "int")>> \o Tail(todo)
  BY DEF Then, Child
<1>3. \A j \in 1 .. Len(todo') : OnPath(todo', tc, j)
  BY <1>1, <1>2, PathPush DEF Inward
<1> QED
  BY <1>3 DEF Inward


LEMMA StackKept ==
  ASSUME TypeOK, Outward \/ Inward, [Next]_vars
  PROVE  (Outward \/ Inward)'
<1>1. ASSUME todo' = <<>>
      PROVE  Inward'
  BY <1>1 DEF Inward
<1>2. CASE StepAborted \/ StepIllegitimate \/ StepPastEnd \/ Throw
  BY <1>1, <1>2 DEF StepAborted, StepIllegitimate, StepPastEnd, Throw, Exit
<1>3. CASE StepEvent
  <2>1. todo' = <<Lambda(Root), Dint(Root)>>
    BY <1>3 DEF StepEvent
  <2>2. Lambda(Root) \in Outer
    BY TreeFacts, CallTypes
  <2>3. Outward'
    BY <2>1, <2>2 DEF Outward
  <2> QED
    BY <2>3
<1>4. CASE LambdaCoupled \/ LambdaAtomic \/ EocTurn \/ ExtCoupled
  <2>1. todo # <<>> /\ Head(todo).op \in {"lambda", "eoc", "ext"}
    BY <1>4 DEF LambdaCoupled, LambdaAtomic, EocTurn, ExtCoupled, Calling
  <2>2. Outward /\ Len(todo) > 1
    BY <2>1, OuterOutward DEF Internal
  <2>3. PICK ops \in Seq(Outer) : Then(ops)
    BY <1>4, OuterCalls
  <2> QED
    BY <2>2, <2>3, OutwardKept
<1>5. CASE ExtAtomic
  <2>1. todo # <<>> /\ Head(todo).op = "ext" /\ Then(<<>>) /\ <<>> \in Seq(Outer)
    BY <1>5 DEF ExtAtomic, Calling
  <2>2. Outward /\ Len(todo) > 1
    BY <2>1, OuterOutward DEF Internal
  <2> QED
    BY <2>1, <2>2, OutwardKept
<1>6. CASE DintCoupled
  <2>1. todo # <<>> /\ Head(todo).op = "dint" /\ Head(todo).m \in Coupled /\ UNCHANGED tc
        /\ Then(<<Dint(Child(Head(todo).m)), Ret(Head(todo).m, "int")>>)
    BY <1>6 DEF DintCoupled, Calling
  <2>2. Inward
    BY <2>1, InternalInward DEF Internal
  <2> QED
    BY <2>1, <2>2, InwardPush
<1>7. CASE DintAtomic
  <2>1. todo # <<>> /\ Head(todo).op = "dint" /\ UNCHANGED tc /\ Then(<<>>)
    BY <1>7 DEF DintAtomic, Calling
  <2>2. Inward
    BY <2>1, InternalInward DEF Internal
  <2> QED
    BY <2>1, <2>2, InwardPop
<1>8. CASE Return
  <2>1. todo # <<>> /\ Head(todo) \in Call /\ Head(todo).op = "ret" /\ Then(<<>>)
    BY <1>8, HeadTypes DEF Return
  <2>2. Head(todo).why \in {"ext", "int"} /\ <<>> \in Seq(Outer)
    BY <2>1, OpTypes
  <2>3. CASE Head(todo).why = "ext"
    <3>1. Outward /\ Len(todo) > 1
      BY <2>1, <2>3, OuterOutward DEF Internal
    <3> QED
      BY <2>1, <2>2, <3>1, OutwardKept
  <2>4. CASE Head(todo).why = "int"
    <3>1. Inward
      BY <2>1, <2>4, InternalInward DEF Internal
    <3>2. \A c \in Coupled : c # Head(todo).m => tc'[c] = tc[c]
      BY <1>8 DEF Return, TypeOK
    <3> QED
      BY <2>1, <3>1, <3>2, InwardPop
  <2> QED
    BY <2>2, <2>3, <2>4
<1>9. CASE UNCHANGED vars
  BY <1>9 DEF vars, Outward, Inward
<1> QED
  BY <1>2, <1>3, <1>4, <1>5, <1>6, <1>7, <1>8, <1>9 DEF Next

(* A heap told at the place of the model whose time changed knows again.   *)
LEMMA UpdateKnows ==
  ASSUME TypeOK, HeapsKnowTimes, NEW m \in Models, m # Root,
         tn' \in [Models -> Times], \A x \in Models : x # m => tn'[x] = tn[x],
         UpdateHeap(Father(m), Myself(m))
  PROVE  HeapsKnowTimes'
<1>1. /\ Father(m) \in Coupled /\ Myself(m) \in Index(Father(m))
      /\ D[Father(m)][Myself(m)] = m
  BY FatherFacts
<1>2. /\ \A d \in Coupled : key'[d] \in [Index(d) -> Times]
      /\ \A d \in Coupled : d # Father(m) => key'[d] = key[d]
      /\ key'[Father(m)] = [key[Father(m)] EXCEPT ![Myself(m)] = tn'[m]]
  BY <1>1, UpdateType
<1>3. ASSUME NEW c \in Coupled, NEW k \in Index(c)
      PROVE  key'[c][k] = tn'[D[c][k]]
  <2>1. key[c] \in [Index(c) -> Times] /\ key[c][k] = tn[D[c][k]]
    BY DEF TypeOK, HeapsKnowTimes, KeysKnown
  <2>2. D[c][k] \in Models /\ Father(D[c][k]) = c /\ Myself(D[c][k]) = k
    BY ChildFacts
  <2>3. CASE D[c][k] = m
    BY <1>2, <2>1, <2>2, <2>3
  <2>4. CASE D[c][k] # m
    <3>1. tn'[D[c][k]] = tn[D[c][k]]
      BY <2>2, <2>4
    <3>2. c = Father(m) => k # Myself(m)
      BY <1>1, <2>4
    <3> QED
      BY <1>2, <2>1, <3>1, <3>2
  <2> QED
    BY <2>3, <2>4
<1>4. \A c \in Coupled : key'[c] = [k \in Index(c) |-> tn'[D[c][k]]]
  BY <1>2, <1>3
<1> QED
  BY <1>4 DEF HeapsKnowTimes, KeysKnown, Index

LEMMA KnowledgeKept ==
  ASSUME TypeOK, Outward \/ Inward, HeapsKnowTimes, [Next]_vars
  PROVE  HeapsKnowTimes'
<1>1. ASSUME UNCHANGED <<tn, key>>
      PROVE  HeapsKnowTimes'
  BY <1>1 DEF HeapsKnowTimes, KeysKnown, Index
<1>2. CASE \/ StepAborted \/ StepIllegitimate \/ StepPastEnd \/ StepEvent
           \/ LambdaCoupled \/ LambdaAtomic \/ EocTurn \/ ExtCoupled \/ DintCoupled
           \/ Throw \/ UNCHANGED vars
  BY <1>1, <1>2 DEF StepAborted, StepIllegitimate, StepPastEnd, StepEvent, Exit, LambdaCoupled,
                    LambdaAtomic, EocTurn, ExtCoupled, DintCoupled, Throw, vars
(* On a path the transition child is the child called. *)
<1>3. ASSUME NEW o, o = Head(todo), todo # <<>>, Internal(o), o.m # Root
      PROVE  tc[Father(o.m)] = Myself(o.m)
  <2>1. Inward /\ todo \in Seq(Call) /\ Len(todo) \in Nat /\ Len(todo) >= 1 /\ o = todo[1]
    BY <1>3, InternalInward DEF TypeOK
  <2>2. OnPath(todo, tc, 1)
    BY <2>1 DEF Inward
  <2>3. D[Father(o.m)][tc[Father(o.m)]] = o.m /\ o.m \in Models
    <3>1. /\ o.m \in Models
          /\ 1 = Len(todo) => o.m = Root
          /\ 1 < Len(todo) => D[Father(o.m)][tc[Father(o.m)]] = o.m
      BY <2>1, <2>2 DEF OnPath
    <3>2. \A n \in Nat : n >= 1 => 1 = n \/ 1 < n
      OBVIOUS
    <3>3. 1 < Len(todo)
      BY <1>3, <2>1, <3>1, <3>2
    <3> QED
      BY <3>1, <3>3
  <2>4. Father(o.m) \in Coupled
    BY <1>3, <2>3, FatherFacts
  <2>5. tc[Father(o.m)] \in Index(Father(o.m))
    BY <2>4 DEF TypeOK
  <2> QED
    BY <2>3, <2>4, <2>5, ChildFacts
<1>4. CASE ExtAtomic
  <2> DEFINE o == Head(todo)
             a == D[o.m][o.child]
  <2>1. o \in Call /\ o.op = "ext"
    BY <1>4, HeadTypes DEF ExtAtomic
  <2>2. o.m \in Coupled /\ o.child \in Index(o.m)
    BY <2>1, OpTypes
  <2>3. a \in Atomic /\ Transition(a) /\ UpdateHeap(o.m, o.child)
    BY <1>4 DEF ExtAtomic
  <2>4. a \in Models /\ a # Root /\ Father(a) = o.m /\ Myself(a) = o.child
    BY <2>2, ChildFacts
  <2> HIDE DEF a
  <2>5. tn' \in [Models -> Times] /\ \A x \in Models : x # a => tn'[x] = tn[x]
    BY <2>3, TransitionType
  <2>6. UpdateHeap(Father(a), Myself(a))
    BY <2>3, <2>4
  <2> QED
    BY <2>4, <2>5, <2>6, UpdateKnows
<1>5. CASE DintAtomic
  <2> DEFINE o == Head(todo)
  <2>1. /\ todo # <<>> /\ o.op = "dint" /\ o.m \in Atomic /\ Transition(o.m)
        /\ UpdateHeap(Father(o.m), tc[Father(o.m)])
    BY <1>5 DEF DintAtomic, Calling
  <2>2. o.m \in Models /\ o.m # Root
    BY <2>1, TreeAssumption DEF Models
  <2>3. tc[Father(o.m)] = Myself(o.m)
    BY <1>3, <2>1, <2>2 DEF Internal
  <2>4. tn' \in [Models -> Times] /\ \A x \in Models : x # o.m => tn'[x] = tn[x]
    BY <2>1, TransitionType
  <2>5. UpdateHeap(Father(o.m), Myself(o.m))
    BY <2>1, <2>3
  <2> QED
    BY <2>2, <2>4, <2>5, UpdateKnows
<1>6. CASE Return
  <2> DEFINE o == Head(todo)
             c == o.m
             k == First(key[c])
  <2>1. todo # <<>> /\ o \in Call /\ o.op = "ret"
    BY <1>6, HeadTypes DEF Return
  <2>2. c \in Coupled /\ c \in Models /\ o.why \in {"ext", "int"}
    BY <2>1, OpTypes DEF Models
  <2>3. D[c][k] \in Models
    BY <2>2, FirstType
  <2>4. tn' = [tn EXCEPT ![c] = tn[D[c][k]]]
    BY <1>6 DEF Return
  <2>5. IF c = Root THEN key' = key
        ELSE UpdateHeap(Father(c), IF o.why = "ext" THEN Myself(c) ELSE tc[Father(c)])
    BY <1>6 DEF Return
  <2>6. tn \in [Models -> Times]
    BY DEF TypeOK
  <2> HIDE DEF k
  <2>7. tn' \in [Models -> Times] /\ \A x \in Models : x # c => tn'[x] = tn[x]
    BY <2>3, <2>4, <2>6
  <2>8. CASE c = Root
    <3>1. \A d \in Coupled : \A j \in Index(d) : tn'[D[d][j]] = tn[D[d][j]]
      BY <2>7, <2>8, TreeFacts
    <3> QED
      BY <2>5, <2>8, <3>1 DEF HeapsKnowTimes, KeysKnown, Index
  <2>9. CASE c # Root
    <3>1. o.why = "int" => tc[Father(c)] = Myself(c)
      BY <1>3, <2>1, <2>9 DEF Internal
    <3>2. UpdateHeap(Father(c), Myself(c))
      BY <2>2, <2>5, <2>9, <3>1
    <3> QED
      BY <2>2, <2>7, <2>9, <3>2, UpdateKnows
  <2> QED
    BY <2>8, <2>9
<1> QED
  BY <1>2, <1>4, <1>5, <1>6 DEF Next

(* Every heap knows the times of its children after every call of the      *)
(* engine, so no update ever reaches another child than the one called.    *)
THEOREM HeapsAlwaysKnow == Spec => []HeapsKnowTimes
<1>1. Init => Inward /\ HeapsKnowTimes
  BY DEF Init, Inward, HeapsKnowTimes, KeysKnown
<1>2. TypeOK /\ (Outward \/ Inward) /\ HeapsKnowTimes /\ [Next]_vars
        => (Outward \/ Inward)' /\ HeapsKnowTimes'
  BY StackKept, KnowledgeKept
<1>3. Spec => []TypeOK
  BY TypeCorrect
<1> QED
  BY <1>1, <1>2, <1>3, PTL DEF Spec

-----------------------------------------------------------------------------
(* What the calls of an event leave to be done.  The couplings are in      *)
(* order between two events; during one they are not, and what follows     *)
(* says which are not and why each of them will be again:                  *)
(*   Descending  lambda goes down the transition children: all in order;   *)
(*   Outgoing    the outputs are served: a coupling out of order is on the *)
(*               path U that lambda took, or its return is on the stack;   *)
(*   Entering    dint goes down the same path, what it has passed is on    *)
(*               the stack;                                                *)
(*   Leaving     the returns settle the path from its lower end.           *)
(* No output may reach the path from the side, which is what NoSelfFeed is *)
(* for: without it a coupling gets a new transition child before dint has  *)
(* reached the old one.                                                    *)

(* No output of a coupled model, or of an atomic one, is an input of the   *)
(* same model again.                                                       *)
NoSelfFeed == \A c \in Coupled : \A i \in DOMAIN IC[c] : IC[c][i].src # IC[c][i].sink

(* U is a part of the path along the transition children, without a gap    *)
(* up to the model from.                                                   *)
PathFrom(U, from) ==
  /\ U \subseteq Coupled
  /\ \A c \in U : c = from \/ (c # Root /\ Father(c) \in U /\ Child(Father(c)) = c)

Returns(c, why) == \E j \in 1 .. Len(todo) : todo[j] = Ret(c, why)
ReturnsAfter(j, c) == \E i \in 1 .. Len(todo) : j < i /\ todo[i] = Ret(c, "ext")

Descending(U) ==
  /\ PathFrom(U, Root) /\ Synced
  /\ \E m \in Models :
       /\ todo = <<Lambda(m), Dint(Root)>> /\ tn[m] = at
       /\ m = Root \/ (Father(m) \in U /\ Child(Father(m)) = m)

Covered(U, j, c) == c \in U \/ ReturnsAfter(j, c)
LegalCall(U, j) ==
  LET o == todo[j] IN
    /\ o.op # "lambda"
    /\ o.op = "eoc" => o.m \in U
    /\ o.op = "ext" => Covered(U, j, o.m) /\ D[o.m][o.child] \notin U
    /\ o.op = "ret" => o.m \notin U /\ o.m # Root /\ Covered(U, j, Father(o.m))

Outgoing(U) ==
  /\ Outward /\ PathFrom(U, Root)
  /\ \A c \in Coupled \ U : Settled(c) \/ Returns(c, "ext")
  /\ \A j \in 1 .. Len(todo) : j < Len(todo) => LegalCall(U, j)

Entering(U) ==
  /\ Inward /\ todo # <<>> /\ Head(todo).op = "dint" /\ PathFrom(U, Head(todo).m)
  /\ \A c \in Coupled \ U : Settled(c) \/ Returns(c, "int")

Leaving ==
  /\ Inward /\ (todo # <<>> => Head(todo).op = "ret")
  /\ \A c \in Coupled : Settled(c) \/ Returns(c, "int")

CallInv == phase # "failed" =>
  Leaving \/ \E U \in SUBSET Coupled : Descending(U) \/ Outgoing(U) \/ Entering(U)

TimeInv == phase = "run" =>
  /\ \A m \in Models : at <= tn[m]
  /\ \A a \in Atomic : tl[a] <= at
  /\ todo # <<>> => at = t

-----------------------------------------------------------------------------
(* A path without its upper end is empty: the levels of its models would   *)
(* have no least one.                                                      *)
LEMMA PathEmpty ==
  ASSUME NEW U, NEW from, PathFrom(U, from), from \notin U
  PROVE  U = {}
<1> DEFINE L == {Level[c] : c \in U}
<1>1. U \subseteq Models
  BY DEF PathFrom, Models
<1>2. L \in SUBSET Nat
  BY <1>1, LevelType
<1> SUFFICES ASSUME U # {}
             PROVE  FALSE
  OBVIOUS
<1>3. L # {}
  OBVIOUS
<1>4. PICK l \in L : \A y \in L : l <= y
  <2> HIDE DEF L
  <2> QED
    BY <1>2, <1>3, LeastNatural
<1>5. PICK c \in U : l = Level[c]
  OBVIOUS
<1>6. c # Root /\ Father(c) \in U
  BY DEF PathFrom
<1>7. Level[c] = Level[Father(c)] + 1 /\ Level[Father(c)] \in Nat
  BY <1>1, <1>6, FatherFacts, LevelType
<1>8. l <= Level[Father(c)]
  BY <1>4, <1>6
<1> QED
  BY <1>5, <1>7, <1>8

(* A model on the path is the transition child of its father, by its place *)
(* there.                                                                  *)
LEMMA PathChild ==
  ASSUME TypeOK, NEW U, NEW from, PathFrom(U, from), NEW c \in Coupled, NEW k \in Index(c),
         D[c][k] \in U, D[c][k] # from
  PROVE  c \in U /\ k = tc[c]
<1>1. Father(D[c][k]) = c /\ Myself(D[c][k]) = k /\ tc[c] \in Index(c)
  BY ChildFacts DEF TypeOK
<1>2. c \in U /\ D[c][tc[c]] = D[c][k]
  BY <1>1 DEF PathFrom, Child
<1> QED
  BY <1>1, <1>2, ChildFacts

LEMMA PairFacts ==
  ASSUME NEW S, NEW x \in S, NEW y \in S
  PROVE  <<x>> \o <<y>> = <<x, y>>
<1> DEFINE s == <<x>> \o <<y>>
           r == <<x, y>>
<1>1. /\ <<x>> \in Seq(S) /\ Len(<<x>>) = 1 /\ <<x>>[1] = x
      /\ <<y>> \in Seq(S) /\ Len(<<y>>) = 1 /\ <<y>>[1] = y
  OBVIOUS
<1>2. s \in Seq(S) /\ Len(s) = 2 /\ s[1] = x /\ s[2] = y
  BY <1>1
<1>3. r \in Seq(S) /\ Len(r) = 2 /\ r[1] = x /\ r[2] = y
  OBVIOUS
<1> HIDE DEF s, r
<1>4. \A i \in 1 .. 2 : s[i] = r[i]
  BY <1>2, <1>3
<1>5. s = r
  BY <1>2, <1>3, <1>4, SeqEqual
<1> QED
  BY <1>5 DEF s, r

(* What becomes of the stack when ops take the place of the call on top.   *)
LEMMA StackShift ==
  ASSUME TypeOK, todo # <<>>, NEW ops \in Seq(Call), Then(ops)
  PROVE  LET n == Len(ops) IN
         /\ n \in Nat /\ Len(todo) \in Nat /\ Len(todo) >= 1
         /\ Head(todo) = todo[1]
         /\ Len(todo') = n + Len(todo) - 1
         /\ \A j \in 1 .. n : j \in 1 .. Len(todo') /\ todo'[j] = ops[j]
         /\ \A j \in 2 .. Len(todo) : j - 1 + n \in 1 .. Len(todo') /\ todo'[j - 1 + n] = todo[j]
         /\ \A i \in 1 .. Len(todo') :
              i > n => i - n + 1 \in 2 .. Len(todo) /\ todo'[i] = todo[i - n + 1]
<1>1. todo \in Seq(Call)
  BY DEF TypeOK
<1>2. /\ Len(todo) \in Nat /\ Len(todo) >= 1 /\ Head(todo) = todo[1]
      /\ Tail(todo) \in Seq(Call) /\ Len(Tail(todo)) = Len(todo) - 1
      /\ \A j \in 1 .. Len(todo) - 1 : Tail(todo)[j] = todo[j + 1]
  BY <1>1
<1>3. Len(ops) \in Nat
  OBVIOUS
<1>4. /\ Len(todo') = Len(ops) + Len(todo) - 1
      /\ \A j \in 1 .. Len(todo') :
           todo'[j] = IF j <= Len(ops) THEN ops[j] ELSE Tail(todo)[j - Len(ops)]
  BY <1>2, <1>3 DEF Then
<1>5. \A j \in 1 .. Len(ops) : j \in 1 .. Len(todo') /\ todo'[j] = ops[j]
  BY <1>2, <1>3, <1>4
<1>6. ASSUME NEW i \in 1 .. Len(todo'), i > Len(ops)
      PROVE  i - Len(ops) + 1 \in 2 .. Len(todo) /\ todo'[i] = todo[i - Len(ops) + 1]
  <2>1. i - Len(ops) \in 1 .. Len(todo) - 1
    BY <1>2, <1>3, <1>4, <1>6
  <2>2. todo'[i] = Tail(todo)[i - Len(ops)]
    BY <1>3, <1>4, <1>6
  <2> QED
    BY <1>2, <1>3, <2>1, <2>2
<1>7. ASSUME NEW j \in 2 .. Len(todo)
      PROVE  j - 1 + Len(ops) \in 1 .. Len(todo') /\ todo'[j - 1 + Len(ops)] = todo[j]
  <2>1. j - 1 + Len(ops) \in 1 .. Len(todo') /\ j - 1 + Len(ops) > Len(ops)
    BY <1>2, <1>3, <1>4
  <2>2. (j - 1 + Len(ops)) - Len(ops) + 1 = j
    BY <1>3
  <2> QED
    BY <1>6, <2>1, <2>2
<1> QED
  BY <1>2, <1>3, <1>4, <1>5, <1>6, <1>7

(* Returns below the top are still there after that. *)
LEMMA ReturnsKept ==
  ASSUME TypeOK, todo # <<>>, NEW ops \in Seq(Call), Then(ops), NEW c
  PROVE  /\ \A why : Returns(c, why) => Head(todo) = Ret(c, why) \/ Returns(c, why)'
         /\ \A j \in 2 .. Len(todo) : ReturnsAfter(j, c) => ReturnsAfter(j - 1 + Len(ops), c)'
         /\ ReturnsAfter(1, c) => /\ Returns(c, "ext")'
                                  /\ \A j \in 1 .. Len(ops) : ReturnsAfter(j, c)'
<1> DEFINE n == Len(ops)
<1>1. /\ n \in Nat /\ Len(todo) \in Nat /\ Len(todo) >= 1
      /\ Head(todo) = todo[1]
      /\ \A j \in 2 .. Len(todo) : j - 1 + n \in 1 .. Len(todo') /\ todo'[j - 1 + n] = todo[j]
  BY StackShift
<1> HIDE DEF n
<1>2. \A why : Returns(c, why) => Head(todo) = Ret(c, why) \/ Returns(c, why)'
  <2> SUFFICES ASSUME NEW why, NEW j \in 1 .. Len(todo), todo[j] = Ret(c, why), Head(todo) # Ret(c, why)
               PROVE  Returns(c, why)'
    BY DEF Returns
  <2>1. j \in 2 .. Len(todo)
    BY <1>1
  <2> QED
    BY <1>1, <2>1 DEF Returns
<1>3. ASSUME NEW j \in 2 .. Len(todo), ReturnsAfter(j, c)
      PROVE  ReturnsAfter(j - 1 + n, c)'
  <2>1. PICK i \in 1 .. Len(todo) : j < i /\ todo[i] = Ret(c, "ext")
    BY <1>3 DEF ReturnsAfter
  <2>2. i \in 2 .. Len(todo) /\ j - 1 + n < i - 1 + n
    BY <1>1, <2>1
  <2>3. i - 1 + n \in 1 .. Len(todo') /\ todo'[i - 1 + n] = Ret(c, "ext")
    BY <1>1, <2>1, <2>2
  <2> QED
    BY <2>2, <2>3 DEF ReturnsAfter
<1>4. ASSUME ReturnsAfter(1, c)
      PROVE  Returns(c, "ext")' /\ \A j \in 1 .. n : ReturnsAfter(j, c)'
  <2>1. PICK i \in 1 .. Len(todo) : 1 < i /\ todo[i] = Ret(c, "ext")
    BY <1>4 DEF ReturnsAfter
  <2>2. i \in 2 .. Len(todo) /\ \A j \in 1 .. n : j < i - 1 + n
    BY <1>1, <2>1
  <2>3. i - 1 + n \in 1 .. Len(todo') /\ todo'[i - 1 + n] = Ret(c, "ext")
    BY <1>1, <2>1, <2>2
  <2> QED
    BY <2>2, <2>3 DEF Returns, ReturnsAfter
<1> QED
  BY <1>2, <1>3, <1>4 DEF n

(* The calls made in place of one of the outputs keep the outputs in order *)
(* if they are in order themselves.                                        *)
LEMMA OutgoingKept ==
  ASSUME TypeOK, NEW U, Outward, Len(todo) > 1, PathFrom(U, Root),
         \A j \in 2 .. Len(todo) : j < Len(todo) => LegalCall(U, j),
         NEW ops \in Seq(Outer), Then(ops),
         \A c \in U : c # Root => Child(Father(c))' = Child(Father(c)),
         \A c \in Coupled \ U : Settled(c)' \/ Returns(c, "ext")',
         \A j \in 1 .. Len(ops) : LegalCall(U, j)'
  PROVE  Outgoing(U)'
<1> DEFINE n == Len(ops)
<1>1. ops \in Seq(Call) /\ todo # <<>>
  BY CallTypes, SeqFacts DEF Outward
<1>2. /\ n \in Nat /\ Len(todo) \in Nat /\ Len(todo') = n + Len(todo) - 1
      /\ \A i \in 1 .. Len(todo') :
           i > n => i - n + 1 \in 2 .. Len(todo) /\ todo'[i] = todo[i - n + 1]
  BY <1>1, StackShift
<1>3. \A c, j : j \in 2 .. Len(todo) /\ ReturnsAfter(j, c) => ReturnsAfter(j - 1 + n, c)'
  BY <1>1, ReturnsKept
<1> HIDE DEF n
<1>4. Outward'
  BY OutwardKept
<1>5. PathFrom(U, Root)'
  BY DEF PathFrom
<1>6. ASSUME NEW i \in 1 .. Len(todo'), i < Len(todo'), i > n
      PROVE  LegalCall(U, i)'
  <2> DEFINE j == i - n + 1
  <2>1. j \in 2 .. Len(todo) /\ todo'[i] = todo[j]
    BY <1>2, <1>6
  <2>2. j < Len(todo) /\ j - 1 + n = i
    BY <1>2, <1>6
  <2> HIDE DEF j
  <2>3. LegalCall(U, j)
    BY <2>1, <2>2
  <2>4. \A c : Covered(U, j, c) => Covered(U, i, c)'
    BY <1>3, <2>1, <2>2 DEF Covered
  <2> QED
    BY <2>1, <2>3, <2>4 DEF LegalCall
<1>7. \A i \in 1 .. Len(todo') : i > n \/ i \in 1 .. n
  BY <1>2
<1>8. \A i \in 1 .. Len(todo') : i < Len(todo') => LegalCall(U, i)'
  BY <1>6, <1>7 DEF n
<1> QED
  BY <1>4, <1>5, <1>8 DEF Outgoing

-----------------------------------------------------------------------------
(* What the calls do to the couplings that are in order. *)

LEMMA SettledKept ==
  ASSUME NEW c, Settled(c), tc'[c] = tc[c], key'[c] = key[c], tn'[c] = tn[c]
  PROVE  Settled(c)'
BY DEF Settled

LEMMA TransitionSettles ==
  ASSUME TypeOK, NEW a \in Atomic, Transition(a),
         NEW c \in Coupled, NEW k \in Index(c), UpdateHeap(c, k), UNCHANGED tc,
         NEW d \in Coupled, d # c, Settled(d)
  PROVE  Settled(d)'
<1>1. d \in Models /\ d # a
  BY TreeAssumption DEF Models
<1>2. tn'[d] = tn[d] /\ tn' \in [Models -> Times]
  BY <1>1, TransitionType
<1>3. key'[d] = key[d]
  BY <1>2, UpdateType
<1> QED
  BY <1>2, <1>3, SettledKept

LEMMA ReturnSettles ==
  ASSUME TypeOK, HeapsKnowTimes, Return, NEW c, c = Head(todo).m
  PROVE  /\ c \in Coupled /\ Settled(c)'
         /\ \A d \in Coupled : d # c => tc'[d] = tc[d]
         /\ \A d \in Coupled : d # c /\ (c # Root => d # Father(c)) /\ Settled(d) => Settled(d)'
<1> DEFINE k == First(key[c])
           j == IF Head(todo).why = "ext" THEN Myself(c) ELSE tc[Father(c)]
<1>1. Head(todo) \in Call /\ Head(todo).op = "ret"
  BY HeadTypes DEF Return
<1>2. c \in Coupled /\ c \in Models
  BY <1>1, OpTypes DEF Models
<1>3. k \in Index(c) /\ D[c][k] \in Models /\ D[c][k] # c
  <2>1. k \in Index(c) /\ D[c][k] \in Models
    BY <1>2, FirstType
  <2>2. Level[D[c][k]] = Level[c] + 1 /\ Level[c] \in Nat
    BY <1>2, <2>1, ChildFacts, LevelType
  <2> QED
    BY <2>1, <2>2
<1>4. /\ tc' = [tc EXCEPT ![c] = k] /\ tn' = [tn EXCEPT ![c] = tn[D[c][k]]]
      /\ IF c = Root THEN key' = key ELSE UpdateHeap(Father(c), j)
  BY DEF Return
<1>5. key[c][k] = tn[D[c][k]]
  <2> HIDE DEF k, j
  <2>1. KeysKnown(c)
    BY <1>2 DEF HeapsKnowTimes
  <2>2. key[c] = [x \in Index(c) |-> tn[D[c][x]]]
    BY <2>1 DEF KeysKnown
  <2> QED
    BY <1>3, <2>2
<1>6. k = First(key[c])
  OBVIOUS
<1>7. /\ tn \in [Models -> Times] /\ DOMAIN tc = Coupled
      /\ \A d \in Coupled : tc[d] \in Index(d)
  BY DEF TypeOK
<1> HIDE DEF k, j
<1>8. tn' \in [Models -> Times]
  BY <1>3, <1>4, <1>7
<1>9. \A d \in Coupled : d = c \/ (c # Root => d # Father(c)) => key'[d] = key[d]
  <2>1. CASE c = Root
    BY <1>4, <2>1
  <2>2. CASE c # Root
    <3>1. Father(c) \in Coupled /\ Myself(c) \in Index(Father(c)) /\ Level[c] = Level[Father(c)] + 1
      BY <1>2, <2>2, FatherFacts
    <3>2. Father(c) # c
      <4>1. Level[c] \in Nat
        BY <1>2, LevelType
      <4> QED
        BY <3>1, <4>1
    <3>3. j \in Index(Father(c))
      BY <1>7, <3>1 DEF j
    <3>4. \A d \in Coupled : d # Father(c) => key'[d] = key[d]
      BY <1>4, <1>8, <2>2, <3>1, <3>3, UpdateType
    <3> QED
      BY <2>2, <3>2, <3>4
  <2> QED
    BY <2>1, <2>2
<1>10. Settled(c)'
  <2>1. tc'[c] = k /\ tn'[c] = tn[D[c][k]] /\ key'[c] = key[c]
    BY <1>2, <1>4, <1>7, <1>9
  <2> QED
    BY <1>5, <1>6, <2>1 DEF Settled
<1>11. \A d \in Coupled : d # c => tc'[d] = tc[d] /\ tn'[d] = tn[d]
  BY <1>4, <1>7 DEF Models
<1>12. \A d \in Coupled : d # c /\ (c # Root => d # Father(c)) /\ Settled(d) => Settled(d)'
  BY <1>9, <1>11 DEF Settled
<1> QED
  BY <1>2, <1>10, <1>11, <1>12

(* What a model on the path sends goes to models off it, to its father's   *)
(* father, and so on: none of these calls is to a model on the path.       *)
Emitted(U) ==
  {o \in Outer : /\ o.op \in {"ext", "eoc"} /\ o.m \in U
                 /\ o.op = "ext" => D[o.m][o.child] \notin U}

LEMMA PropagateEmits ==
  ASSUME TypeOK, NoSelfFeed, NEW U \in SUBSET Coupled, PathFrom(U, Root),
         NEW c \in U, NEW p \in Ports
  PROVE  Propagate(c, p) \in Seq(Emitted(U))
<1> DEFINE from == {i \in DOMAIN IC[c] : IC[c][i].src = tc[c] /\ IC[c][i].sport = p}
<1>1. Len(IC[c]) \in Nat /\ DOMAIN IC[c] = 1 .. Len(IC[c]) /\ Into(c, IC[c])
  BY ConnectionFacts DEF Into
<1>2. ASSUME NEW i \in from
      PROVE  Ext(c, IC[c][i].sink, IC[c][i].iport) \in Emitted(U)
  <2> DEFINE k == IC[c][i].sink
             q == IC[c][i].iport
  <2>1. k \in Index(c) /\ q \in Ports
    BY <1>1 DEF Into
  <2>2. k # tc[c]
    BY DEF NoSelfFeed
  <2>3. D[c][k] # Root
    BY <2>1, ChildFacts
  <2> HIDE DEF k, q
  <2>4. D[c][k] \notin U
    BY <2>1, <2>2, <2>3, PathChild
  <2>5. Ext(c, k, q) \in ExtCalls(c)
    BY <2>1 DEF Ext, ExtCalls
  <2>6. Ext(c, k, q) \in Outer
    BY <2>5, CallTypes
  <2>7. Ext(c, k, q) \in Emitted(U)
    BY <2>4, <2>6 DEF Emitted, Ext
  <2> QED
    BY <2>7 DEF k, q
<1>3. Propagate(c, p) = Serve(c, IC[c], from) \o <<Eoc(c, p, 1)>>
  BY DEF Propagate
<1> HIDE DEF from
<1>4. Serve(c, IC[c], from) \in Seq(Emitted(U))
  BY <1>1, <1>2, ServeCalls
<1>5. Eoc(c, p, 1) \in Emitted(U)
  <2>1. Len(EOC[c]) \in Nat
    BY ConnectionFacts
  <2>2. 1 \in 1 .. Len(EOC[c]) + 1
    BY <2>1
  <2>3. Eoc(c, p, 1) \in Outer
    BY <2>2, CallTypes
  <2> QED
    BY <2>3 DEF Emitted, Eoc
<1> QED
  BY <1>3, <1>4, <1>5

LEMMA EnterCalls ==
  ASSUME NEW c \in Coupled, NEW p \in Ports
  PROVE  Enter(c, p) \in Seq(ExtCalls(c))
<1> DEFINE from == {i \in DOMAIN EIC[c] : EIC[c][i].sport = p}
<1>1. Into(c, EIC[c]) /\ from \subseteq 1 .. Len(EIC[c])
  BY ConnectionFacts
<1>2. Enter(c, p) = Serve(c, EIC[c], from)
  BY DEF Enter
<1> HIDE DEF from
<1> QED
  BY <1>1, <1>2, ServeType

LEMMA EmittedLegal ==
  ASSUME TypeOK, todo # <<>>, NEW U, NEW ops \in Seq(Emitted(U)), Then(ops)
  PROVE  ops \in Seq(Outer) /\ \A j \in 1 .. Len(ops) : LegalCall(U, j)'
<1>1. Emitted(U) \subseteq Outer
  BY DEF Emitted
<1>2. ops \in Seq(Outer)
  BY <1>1, SeqFacts
<1>3. ops \in Seq(Call)
  BY <1>2, CallTypes, SeqFacts
<1>4. ASSUME NEW j \in 1 .. Len(ops)
      PROVE  LegalCall(U, j)'
  <2>1. todo'[j] = ops[j]
    BY <1>3, StackShift
  <2>2. ops[j] \in Emitted(U)
    OBVIOUS
  <2> QED
    BY <2>1, <2>2 DEF Emitted, LegalCall, Covered
<1> QED
  BY <1>2, <1>4

-----------------------------------------------------------------------------
(* Which part of the event the call on top belongs to. *)

LEMMA StackForm ==
  ASSUME TypeOK, CallInv, phase # "failed"
  PROVE  Outward \/ Inward
<1>1. ASSUME NEW U, Descending(U)
      PROVE  Outward
  <2>1. PICK m \in Models : todo = <<Lambda(m), Dint(Root)>>
    BY <1>1 DEF Descending
  <2>2. Lambda(m) \in Outer
    BY CallTypes
  <2> QED
    BY <2>1, <2>2 DEF Outward
<1> QED
  BY <1>1 DEF CallInv, Leaving, Outgoing, Entering

LEMMA LambdaTurn ==
  ASSUME TypeOK, CallInv, Calling("lambda")
  PROVE  \E U \in SUBSET Coupled : Descending(U)
<1>1. todo # <<>> /\ Head(todo).op = "lambda" /\ phase = "run"
  BY DEF Calling
<1>2. /\ Len(todo) \in Nat /\ Len(todo) > 1 /\ Head(todo) = todo[1]
  BY <1>1, StackForm, OuterOutward DEF Internal, TypeOK
<1>3. ASSUME NEW U, Outgoing(U)
      PROVE  FALSE
  BY <1>1, <1>2, <1>3 DEF Outgoing, LegalCall
<1> QED
  BY <1>1, <1>3 DEF CallInv, Leaving, Entering

LEMMA OutgoingTop ==
  ASSUME TypeOK, phase = "run", todo # <<>>, ~Internal(Head(todo)), NEW U, Outgoing(U)
  PROVE  Len(todo) \in Nat /\ Len(todo) > 1 /\ Head(todo) = todo[1] /\ LegalCall(U, 1)
<1>1. Len(todo) \in Nat /\ Len(todo) > 1 /\ Head(todo) = todo[1]
  BY OuterOutward DEF TypeOK, Outgoing
<1> QED
  BY <1>1 DEF Outgoing

LEMMA OutputTurn ==
  ASSUME TypeOK, CallInv, phase = "run", todo # <<>>, ~Internal(Head(todo)),
         Head(todo).op # "lambda"
  PROVE  \E U \in SUBSET Coupled : Outgoing(U)
<1>1. Len(todo) \in Nat /\ Len(todo) > 1 /\ Head(todo) = todo[1]
  BY StackForm, OuterOutward DEF TypeOK
<1>2. ASSUME NEW U, Descending(U)
      PROVE  FALSE
  BY <1>2 DEF Descending, Lambda
<1>3. ~Leaving
  <2>1. Leaving => Internal(todo[1])
    BY <1>1 DEF Leaving, Inward, OnPath
  <2> QED
    BY <1>1, <2>1
<1>4. ASSUME NEW U, Entering(U)
      PROVE  FALSE
  BY <1>4 DEF Entering, Internal
<1> QED
  BY <1>2, <1>3, <1>4 DEF CallInv

(* The last of the calls of the outputs is the internal transition of the  *)
(* root; by then nothing is left to settle off the path.                   *)
LEMMA LastOutput ==
  ASSUME TypeOK, NEW U, Outgoing(U), Internal(Head(todo))
  PROVE  todo = <<Dint(Root)>>
<1>1. Len(todo) \in Nat /\ Len(todo) > 0 /\ Head(todo) = todo[1] /\ todo \in Seq(Call)
  BY DEF TypeOK, Outgoing, Outward
<1>0. Outward
  BY DEF Outgoing
<1>2. Len(todo) = 1
  <2>1. todo[1] \notin Outer
    BY <1>1, NotBoth
  <2>2. 1 \in 1 .. Len(todo)
    BY <1>1
  <2>3. 1 # Len(todo) => todo[1] \in Outer
    BY <1>0, <2>2 DEF Outward
  <2> QED
    BY <2>1, <2>3
<1>3. todo[1] = Dint(Root)
  BY <1>0, <1>1, <1>2 DEF Outward
<1> QED
  BY <1>1, <1>2, <1>3

LEMMA DintTurn ==
  ASSUME TypeOK, CallInv, Calling("dint")
  PROVE  \E U \in SUBSET Coupled : Entering(U)
<1>1. todo # <<>> /\ Head(todo).op = "dint" /\ phase = "run" /\ Internal(Head(todo))
  BY DEF Calling, Internal
<1>2. ASSUME NEW U, Descending(U)
      PROVE  FALSE
  BY <1>1, <1>2 DEF Descending, Lambda
<1>3. ASSUME NEW U, Outgoing(U)
      PROVE  Entering(U)
  <2>1. todo = <<Dint(Root)>>
    BY <1>1, <1>3, LastOutput
  <2>2. Head(todo).m = Root
    BY <2>1 DEF Dint
  <2>3. \A c : ~Returns(c, "ext")
    BY <2>1 DEF Returns, Dint, Ret
  <2>4. Inward
    BY <1>1, <1>3, InternalInward DEF Outgoing
  <2> QED
    BY <1>1, <1>3, <2>2, <2>3, <2>4 DEF Outgoing, Entering
<1> QED
  BY <1>1, <1>2, <1>3 DEF CallInv, Leaving

LEMMA ReturnTurn ==
  ASSUME TypeOK, CallInv, Calling("ret"), Head(todo).why = "int"
  PROVE  Leaving
<1>1. todo # <<>> /\ Head(todo).op = "ret" /\ phase = "run" /\ Internal(Head(todo))
  BY DEF Calling, Internal
<1>2. ASSUME NEW U, Descending(U)
      PROVE  FALSE
  BY <1>1, <1>2 DEF Descending, Lambda
<1>3. ASSUME NEW U, Outgoing(U)
      PROVE  FALSE
  <2>1. todo = <<Dint(Root)>>
    BY <1>1, <1>3, LastOutput
  <2> QED
    BY <1>1, <2>1 DEF Dint
<1> QED
  BY <1>1, <1>2, <1>3 DEF CallInv, Entering

(* Between two events nothing is left to settle. *)
LEMMA IdleSynced ==
  ASSUME CallInv, HeapsKnowTimes, todo = <<>>, phase # "failed"
  PROVE  Leaving /\ Synced
<1>1. Leaving
  BY DEF CallInv, Descending, Outgoing, Outward, Entering
<1>2. \A c : ~Returns(c, "int")
  BY DEF Returns
<1> QED
  BY <1>1, <1>2 DEF Leaving, Synced, HeapsKnowTimes

-----------------------------------------------------------------------------
(* The steps of an event. *)

LEMMA EventStep ==
  ASSUME TypeOK, Synced, StepEvent
  PROVE  Descending({})'
<1>1. todo' = <<Lambda(Root), Dint(Root)>> /\ tn' = tn /\ at' = tn[Root]
      /\ tc' = tc /\ key' = key
  BY DEF StepEvent, CountStep
<1>2. Synced'
  BY <1>1 DEF Synced, KeysKnown, Settled
<1>3. Root \in Models
  BY TreeFacts
<1> QED
  BY <1>1, <1>2, <1>3 DEF Descending, PathFrom

LEMMA LambdaStep ==
  ASSUME TypeOK, NEW U \in SUBSET Coupled, Descending(U), LambdaCoupled
  PROVE  \E V \in SUBSET Coupled : Descending(V)'
<1>1. PICK m \in Models : /\ todo = <<Lambda(m), Dint(Root)>> /\ tn[m] = at
                          /\ m = Root \/ (Father(m) \in U /\ Child(Father(m)) = m)
  BY DEF Descending
<1>2. Head(todo).m = m /\ Tail(todo) = <<Dint(Root)>>
  BY <1>1 DEF Lambda
<1> DEFINE c == Child(m)
           V == U \cup {m}
<1>3. m \in Coupled /\ todo' = <<Lambda(c)>> \o Tail(todo)
      /\ tc' = tc /\ tn' = tn /\ key' = key /\ at' = at
  BY <1>2 DEF LambdaCoupled, Then
<1>4. tc[m] \in Index(m) /\ c = D[m][tc[m]]
  BY <1>3 DEF TypeOK, Child
<1>5. c \in Models /\ Father(c) = m
  BY <1>3, <1>4, ChildFacts
<1>6. tn[c] = at
  <2>1. KeysKnown(m) /\ Settled(m)
    BY <1>3 DEF Descending, Synced
  <2>2. key[m] = [x \in Index(m) |-> tn[D[m][x]]] /\ tn[m] = key[m][tc[m]]
    BY <2>1 DEF KeysKnown, Settled
  <2> QED
    BY <1>1, <1>4, <2>2
<1>7. todo' = <<Lambda(c), Dint(Root)>>
  <2>1. Lambda(c) \in Call /\ Dint(Root) \in Call
    BY <1>5, TreeFacts, CallTypes
  <2>2. <<Lambda(c)>> \o <<Dint(Root)>> = <<Lambda(c), Dint(Root)>>
    BY <2>1, PairFacts
  <2> QED
    BY <1>2, <1>3, <2>2, Zenon
<1>8. Synced'
  BY <1>3 DEF Descending, Synced, KeysKnown, Settled
<1>9. V \in SUBSET Coupled /\ m \in V
  BY <1>3
<1>10. PathFrom(V, Root)
  BY <1>1, <1>3 DEF Descending, PathFrom
<1> HIDE DEF V
<1>11. PathFrom(V, Root)'
  BY <1>3, <1>10 DEF PathFrom, Child
<1>12. Child(m)' = c
  BY <1>3 DEF Child
<1> HIDE DEF c
<1>13. Descending(V)'
  BY <1>3, <1>5, <1>6, <1>7, <1>8, <1>9, <1>11, <1>12 DEF Descending
<1> QED
  BY <1>9, <1>13

LEMMA OutputStep ==
  ASSUME TypeOK, NoSelfFeed, NEW U \in SUBSET Coupled, Descending(U), LambdaAtomic
  PROVE  Outgoing(U)'
<1>1. PICK m \in Models : /\ todo = <<Lambda(m), Dint(Root)>>
                          /\ m = Root \/ (Father(m) \in U /\ Child(Father(m)) = m)
  BY DEF Descending
<1>2. Head(todo).m = m /\ todo # <<>> /\ Len(todo) = 2
  BY <1>1 DEF Lambda
<1>3. PathFrom(U, Root) /\ Synced
  BY DEF Descending
<1>4. m \in Atomic /\ m # Root /\ Father(m) \in U
  BY <1>1, <1>2, TreeAssumption, SMTT(30) DEF LambdaAtomic
<1>5. PICK ops \in Seq(Emitted(U)) : Then(ops)
  <2>1. <<>> \in Seq(Emitted(U))
    OBVIOUS
  <2>2. \A p \in Ports : Propagate(Father(m), p) \in Seq(Emitted(U))
    BY <1>3, <1>4, PropagateEmits
  <2> QED
    BY <1>2, <2>1, <2>2 DEF LambdaAtomic
<1>6. ops \in Seq(Outer) /\ \A j \in 1 .. Len(ops) : LegalCall(U, j)'
  BY <1>2, <1>5, EmittedLegal
<1>7. tc' = tc /\ tn' = tn /\ key' = key
  BY DEF LambdaAtomic
<1>8. \A c \in Coupled : Settled(c)'
  BY <1>3, <1>7 DEF Synced, Settled
<1>9. \A c \in U : c # Root => Child(Father(c))' = Child(Father(c))
  BY <1>7 DEF Child
<1>10. Outward
  <2>1. Lambda(m) \in Outer
    BY CallTypes
  <2> QED
    BY <1>1, <2>1 DEF Outward
<1>11. \A j \in 2 .. Len(todo) : j < Len(todo) => LegalCall(U, j)
  BY <1>2
<1>12. Len(todo) > 1
  BY <1>2
<1> QED
  BY <1>3, <1>5, <1>6, <1>8, <1>9, <1>10, <1>11, <1>12, OutgoingKept

(* One turn over the output connections: the event goes to the father of a *)
(* model on the path, which is on the path too.                            *)
LEMMA EocStep ==
  ASSUME TypeOK, NEW U \in SUBSET Coupled, Outgoing(U), NoSelfFeed, EocTurn
  PROVE  Outgoing(U)'
<1> DEFINE o == Head(todo)
<1>1. /\ todo # <<>> /\ phase = "run" /\ o \in Call /\ o.op = "eoc" /\ ~Internal(o)
  BY HeadTypes DEF EocTurn, Internal
<1>2. /\ o.m \in Coupled /\ o.port \in Ports /\ o.i \in Nat
      /\ o.i \in 1 .. Len(EOC[o.m]) + 1
  BY <1>1, OpTypes
<1>3. Outgoing(U) /\ Len(todo) \in Nat /\ Len(todo) > 1 /\ Head(todo) = todo[1]
      /\ LegalCall(U, 1)
  BY <1>1, OutgoingTop
<1>4. o.m \in U /\ PathFrom(U, Root) /\ Outward
  BY <1>1, <1>3 DEF LegalCall, Outgoing
<1>5. PICK ops \in Seq(Emitted(U)) : Then(ops)
  <2>1. CASE o.i > Len(EOC[o.m])
    <3>1. Then(<<>>) /\ <<>> \in Seq(Emitted(U))
      BY <2>1 DEF EocTurn
    <3> QED
      BY <3>1
  <2>2. CASE ~(o.i > Len(EOC[o.m]))
    <3>1. /\ Len(EOC[o.m]) \in Nat
          /\ \A i \in 1 .. Len(EOC[o.m]) : EOC[o.m][i].oport \in Ports
          /\ o.m = Root => EOC[o.m] = <<>>
      BY <1>2, ConnectionFacts
    <3>2. o.i \in 1 .. Len(EOC[o.m]) /\ o.i + 1 \in 1 .. Len(EOC[o.m]) + 1 /\ o.i + 1 \in Nat
      BY <1>2, <2>2, <3>1
    <3>3. o.m # Root
      BY <3>1, <3>2
    <3>4. Father(o.m) \in U
      BY <1>4, <3>3 DEF PathFrom
    <3> DEFINE one  == <<Eoc(o.m, o.port, o.i + 1)>>
               more == Propagate(Father(o.m), EOC[o.m][o.i].oport) \o one
    <3>5. Propagate(Father(o.m), EOC[o.m][o.i].oport) \in Seq(Emitted(U))
      BY <1>4, <3>1, <3>2, <3>4, PropagateEmits
    <3>6. Eoc(o.m, o.port, o.i + 1) \in Emitted(U)
      <4>1. Eoc(o.m, o.port, o.i + 1) \in Outer
        BY <1>2, <3>2, CallTypes
      <4> QED
        BY <1>4, <4>1 DEF Emitted, Eoc
    <3>7. one \in Seq(Emitted(U))
      BY <3>6
    <3>8. more \in Seq(Emitted(U))
      BY <3>5, <3>7
    <3>9. Then(more) \/ Then(one)
      BY <2>2 DEF EocTurn
    <3> HIDE DEF one, more
    <3> QED
      BY <3>7, <3>8, <3>9
  <2> QED
    BY <2>1, <2>2
<1>6. ops \in Seq(Outer) /\ \A j \in 1 .. Len(ops) : LegalCall(U, j)'
  BY <1>1, <1>5, EmittedLegal
<1>7. tc' = tc /\ tn' = tn /\ key' = key
  BY DEF EocTurn
<1>8. \A c \in Coupled \ U : Settled(c)' \/ Returns(c, "ext")'
  <2>1. ops \in Seq(Call)
    BY <1>6, CallTypes, SeqFacts
  <2>2. \A c : Head(todo) # Ret(c, "ext")
    BY <1>1 DEF Ret
  <2>3. \A c : Returns(c, "ext") => Returns(c, "ext")'
    BY <1>1, <1>5, <2>1, <2>2, ReturnsKept
  <2> QED
    BY <1>3, <1>7, <2>3 DEF Outgoing, Settled
<1>9. \A c \in U : c # Root => Child(Father(c))' = Child(Father(c))
  BY <1>7 DEF Child
<1>10. \A j \in 2 .. Len(todo) : j < Len(todo) => LegalCall(U, j)
  BY <1>3 DEF Outgoing
<1>11. Outgoing(U)'
  BY <1>3, <1>4, <1>5, <1>6, <1>8, <1>9, <1>10, OutgoingKept
<1> QED
  BY <1>11

Extended(r, s, x) ==
  Len(r) = Len(s) + 1 /\ r[Len(s) + 1] = x /\ \A i \in 1 .. Len(s) : r[i] = s[i]

LEMMA OneMore ==
  ASSUME NEW S, NEW s \in Seq(S), NEW x \in S
  PROVE  Extended(s \o <<x>>, s, x)
<1>1. <<x>> \in Seq(S) /\ Len(<<x>>) = 1 /\ <<x>>[1] = x
  OBVIOUS
<1>2. /\ Len(s \o <<x>>) = Len(s) + Len(<<x>>)
      /\ \A i \in 1 .. Len(s) + Len(<<x>>) :
           (s \o <<x>>)[i] = IF i <= Len(s) THEN s[i] ELSE <<x>>[i - Len(s)]
  BY <1>1, ConcatProperties
<1>3. Len(s) \in Nat
  OBVIOUS
<1> QED
  BY <1>1, <1>2, <1>3 DEF Extended

(* An input of a coupled model off the path: the calls to its children     *)
(* leave it out of order until the return that follows them.               *)
LEMMA InputStep ==
  ASSUME TypeOK, NEW U \in SUBSET Coupled, Outgoing(U), ExtCoupled
  PROVE  Outgoing(U)'
<1> DEFINE o == Head(todo)
<1> PICK c : c = D[o.m][o.child]
  OBVIOUS
<1> PICK e : e = Enter(c, o.port)
  OBVIOUS
<1> DEFINE ops == e \o <<Ret(c, "ext")>>
<1>1. /\ todo # <<>> /\ phase = "run" /\ o \in Call /\ o.op = "ext" /\ ~Internal(o)
  BY HeadTypes DEF ExtCoupled, Internal
<1>2. /\ o.m \in Coupled /\ o.child \in Index(o.m) /\ o.port \in Ports
  BY <1>1, OpTypes
<1>3. Outgoing(U) /\ Len(todo) \in Nat /\ Len(todo) > 1 /\ Head(todo) = todo[1]
      /\ LegalCall(U, 1)
  BY <1>1, OutgoingTop
<1>4. Covered(U, 1, o.m) /\ c \notin U /\ PathFrom(U, Root) /\ Outward
  BY <1>1, <1>3 DEF LegalCall, Outgoing
<1>5. c \in Coupled /\ c # Root /\ Father(c) = o.m /\ Then(ops)
      /\ tc' = tc /\ tn' = tn /\ key' = key
  BY <1>2, ChildFacts DEF ExtCoupled
<1>6. e \in Seq(ExtCalls(c))
  BY <1>2, <1>5, EnterCalls
<1>0. PICK n \in Nat : n = Len(e)
  BY <1>6
<1>7. e \in Seq(Outer) /\ Ret(c, "ext") \in Outer
  BY <1>5, <1>6, CallTypes, SeqFacts
<1>8. ops \in Seq(Outer)
  BY <1>7
<1>9. /\ n \in Nat /\ Len(ops) = n + 1 /\ ops[n + 1] = Ret(c, "ext")
      /\ \A j \in 1 .. n : ops[j] = e[j] /\ e[j] \in ExtCalls(c)
  <2>1. \A j \in 1 .. n : e[j] \in ExtCalls(c)
    BY <1>0, <1>6
  <2>2. Extended(ops, e, Ret(c, "ext"))
    BY <1>7, OneMore, Zenon
  <2> HIDE DEF ops
  <2> QED
    BY <1>0, <2>1, <2>2, Zenon DEF Extended
<1> HIDE DEF ops
<1>20. /\ n + 1 \in 1 .. n + 1 /\ \A j \in 1 .. n : j \in 1 .. n + 1 /\ j < n + 1
       /\ \A j \in 1 .. n + 1 : j \in 1 .. n \/ j = n + 1
  OBVIOUS
<1>10. ops \in Seq(Call)
  BY <1>8, CallTypes, SeqFacts
<1>11. \A j \in 1 .. n + 1 : j \in 1 .. Len(todo') /\ todo'[j] = ops[j]
  BY <1>1, <1>5, <1>9, <1>10, StackShift
<1>12. ASSUME NEW j \in 1 .. n
       PROVE  LegalCall(U, j)'
  <2>1. todo'[j] \in ExtCalls(c)
    BY <1>9, <1>11, <1>20, Zenon
  <2>2. n + 1 \in 1 .. Len(todo') /\ todo'[n + 1] = Ret(c, "ext") /\ j < n + 1
    BY <1>9, <1>11, <1>20, Zenon
  <2>3. ReturnsAfter(j, c)'
    BY <2>2 DEF ReturnsAfter
  <2>4. \A k \in Index(c) : D[c][k] \notin U
    BY <1>4, <1>5, PathChild, ChildFacts
  <2> QED
    BY <2>1, <2>3, <2>4 DEF LegalCall, Covered, ExtCalls
<1>13. LegalCall(U, n + 1)'
  <2>1. todo'[n + 1] = Ret(c, "ext")
    BY <1>9, <1>11, <1>20, Zenon
  <2>2. Covered(U, n + 1, Father(c))'
    <3>1. \A d : ReturnsAfter(1, d) => ReturnsAfter(n + 1, d)'
      <4>1. n + 1 \in 1 .. Len(ops)
        BY <1>9, <1>20, Zenon
      <4> QED
        BY <1>1, <1>5, <1>10, <4>1, ReturnsKept
    <3> QED
      BY <1>4, <1>5, <3>1 DEF Covered
  <2> QED
    BY <1>4, <1>5, <2>1, <2>2 DEF LegalCall, Ret
<1>14. \A j \in 1 .. Len(ops) : LegalCall(U, j)'
  <2>1. \A j \in 1 .. Len(ops) : j \in 1 .. n \/ j = n + 1
    BY <1>9, <1>20, Zenon
  <2> QED
    BY <1>12, <1>13, <2>1
<1>15. \A d \in Coupled \ U : Settled(d)' \/ Returns(d, "ext")'
  <2>1. \A d : Head(todo) # Ret(d, "ext")
    BY <1>1 DEF Ret
  <2>2. \A d : Returns(d, "ext") => Returns(d, "ext")'
    BY <1>1, <1>5, <1>10, <2>1, ReturnsKept
  <2> QED
    BY <1>3, <1>5, <2>2 DEF Outgoing, Settled
<1>16. \A d \in U : d # Root => Child(Father(d))' = Child(Father(d))
  BY <1>5 DEF Child
<1>17. \A j \in 2 .. Len(todo) : j < Len(todo) => LegalCall(U, j)
  BY <1>3 DEF Outgoing
<1>18. Outgoing(U)'
  BY <1>3, <1>4, <1>5, <1>8, <1>14, <1>15, <1>16, <1>17, OutgoingKept
<1> QED
  BY <1>18

(* The call that ends leaves the outputs below it in order, whatever it    *)
(* was: what it disturbed is on the path, or returns later.                *)
LEMMA OutputDone ==
  ASSUME TypeOK, NEW U \in SUBSET Coupled, Outgoing(U), Len(todo) \in Nat, Len(todo) > 1,
         Then(<<>>), NEW c, Covered(U, 1, c),
         \A d \in U : tc'[d] = tc[d],
         \A d \in Coupled \ U : d # c => Settled(d)' \/ Returns(d, "ext")'
  PROVE  Outgoing(U)'
<1>1. <<>> \in Seq(Outer) /\ <<>> \in Seq(Call) /\ todo # <<>> /\ Len(<<>>) = 0
  OBVIOUS
<1>2. PathFrom(U, Root) /\ Outward
  BY DEF Outgoing
<1>3. \A d \in Coupled \ U : Settled(d)' \/ Returns(d, "ext")'
  <2>1. ReturnsAfter(1, c) => Returns(c, "ext")'
    BY <1>1, ReturnsKept
  <2> QED
    BY <2>1 DEF Covered
<1>4. \A d \in U : d # Root => Child(Father(d))' = Child(Father(d))
  BY <1>2 DEF Child, PathFrom
<1>5. \A j \in 2 .. Len(todo) : j < Len(todo) => LegalCall(U, j)
  BY DEF Outgoing
<1>6. \A j \in 1 .. 0 : LegalCall(U, j)'
  OBVIOUS
<1> QED
  BY <1>1, <1>2, <1>3, <1>4, <1>5, <1>6, OutgoingKept

LEMMA ReceiveStep ==
  ASSUME TypeOK, NEW U \in SUBSET Coupled, Outgoing(U), ExtAtomic
  PROVE  Outgoing(U)'
<1> DEFINE o == Head(todo)
           a == D[o.m][o.child]
<1>1. /\ todo # <<>> /\ phase = "run" /\ o \in Call /\ o.op = "ext" /\ ~Internal(o)
  BY HeadTypes DEF ExtAtomic, Internal
<1>2. /\ o.m \in Coupled /\ o.child \in Index(o.m)
  BY <1>1, OpTypes
<1>3. Outgoing(U) /\ Len(todo) \in Nat /\ Len(todo) > 1 /\ Head(todo) = todo[1]
      /\ LegalCall(U, 1)
  BY <1>1, OutgoingTop
<1>4. Covered(U, 1, o.m)
  BY <1>1, <1>3 DEF LegalCall
<1>5. a \in Atomic /\ Transition(a) /\ UpdateHeap(o.m, o.child) /\ Then(<<>>) /\ UNCHANGED tc
  BY DEF ExtAtomic
<1> HIDE DEF a
<1>6. ASSUME NEW d \in Coupled \ U, d # o.m
      PROVE  Settled(d)' \/ Returns(d, "ext")'
  <2>1. Settled(d) => Settled(d)'
    BY <1>2, <1>5, <1>6, TransitionSettles
  <2>2. Returns(d, "ext") => Returns(d, "ext")'
    <3>1. o # Ret(d, "ext") /\ <<>> \in Seq(Call)
      BY <1>1 DEF Ret
    <3> QED
      BY <1>1, <1>5, <3>1, ReturnsKept
  <2> QED
    BY <1>3, <2>1, <2>2 DEF Outgoing
<1>7. PICK c : c = o.m
  OBVIOUS
<1>8. Outgoing(U)'
  BY <1>3, <1>4, <1>5, <1>6, <1>7, OutputDone
<1> QED
  BY <1>8

LEMMA ReceivedStep ==
  ASSUME TypeOK, NEW U \in SUBSET Coupled, Outgoing(U), HeapsKnowTimes,
         Return, Head(todo).why = "ext"
  PROVE  Outgoing(U)'
<1> PICK c : c = Head(todo).m
  OBVIOUS
<1>1. /\ todo # <<>> /\ phase = "run" /\ Head(todo) \in Call /\ Head(todo).op = "ret"
      /\ ~Internal(Head(todo)) /\ Then(<<>>)
  BY HeadTypes DEF Return, Internal
<1>2. Outgoing(U) /\ Len(todo) \in Nat /\ Len(todo) > 1 /\ Head(todo) = todo[1]
      /\ LegalCall(U, 1)
  BY <1>1, OutgoingTop
<1>3. c \notin U /\ c # Root /\ Covered(U, 1, Father(c))
  BY <1>1, <1>2 DEF LegalCall
<1>4. /\ c \in Coupled /\ Settled(c)'
      /\ \A d \in Coupled : d # c => tc'[d] = tc[d]
      /\ \A d \in Coupled : d # c /\ (c # Root => d # Father(c)) /\ Settled(d) => Settled(d)'
  BY ReturnSettles
<1>5. ASSUME NEW d \in Coupled \ U, d # Father(c)
      PROVE  Settled(d)' \/ Returns(d, "ext")'
  <2>1. CASE d = c
    BY <1>4, <2>1
  <2>2. CASE d # c
    <3>1. Settled(d) => Settled(d)'
      BY <1>4, <1>5, <2>2
    <3>2. Head(todo) # Ret(d, "ext") /\ <<>> \in Seq(Call)
      BY <2>2 DEF Ret
    <3>3. Returns(d, "ext") => Returns(d, "ext")'
      BY <1>1, <3>2, ReturnsKept
    <3> QED
      BY <1>2, <3>1, <3>3 DEF Outgoing
  <2> QED
    BY <2>1, <2>2
<1>6. \A d \in U : tc'[d] = tc[d]
  BY <1>3, <1>4
<1>7. PICK f : f = Father(c)
  OBVIOUS
<1>8. Outgoing(U)'
  BY <1>1, <1>2, <1>3, <1>5, <1>6, <1>7, OutputDone
<1> QED
  BY <1>8

(* dintmessage goes down the path: the coupled model it enters is out of   *)
(* order from then on, and its return is on the stack.                     *)
LEMMA EnterStep ==
  ASSUME TypeOK, CallInv, DintCoupled
  PROVE  \E V \in SUBSET Coupled : Entering(V)'
<1> PICK c : c = Head(todo).m
  OBVIOUS
<1>1. todo # <<>> /\ phase = "run" /\ Calling("dint") /\ Head(todo).op = "dint"
  BY DEF DintCoupled, Calling
<1>2. PICK U \in SUBSET Coupled : Entering(U)
  BY <1>1, DintTurn
<1> DEFINE ops == <<Dint(Child(c)), Ret(c, "int")>>
           V == U \ {c}
<1>3. c \in Coupled /\ Then(ops) /\ tn' = tn /\ tc' = tc /\ key' = key
  BY DEF DintCoupled
<1>4. tc[c] \in Index(c) /\ Child(c) \in Models /\ Father(Child(c)) = c
  <2>1. tc[c] \in Index(c)
    BY <1>3 DEF TypeOK
  <2> QED
    BY <1>3, <2>1, ChildFacts DEF Child
<1>5. ops \in Seq(Call) /\ Len(ops) = 2 /\ ops[1] = Dint(Child(c)) /\ ops[2] = Ret(c, "int")
  <2>1. Dint(Child(c)) \in Call /\ Ret(c, "int") \in Call
    BY <1>3, <1>4, CallTypes
  <2> QED
    BY <2>1
<1>6. Inward'
  BY <1>1, <1>2, <1>3, InwardPush DEF Entering
<1> HIDE DEF ops
<1>7. /\ 1 \in 1 .. Len(todo') /\ todo'[1] = Dint(Child(c))
      /\ 2 \in 1 .. Len(todo') /\ todo'[2] = Ret(c, "int")
  <2>1. 1 \in 1 .. Len(ops) /\ 2 \in 1 .. Len(ops)
    BY <1>5
  <2> QED
    BY <1>1, <1>3, <1>5, <2>1, StackShift
<1>8. /\ todo' # <<>> /\ Head(todo') = Dint(Child(c))
  <2>1. todo' \in Seq(Call)
    BY <1>1, <1>3, <1>5, ThenType
  <2> QED
    BY <1>7, <2>1
<1>9. Head(todo').op = "dint" /\ Head(todo').m = Child(c)
  BY <1>8 DEF Dint
<1>10. PathFrom(V, Child(c))
  BY <1>2, <1>4 DEF Entering, PathFrom
<1>11. \A d \in Coupled \ V : Settled(d)' \/ Returns(d, "int")'
  <2>1. Returns(c, "int")'
    BY <1>7 DEF Returns
  <2>2. \A d \in Coupled \ U : Settled(d)' \/ Returns(d, "int")'
    <3>1. \A d : Head(todo) # Ret(d, "int")
      BY <1>1 DEF Ret
    <3>2. \A d : Returns(d, "int") => Returns(d, "int")'
      BY <1>1, <1>3, <1>5, <3>1, ReturnsKept
    <3> QED
      BY <1>2, <1>3, <3>2 DEF Entering, Settled
  <2> QED
    BY <2>1, <2>2
<1>12. V \in SUBSET Coupled
  OBVIOUS
<1> HIDE DEF V
<1>13. PathFrom(V, Head(todo).m)'
  <2>1. \A d : Child(d)' = Child(d)
    BY <1>3 DEF Child
  <2> QED
    BY <1>9, <1>10, <2>1 DEF PathFrom
<1>14. Entering(V)'
  BY <1>6, <1>8, <1>9, <1>11, <1>13 DEF Entering
<1> QED
  BY <1>12, <1>14

(* At the end of a call on the path its father's return is next. *)
LEMMA InwardNext ==
  ASSUME TypeOK, Inward, todo # <<>>, Then(<<>>), NEW m, m = Head(todo).m
  PROVE  /\ m \in Models
         /\ todo' # <<>> => Head(todo').op = "ret"
         /\ m # Root => Returns(Father(m), "int")'
<1>1. todo \in Seq(Call) /\ Len(todo) \in Nat /\ Len(todo) >= 1 /\ Head(todo) = todo[1]
  BY DEF TypeOK
<1>2. OnPath(todo, tc, 1)
  BY <1>1 DEF Inward
<1>3. /\ m \in Models
      /\ 1 = Len(todo) => m = Root
      /\ 1 < Len(todo) => todo[1 + 1] = Ret(Father(m), "int")
  BY <1>1, <1>2 DEF OnPath
<1>4. todo' = Tail(todo) /\ Tail(todo) \in Seq(Call) /\ Len(Tail(todo)) = Len(todo) - 1
  <2>1. Tail(todo) \in Seq(Call) /\ Len(Tail(todo)) = Len(todo) - 1
    BY <1>1
  <2> QED
    BY <2>1 DEF Then
<1>5. CASE 1 = Len(todo)
  BY <1>3, <1>4, <1>5
<1>6. CASE 1 < Len(todo)
  <2>1. Tail(todo)[1] = todo[2]
    BY <1>1, <1>6
  <2>2. 1 \in 1 .. Len(todo') /\ todo'[1] = Ret(Father(m), "int")
    BY <1>1, <1>3, <1>4, <1>6, <2>1
  <2>3. Head(todo') = todo'[1]
    BY <1>1, <1>4, <1>6
  <2> QED
    BY <1>3, <2>2, <2>3 DEF Returns, Ret
<1>7. \A n \in Nat : n >= 1 => 1 = n \/ 1 < n
  OBVIOUS
<1> QED
  BY <1>1, <1>5, <1>6, <1>7, Zenon

LEMMA LeafStep ==
  ASSUME TypeOK, CallInv, DintAtomic
  PROVE  Leaving'
<1> PICK a : a = Head(todo).m
  OBVIOUS
<1>1. todo # <<>> /\ phase = "run" /\ Calling("dint") /\ Head(todo).op = "dint"
  BY DEF DintAtomic, Calling
<1>2. PICK U \in SUBSET Coupled : Entering(U)
  BY <1>1, DintTurn
<1>3. a \in Atomic /\ Transition(a) /\ UpdateHeap(Father(a), tc[Father(a)]) /\ Then(<<>>)
      /\ UNCHANGED tc
  BY DEF DintAtomic
<1>4. a \in Models /\ a # Root /\ a \notin Coupled
  BY <1>3, TreeAssumption DEF Models
<1>5. Father(a) \in Coupled /\ tc[Father(a)] \in Index(Father(a))
  BY <1>4, FatherFacts DEF TypeOK
<1>6. U = {}
  BY <1>2, <1>4, PathEmpty DEF Entering
<1>7. Inward /\ Inward'
  BY <1>1, <1>2, <1>3, InwardPop DEF Entering
<1>8. /\ todo' # <<>> => Head(todo').op = "ret"
      /\ Returns(Father(a), "int")'
  BY <1>1, <1>3, <1>4, <1>7, InwardNext
<1>9. ASSUME NEW d \in Coupled, d # Father(a)
      PROVE  Settled(d)' \/ Returns(d, "int")'
  <2>1. Settled(d) => Settled(d)'
    BY <1>3, <1>5, <1>9, TransitionSettles
  <2>2. Head(todo) # Ret(d, "int") /\ <<>> \in Seq(Call)
    BY <1>1 DEF Ret
  <2>3. Returns(d, "int") => Returns(d, "int")'
    BY <1>1, <1>3, <2>2, ReturnsKept
  <2> QED
    BY <1>2, <1>6, <2>1, <2>3 DEF Entering
<1> QED
  BY <1>7, <1>8, <1>9 DEF Leaving

LEMMA LeaveStep ==
  ASSUME TypeOK, CallInv, HeapsKnowTimes, Return, Head(todo).why = "int"
  PROVE  Leaving'
<1> PICK c : c = Head(todo).m
  OBVIOUS
<1>1. todo # <<>> /\ phase = "run" /\ Calling("ret") /\ Head(todo).op = "ret" /\ Then(<<>>)
  BY DEF Return, Calling
<1>2. Leaving
  BY <1>1, ReturnTurn
<1>3. /\ c \in Coupled /\ Settled(c)'
      /\ \A d \in Coupled : d # c => tc'[d] = tc[d]
      /\ \A d \in Coupled : d # c /\ (c # Root => d # Father(c)) /\ Settled(d) => Settled(d)'
  BY ReturnSettles
<1>4. Inward /\ Inward'
  BY <1>1, <1>2, <1>3, InwardPop DEF Leaving
<1>5. /\ todo' # <<>> => Head(todo').op = "ret"
      /\ c # Root => Returns(Father(c), "int")'
  BY <1>1, <1>4, InwardNext
<1>6. ASSUME NEW d \in Coupled
      PROVE  Settled(d)' \/ Returns(d, "int")'
  <2>1. CASE d = c \/ (c # Root /\ d = Father(c))
    BY <1>3, <1>5, <2>1
  <2>2. CASE ~(d = c \/ (c # Root /\ d = Father(c)))
    <3>1. Settled(d) => Settled(d)'
      BY <1>3, <2>2
    <3>2. Head(todo) # Ret(d, "int") /\ <<>> \in Seq(Call)
      BY <2>2 DEF Ret
    <3>3. Returns(d, "int") => Returns(d, "int")'
      BY <1>1, <3>2, ReturnsKept
    <3> QED
      BY <1>2, <3>1, <3>3 DEF Leaving
  <2> QED
    BY <2>1, <2>2
<1> QED
  BY <1>4, <1>5, <1>6 DEF Leaving

LEMMA CallsKept ==
  ASSUME TypeOK, NoSelfFeed, HeapsKnowTimes, CallInv, [Next]_vars
  PROVE  CallInv'
<1> SUFFICES ASSUME phase' # "failed"
             PROVE  Leaving' \/ \E U \in SUBSET Coupled :
                                  Descending(U)' \/ Outgoing(U)' \/ Entering(U)'
  BY DEF CallInv
<1>1. CASE StepAborted \/ StepIllegitimate \/ StepPastEnd
  <2>1. todo = <<>> /\ phase # "failed" /\ UNCHANGED <<tn, tc, key, todo>>
    BY <1>1 DEF StepAborted, StepIllegitimate, StepPastEnd, Exit
  <2>2. Leaving
    BY <2>1, IdleSynced
  <2>3. Leaving'
    BY <2>1, <2>2 DEF Leaving, Inward, Settled, Returns
  <2> QED
    BY <2>3
<1>2. CASE StepEvent
  <2>1. Synced
    BY <1>2, IdleSynced DEF StepEvent
  <2>2. Descending({})'
    BY <1>2, <2>1, EventStep
  <2> QED
    BY <2>2
<1>3. CASE LambdaCoupled
  <2>1. PICK U \in SUBSET Coupled : Descending(U)
    BY <1>3, LambdaTurn DEF LambdaCoupled
  <2> QED
    BY <1>3, <2>1, LambdaStep
<1>4. CASE LambdaAtomic
  <2>1. PICK U \in SUBSET Coupled : Descending(U)
    BY <1>4, LambdaTurn DEF LambdaAtomic
  <2> QED
    BY <1>4, <2>1, OutputStep
<1>5. CASE Return /\ Head(todo).why = "int"
  BY <1>5, LeaveStep
<1>6. CASE \/ Return /\ Head(todo).why # "int"
           \/ EocTurn \/ ExtCoupled \/ ExtAtomic
  <2>1. Head(todo).op = "ret" => Head(todo).why \in {"ext", "int"}
    BY <1>6, HeadTypes, OpTypes DEF Return, EocTurn, ExtCoupled, ExtAtomic
  <2>2. phase = "run" /\ todo # <<>> /\ ~Internal(Head(todo)) /\ Head(todo).op # "lambda"
    BY <1>6 DEF Return, EocTurn, ExtCoupled, ExtAtomic, Calling, Internal
  <2>3. PICK U \in SUBSET Coupled : Outgoing(U)
    BY <2>2, OutputTurn
  <2>4. Outgoing(U)'
    <3>1. CASE Return /\ Head(todo).why # "int"
      <4>1. Head(todo).why = "ext"
        BY <2>1, <3>1 DEF Return, Calling
      <4> QED
        BY <2>3, <3>1, <4>1, ReceivedStep
    <3> QED
      BY <1>6, <2>3, <3>1, EocStep, InputStep, ReceiveStep
  <2> QED
    BY <2>4
<1>7. CASE DintCoupled
  BY <1>7, EnterStep
<1>8. CASE DintAtomic
  BY <1>8, LeafStep
<1>9. CASE Throw
  BY <1>9 DEF Throw
<1>10. CASE UNCHANGED vars
  <2>1. /\ todo' = todo /\ tn' = tn /\ tc' = tc /\ key' = key /\ at' = at /\ phase' = phase
    BY <1>10 DEF vars
  <2>2. Inward' = Inward /\ Outward' = Outward /\ Synced' = Synced
    BY <2>1 DEF Inward, Outward, Synced, KeysKnown, Settled
  <2>3. /\ \A c : Child(c)' = Child(c) /\ Settled(c)' = Settled(c)
        /\ \A c, why : Returns(c, why)' = Returns(c, why)
        /\ \A j, c : ReturnsAfter(j, c)' = ReturnsAfter(j, c)
    BY <2>1 DEF Child, Settled, Returns, ReturnsAfter
  <2>4. Leaving' = Leaving
    BY <2>1, <2>2, <2>3 DEF Leaving
  <2>5. ASSUME NEW U \in SUBSET Coupled, Descending(U)
        PROVE  Descending(U)'
    BY <2>1, <2>2, <2>3, <2>5 DEF Descending, PathFrom
  <2>6. ASSUME NEW U \in SUBSET Coupled, Entering(U)
        PROVE  Entering(U)'
    BY <2>1, <2>2, <2>3, <2>6 DEF Entering, PathFrom
  <2>7. ASSUME NEW U \in SUBSET Coupled, Outgoing(U)
        PROVE  Outgoing(U)'
    BY <2>1, <2>2, <2>3, <2>7 DEF Outgoing, PathFrom, LegalCall, Covered
  <2> QED
    BY <2>1, <2>4, <2>5, <2>6, <2>7 DEF CallInv
<1> QED
  BY <1>1, <1>2, <1>3, <1>4, <1>5, <1>6, <1>7, <1>8, <1>9, <1>10 DEF Next

-----------------------------------------------------------------------------
(* Times. *)

(* When every coupling is in order the root holds the earliest time: the   *)
(* model of the least level with an earlier one would have a father that   *)
(* has it, too.                                                            *)
LEMMA RootEarliest ==
  ASSUME TypeOK, Synced
  PROVE  \A m \in Models : tn[Root] <= tn[m]
<1>1. \A m \in Models : tn[m] \in Int
  BY TimeAssumption DEF TypeOK, Times
<1>2. ASSUME NEW c \in Coupled, NEW k \in Index(c)
      PROVE  tn[c] <= tn[D[c][k]]
  <2>1. key[c] = [x \in Index(c) |-> tn[D[c][x]]] /\ tn[c] = key[c][tc[c]] /\ tc[c] = First(key[c])
    BY DEF Synced, KeysKnown, Settled
  <2>2. \A x \in Index(c) : tn[D[c][x]] \in Int
    BY <1>1, TreeFacts
  <2>3. key[c] \in [1 .. Len(D[c]) -> Int]
    BY <2>1, <2>2 DEF Index
  <2>4. IsFirst(key[c], tc[c])
    <3>1. Len(D[c]) \in Nat \ {0}
      BY TreeFacts
    <3>2. IsFirst(key[c], First(key[c]))
      BY <2>3, <3>1, FirstExists
    <3> QED
      BY <2>1, <3>2, Zenon
  <2>5. key[c][tc[c]] <= key[c][k]
    <3>1. k \in DOMAIN key[c] /\ key[c][k] \in Int /\ tc[c] \in Index(c) /\ key[c][tc[c]] \in Int
      BY <2>3 DEF TypeOK, Index
    <3> QED
      BY <2>4, <3>1 DEF IsFirst
  <2> QED
    BY <2>1, <2>5
<1> DEFINE L == {Level[m] : m \in {x \in Models : tn[x] < tn[Root]}}
<1> SUFFICES ASSUME NEW m \in Models, ~(tn[Root] <= tn[m])
             PROVE  FALSE
  OBVIOUS
<1>3. Root \in Models
  BY TreeFacts
<1>4. L \in SUBSET Nat /\ Level[m] \in L
  BY <1>1, <1>3, LevelType
<1>5. PICK l \in L : \A y \in L : l <= y
  <2> HIDE DEF L
  <2> QED
    BY <1>4, LeastNatural
<1>6. PICK x \in Models : tn[x] < tn[Root] /\ l = Level[x]
  BY <1>5
<1>7. x # Root
  BY <1>1, <1>3, <1>6
<1>8. /\ Father(x) \in Coupled /\ Myself(x) \in Index(Father(x)) /\ D[Father(x)][Myself(x)] = x
      /\ Level[x] = Level[Father(x)] + 1
  BY <1>7, FatherFacts
<1>9. Father(x) \in Models /\ Level[Father(x)] \in Nat
  BY <1>8, LevelType DEF Models
<1>10. tn[Father(x)] <= tn[x]
  BY <1>2, <1>8
<1>11. tn[Father(x)] < tn[Root]
  BY <1>1, <1>3, <1>6, <1>9, <1>10
<1>12. Level[Father(x)] \in L
  BY <1>9, <1>11
<1>13. l <= Level[Father(x)]
  <2> HIDE DEF L
  <2> QED
    BY <1>5, <1>12
<1> QED
  BY <1>6, <1>8, <1>9, <1>13

LEMMA TransitionTimes ==
  ASSUME TypeOK, TimeInv, phase = "run", NEW a \in Atomic, Transition(a), at' = at
  PROVE  /\ \A m \in Models : at' <= tn'[m]
         /\ \A x \in Atomic : tl'[x] <= at'
<1>1. /\ a \in Models /\ at \in Nat /\ at < INF /\ INF \in Nat /\ Sigmas \subseteq Int
      /\ tn \in [Models -> Times] /\ tl \in [Atomic -> 0 .. Tf]
  BY TimeAssumption DEF TypeOK, Models
<1>2. PICK s \in Sigmas : tn' = [tn EXCEPT ![a] = IF s >= 0 THEN Plus(at, s) ELSE tn[a]]
  BY DEF Transition
<1>3. \A m \in Models : at <= tn[m]
  BY DEF TimeInv
<1>4. s >= 0 => at <= Plus(at, s)
  BY <1>1 DEF Plus
<1>5. \A m \in Models : at' <= tn'[m]
  BY <1>1, <1>2, <1>3, <1>4
<1>6. tl' = [tl EXCEPT ![a] = at]
  BY DEF Transition
<1>7. \A x \in Atomic : tl'[x] <= at'
  BY <1>1, <1>6 DEF TimeInv
<1> QED
  BY <1>5, <1>7

LEMMA TimesKept ==
  ASSUME TypeOK, HeapsKnowTimes, CallInv, TimeInv, [Next]_vars
  PROVE  TimeInv'
<1> SUFFICES ASSUME phase' = "run"
             PROVE  /\ \A m \in Models : at' <= tn'[m]
                    /\ \A a \in Atomic : tl'[a] <= at'
                    /\ todo' # <<>> => at' = t'
  BY DEF TimeInv
<1>1. CASE StepAborted \/ StepIllegitimate \/ StepPastEnd \/ Throw
  BY <1>1 DEF StepAborted, StepIllegitimate, StepPastEnd, Throw, Exit
<1>2. CASE StepEvent
  <2>1. /\ at' = t' /\ at' = tn[Root] /\ tn' = tn /\ tl' = tl /\ phase = "run" /\ todo = <<>>
    BY <1>2 DEF StepEvent, CountStep
  <2>2. \A m \in Models : tn[Root] <= tn[m]
    BY <2>1, IdleSynced, RootEarliest
  <2>3. \A a \in Atomic : tl[a] <= at /\ at <= tn[Root] /\ tl[a] \in Int
    BY <2>1, TreeFacts DEF TimeInv, TypeOK
  <2>4. at \in Int /\ tn[Root] \in Int
    BY TreeFacts, TimeAssumption DEF TypeOK, Times
  <2> QED
    BY <2>1, <2>2, <2>3, <2>4
<1>3. CASE LambdaCoupled \/ LambdaAtomic \/ EocTurn \/ ExtCoupled \/ DintCoupled
  <2>1. /\ todo # <<>> /\ phase = "run" /\ tn' = tn /\ tl' = tl /\ t' = t
        /\ at' = at \/ at' = t
    BY <1>3 DEF LambdaCoupled, LambdaAtomic, EocTurn, ExtCoupled, DintCoupled, Calling, root
  <2> QED
    BY <2>1 DEF TimeInv
<1>4. CASE ExtAtomic \/ DintAtomic
  <2>1. PICK a \in Atomic : Transition(a)
    BY <1>4 DEF ExtAtomic, DintAtomic
  <2>2. todo # <<>> /\ phase = "run" /\ at' = at /\ t' = t
    BY <1>4 DEF ExtAtomic, DintAtomic, Calling, root
  <2>3. at' = t'
    BY <2>2 DEF TimeInv
  <2> QED
    BY <2>1, <2>2, <2>3, TransitionTimes
<1>5. CASE Return
  <2> PICK c : c = Head(todo).m
    OBVIOUS
  <2>1. Head(todo) \in Call /\ Head(todo).op = "ret" /\ phase = "run" /\ todo # <<>>
    BY <1>5, HeadTypes DEF Return
  <2>2. c \in Coupled
    BY <2>1, OpTypes
  <2>3. /\ tn' = [tn EXCEPT ![c] = tn[D[c][First(key[c])]]]
        /\ at' = at /\ tl' = tl /\ t' = t
    BY <1>5 DEF Return, root
  <2>4. D[c][First(key[c])] \in Models
    BY <2>2, FirstType
  <2>5. tn \in [Models -> Times]
    BY DEF TypeOK
  <2> QED
    BY <2>1, <2>3, <2>4, <2>5 DEF TimeInv
<1>6. CASE UNCHANGED vars
  BY <1>6 DEF vars, TimeInv
<1> QED
  BY <1>1, <1>2, <1>3, <1>4, <1>5, <1>6 DEF Next

-----------------------------------------------------------------------------
(* Everything above holds in every state that the simulation reaches.      *)
LEMMA CallsAndTimes ==
  ASSUME NoSelfFeed
  PROVE  Spec => [](TypeOK /\ HeapsKnowTimes /\ CallInv /\ TimeInv)
<1>1. Init => CallInv
  BY DEF Init, CallInv, Leaving, Inward, Synced
<1>2. Init => TimeInv
  <2> SUFFICES ASSUME Init
               PROVE  TimeInv
    OBVIOUS
  <2>1. TypeOK
    BY TypeInit
  <2>2. \A m \in Models : 0 <= tn[m]
    BY <2>1, TimeAssumption DEF TypeOK, Times
  <2> QED
    BY <2>2 DEF Init, TimeInv
<1>3. TypeOK /\ HeapsKnowTimes /\ CallInv /\ TimeInv /\ [Next]_vars => CallInv' /\ TimeInv'
  BY CallsKept, TimesKept
<1>4. Spec => []TypeOK /\ []HeapsKnowTimes
  BY TypeCorrect, HeapsAlwaysKnow
<1> QED
  BY <1>1, <1>2, <1>3, <1>4, PTL DEF Spec

(* Whenever step() returns, transitionChild and tn of every coupled model  *)
(* are those of its first child, in every tree where no model's output is  *)
(* its own input.                                                          *)
THEOREM TransitionChildAlwaysFirst ==
  ASSUME NoSelfFeed
  PROVE  Spec => []TransitionChildIsFirst
<1>1. CallInv /\ HeapsKnowTimes => TransitionChildIsFirst
  BY IdleSynced DEF TransitionChildIsFirst
<1> QED
  BY <1>1, CallsAndTimes, PTL

(* No event is ever left behind. *)
THEOREM NothingEverMissed ==
  ASSUME NoSelfFeed
  PROVE  Spec => []NothingMissed
<1>1. TimeInv => NothingMissed
  BY DEF TimeInv, NothingMissed
<1> QED
  BY <1>1, CallsAndTimes, PTL

(* lambda is called on a model whose time has come, and no model is due    *)
(* before it.                                                              *)
THEOREM ImminentAlwaysFirst ==
  ASSUME NoSelfFeed
  PROVE  Spec => []ImminentFirst
<1>1. TypeOK /\ CallInv /\ TimeInv => ImminentFirst
  <2> SUFFICES ASSUME TypeOK, CallInv, TimeInv, phase = "run", todo # <<>>,
                      Head(todo).op = "lambda"
               PROVE  /\ tn[Head(todo).m] = at
                      /\ \A x \in Atomic : at <= tn[x]
    BY DEF ImminentFirst
  <2>1. PICK U \in SUBSET Coupled : Descending(U)
    BY LambdaTurn DEF Calling
  <2>2. tn[Head(todo).m] = at
    BY <2>1 DEF Descending, Lambda
  <2> QED
    BY <2>2 DEF TimeInv, Models
<1> QED
  BY <1>1, CallsAndTimes, PTL

(* The elapsed time an atomic model sees is never negative and never past  *)
(* its time advance.                                                       *)
THEOREM ElapsedTimeAlwaysLegal ==
  ASSUME NoSelfFeed
  PROVE  Spec => []ElapsedTimeLegal
<1>1. TypeOK /\ TimeInv => ElapsedTimeLegal
  <2> SUFFICES ASSUME TypeOK, TimeInv, phase = "run", todo # <<>>, InAtomic(Head(todo))
               PROVE  tl[Called(Head(todo))] <= at /\ at <= tn[Called(Head(todo))]
    BY DEF ElapsedTimeLegal
  <2>1. Called(Head(todo)) \in Atomic
    BY DEF InAtomic, Called
  <2> QED
    BY <2>1 DEF TimeInv, Models
<1> QED
  BY <1>1, CallsAndTimes, PTL

-----------------------------------------------------------------------------
(* The hierarchy simulates the flat model.  The atomic inputs that a stack *)
(* of calls leads to are the joined routes of its calls; an input or an    *)
(* output that a coupling hands on is replaced by calls that lead to the   *)
(* same, so the flat model sees only what reaches atomic models.           *)

(* Sequences of sequences. *)

(* Concatenation, as an operator to hide from the provers. *)
Cat(x, y) == x \o y

(* Concatenation associates. *)
LEMMA Associates ==
  ASSUME NEW S, NEW x \in Seq(S), NEW y \in Seq(S), NEW z \in Seq(S)
  PROVE  Cat(Cat(x, y), z) = Cat(x, Cat(y, z))
BY DEF Cat

(* An input of an atomic model, and a list of sequences of such. *)
Target == Atomic \X Ports
Lists(s) == Len(s) \in Nat /\ \A i \in 1 .. Len(s) : s[i] \in Seq(Target)

(* f[i] is what the first i of the sequences of s are one after the other. *)
Joins(f, n, s) ==
  f[0] = <<>> /\ \A i \in Nat : i + 1 <= n => f[i + 1] = f[i] \o s[i + 1]

(* There is always such a function: the partial joins of a list exist. *)
LEMMA JoinsExist ==
  ASSUME NEW s, Len(s) \in Nat
  PROVE  \E f : Joins(f, Len(s), s)
<1> DEFINE N == {n \in Nat : \E f : Joins(f, n, s)}
<1>1. 0 \in N
  <2> DEFINE g == [i \in 0 .. 0 |-> <<>>]
  <2>1. g[0] = <<>> /\ \A i \in Nat : ~(i + 1 <= 0)
    OBVIOUS
  <2> HIDE DEF g
  <2>2. Joins(g, 0, s)
    BY <2>1 DEF Joins
  <2> QED
    BY <2>2
<1>2. ASSUME NEW n \in Nat, n \in N
      PROVE  n + 1 \in N
  <2>1. PICK f : Joins(f, n, s)
    BY <1>2
  <2> DEFINE v == f[n] \o s[n + 1]
             g == [i \in 0 .. n + 1 |-> IF i = n + 1 THEN v ELSE f[i]]
  <2>2. \A i \in 0 .. n : g[i] = f[i]
    OBVIOUS
  <2>3. g[n + 1] = v
    <3>1. n + 1 \in 0 .. n + 1
      OBVIOUS
    <3> HIDE DEF v
    <3> QED
      BY <3>1
  <2> HIDE DEF g
  <2>4. ASSUME NEW i \in Nat, i + 1 <= n + 1
        PROVE  g[i + 1] = g[i] \o s[i + 1]
    <3>1. g[i] = f[i]
      <4>1. i \in 0 .. n
        BY <2>4
      <4> QED
        BY <2>2, <4>1
    <3>2. CASE i = n
      BY <2>3, <3>1, <3>2, Zenon
    <3>3. CASE i # n
      <4>1. i + 1 \in 0 .. n /\ i + 1 <= n
        BY <2>4, <3>3
      <4>2. f[i + 1] = f[i] \o s[i + 1]
        BY <2>1, <4>1, Zenon DEF Joins
      <4>3. g[i + 1] = f[i + 1]
        BY <2>2, <4>1
      <4> QED
        BY <3>1, <4>2, <4>3, Zenon
    <3> QED
      BY <3>2, <3>3
  <2>5. g[0] = <<>>
    <3>1. 0 \in 0 .. n
      OBVIOUS
    <3> QED
      BY <2>1, <2>2, <3>1 DEF Joins
  <2>6. Joins(g, n + 1, s)
    BY <2>4, <2>5, Zenon DEF Joins
  <2> QED
    BY <2>6
<1>3. Len(s) \in N
  <2>1. Nat \subseteq N
    <3> HIDE DEF N
    <3> QED
      BY <1>1, <1>2, InductiveSet
  <2> QED
    BY <2>1
<1> QED
  BY <1>3, Zenon

(* What is joined is a sequence of inputs. *)
LEMMA JoinsType ==
  ASSUME NEW s, Lists(s), NEW f, Joins(f, Len(s), s)
  PROVE  \A n \in 0 .. Len(s) : f[n] \in Seq(Target)
<1> DEFINE N == {n \in Nat : n <= Len(s) => f[n] \in Seq(Target)}
<1>0. Len(s) \in Nat
  BY DEF Lists
<1>1. 0 \in N
  <2>1. f[0] = <<>>
    BY DEF Joins
  <2>2. <<>> \in Seq(Target) /\ 0 \in Nat
    OBVIOUS
  <2> QED
    BY <2>1, <2>2, Zenon
<1>2. ASSUME NEW n \in Nat, n \in N
      PROVE  n + 1 \in N
  <2> SUFFICES ASSUME n + 1 <= Len(s)
               PROVE  f[n + 1] \in Seq(Target)
    OBVIOUS
  <2>1. n + 1 \in 1 .. Len(s) /\ n <= Len(s)
    BY <1>0
  <2>2. f[n + 1] = f[n] \o s[n + 1]
    BY Zenon DEF Joins
  <2>3. f[n] \in Seq(Target) /\ s[n + 1] \in Seq(Target)
    BY <1>2, <2>1 DEF Lists
  <2>4. f[n] \o s[n + 1] \in Seq(Target)
    BY <2>3
  <2> QED
    BY <2>2, <2>4
<1>3. Nat \subseteq N
  <2> HIDE DEF N
  <2> QED
    BY <1>1, <1>2, InductiveSet
<1> QED
  BY <1>0, <1>3

(* FlattenSeq is the last of the partial joins. *)
LEMMA FlattenJoins ==
  ASSUME NEW s, Lists(s), NEW f, Joins(f, Len(s), s), s = <<>> \/ Len(s) # 0
  PROVE  FlattenSeq(s) = f[Len(s)]
<1>0. Len(s) \in Nat
  BY DEF Lists
<1>1. CASE Len(s) = 0
  <2>1. s = <<>>
    BY <1>1
  <2>2. f[0] = <<>>
    BY DEF Joins
  <2> QED
    BY <1>1, <2>1, <2>2 DEF FlattenSeq
<1>2. CASE Len(s) # 0
  <2> DEFINE Fix(h) == h = [i \in 1 .. Len(s) |-> IF i = 1 THEN s[i] ELSE h[i - 1] \o s[i]]
             flatten == CHOOSE h : Fix(h)
             g == [i \in 1 .. Len(s) |-> f[i]]
  <2>1. FlattenSeq(s) = flatten[Len(s)]
    BY <1>2, Zenon DEF FlattenSeq
  <2>2. \A i \in 1 .. Len(s) : f[i] = IF i = 1 THEN s[i] ELSE f[i - 1] \o s[i]
    <3> TAKE i \in 1 .. Len(s)
    <3>1. i - 1 \in Nat /\ (i - 1) + 1 = i /\ i <= Len(s)
      BY <1>0
    <3>2. f[i] = f[i - 1] \o s[i]
      BY <3>1, Zenon DEF Joins
    <3>3. CASE i = 1
      <4>1. f[0] = <<>> /\ i - 1 = 0
        BY <3>3 DEF Joins
      <4>2. s[i] \in Seq(Target)
        BY DEF Lists
      <4>3. <<>> \o s[i] = s[i]
        BY <4>2
      <4> QED
        BY <3>2, <3>3, <4>1, <4>3
    <3> QED
      BY <3>2, <3>3
  <2>3. Fix(g)
    <3>1. \A i \in 1 .. Len(s) : g[i] = f[i]
      OBVIOUS
    <3>2. \A i \in 1 .. Len(s) : i # 1 => i - 1 \in 1 .. Len(s)
      BY <1>0
    <3>3. \A i \in 1 .. Len(s) : g[i] = IF i = 1 THEN s[i] ELSE g[i - 1] \o s[i]
      <4> HIDE DEF g
      <4> QED
        BY <2>2, <3>1, <3>2
    <3>4. g = [i \in 1 .. Len(s) |-> g[i]]
      OBVIOUS
    <3> HIDE DEF g
    <3> QED
      BY <3>3, <3>4, Zenon
  <2>4. Fix(flatten)
    BY <2>3, Zenon
  <2> HIDE DEF flatten
  <2>5. \A i \in 1 .. Len(s) : flatten[i] = IF i = 1 THEN s[i] ELSE flatten[i - 1] \o s[i]
    BY <2>4, Zenon
  <2> DEFINE N == {n \in Nat : n + 1 <= Len(s) => flatten[n + 1] = f[n + 1]}
  <2>6. 0 \in N
    <3>1. 1 \in 1 .. Len(s)
      BY <1>0, <1>2
    <3>2. flatten[1] = f[1]
      BY <2>2, <2>5, <3>1
    <3> QED
      BY <3>2
  <2>7. ASSUME NEW n \in Nat, n \in N
        PROVE  n + 1 \in N
    <3> SUFFICES ASSUME n + 1 + 1 <= Len(s)
                 PROVE  flatten[n + 1 + 1] = f[n + 1 + 1]
      OBVIOUS
    <3>1. n + 1 + 1 \in 1 .. Len(s) /\ n + 1 + 1 # 1 /\ (n + 1 + 1) - 1 = n + 1
      BY <1>0
    <3>2. flatten[n + 1] = f[n + 1]
      BY <1>0, <2>7
    <3>3. /\ flatten[n + 1 + 1] = flatten[(n + 1 + 1) - 1] \o s[n + 1 + 1]
          /\ f[n + 1 + 1] = f[(n + 1 + 1) - 1] \o s[n + 1 + 1]
      BY <2>2, <2>5, <3>1
    <3> QED
      BY <3>1, <3>2, <3>3
  <2>8. Nat \subseteq N
    <3> HIDE DEF N
    <3> QED
      BY <2>6, <2>7, InductiveSet
  <2>9. Len(s) - 1 \in Nat /\ (Len(s) - 1) + 1 = Len(s)
    BY <1>0, <1>2
  <2>10. Len(s) - 1 \in N
    <3> HIDE DEF N
    <3> QED
      BY <2>8, <2>9
  <2> QED
    BY <2>1, <2>9, <2>10
<1> QED
  BY <1>1, <1>2

(* Flattened, a list is as long as it is, and of sequences. *)
Flattens(f, s) == Joins(f, Len(s), s) /\ FlattenSeq(s) = f[Len(s)]

(* A list of sequences of inputs flattens to a sequence of inputs. *)
LEMMA FlattenFacts ==
  ASSUME NEW s \in Seq(Seq(Target))
  PROVE  /\ Lists(s) /\ \E f : Flattens(f, s)
         /\ FlattenSeq(s) \in Seq(Target)
<1>1. Lists(s) /\ (s = <<>> \/ Len(s) # 0) /\ Len(s) \in 0 .. Len(s)
  BY DEF Lists
<1>2. PICK f : Joins(f, Len(s), s)
  BY JoinsExist DEF Lists
<1>3. FlattenSeq(s) = f[Len(s)]
  BY <1>1, <1>2, FlattenJoins
<1>4. f[Len(s)] \in Seq(Target)
  BY <1>1, <1>2, JoinsType
<1> QED
  BY <1>1, <1>2, <1>3, <1>4 DEF Flattens

(* The first n of s are in r too, d places later. *)
Shifted(s, n, r, d) == n + d <= Len(r) /\ \A i \in 1 .. n : r[i + d] = s[i]

(* From d on, g adds what f adds from the beginning. *)
Follows(g, d, f, n) == g[n + d] = g[d] \o f[n]

(* Where two lists agree, up to a shift, they add the same to what comes   *)
(* before.                                                                 *)
LEMMA JoinsSame ==
  ASSUME NEW s, Lists(s), NEW r, Lists(r),
         NEW n, n \in Nat, n <= Len(s), NEW d, d \in Nat, Shifted(s, n, r, d),
         NEW f, NEW g, Joins(f, Len(s), s), Joins(g, Len(r), r)
  PROVE  Follows(g, d, f, n)
<1> DEFINE N == {i \in Nat : i <= n => g[i + d] = g[d] \o f[i]}
<1>0. Len(s) \in Nat /\ Len(r) \in Nat /\ n + d <= Len(r)
  BY DEF Lists, Shifted
<1>a. g[d] \in Seq(Target)
  <2>1. d \in 0 .. Len(r)
    BY <1>0
  <2> QED
    BY <2>1, JoinsType, Zenon
<1>b. f[0] = <<>>
  BY DEF Joins
<1>1. 0 \in N
  <2>1. g[d] \o <<>> = g[d]
    BY <1>a
  <2>2. 0 + d = d /\ 0 \in Nat
    OBVIOUS
  <2>3. g[0 + d] = g[d] \o f[0]
    BY <1>b, <2>1, <2>2, Zenon
  <2> QED
    BY <2>2, <2>3, Zenon
<1>2. ASSUME NEW i \in Nat, i \in N
      PROVE  i + 1 \in N
  <2>0. /\ i + 1 \in Nat /\ i + d \in Nat /\ (i + d) + 1 = (i + 1) + d
        /\ (i + 1 <= n => /\ i <= n /\ i + 1 <= Len(s) /\ (i + d) + 1 <= Len(r)
                           /\ i + 1 \in 1 .. n /\ i + 1 \in 1 .. Len(s) /\ i \in 0 .. Len(s))
    BY <1>0
  <2> SUFFICES ASSUME i + 1 <= n
               PROVE  g[(i + 1) + d] = g[d] \o f[i + 1]
    BY <2>0, Zenon
  <2>1. f[i + 1] = f[i] \o s[i + 1]
    BY <2>0, Zenon DEF Joins
  <2>2. g[(i + d) + 1] = g[i + d] \o r[(i + d) + 1]
    BY <2>0, Zenon DEF Joins
  <2>3. r[(i + 1) + d] = s[i + 1]
    BY <2>0, Zenon DEF Shifted
  <2>4. g[i + d] = g[d] \o f[i]
    BY <1>2, <2>0, Zenon
  <2>5. f[i] \in Seq(Target)
    BY <2>0, JoinsType, Zenon
  <2>6. s[i + 1] \in Seq(Target)
    BY <2>0, Zenon DEF Lists
  <2>7. Cat(Cat(g[d], f[i]), s[i + 1]) = Cat(g[d], Cat(f[i], s[i + 1]))
    BY <1>a, <2>5, <2>6, Associates
  <2> QED
    BY <2>0, <2>1, <2>2, <2>3, <2>4, <2>7, Zenon DEF Cat
<1>3. n \in N
  <2>1. Nat \subseteq N
    <3> HIDE DEF N
    <3> QED
      BY <1>1, <1>2, InductiveSet
  <2> QED
    BY <2>1
<1>4. n <= n
  OBVIOUS
<1> QED
  BY <1>3, <1>4, Zenon DEF Follows

(* Flattening distributes over concatenation. *)
LEMMA FlattenConcat ==
  ASSUME NEW s \in Seq(Seq(Target)), NEW r \in Seq(Seq(Target))
  PROVE  FlattenSeq(s \o r) = FlattenSeq(s) \o FlattenSeq(r)
<1> DEFINE q == s \o r
<1>1. /\ q \in Seq(Seq(Target)) /\ Len(q) = Len(s) + Len(r) /\ Len(s) \in Nat /\ Len(r) \in Nat
      /\ \A i \in 1 .. Len(s) : q[i] = s[i]
      /\ \A i \in 1 .. Len(r) : q[i + Len(s)] = r[i]
  OBVIOUS
<1> HIDE DEF q
<1>2. PICK f : Flattens(f, s)
  BY FlattenFacts
<1>3. PICK h : Flattens(h, r)
  BY FlattenFacts
<1>4. PICK g : Flattens(g, q)
  BY <1>1, FlattenFacts
<1>5. Lists(s) /\ Lists(r) /\ Lists(q)
  BY <1>1, FlattenFacts
<1>6. Shifted(s, Len(s), q, 0) /\ Shifted(r, Len(r), q, Len(s))
  BY <1>1 DEF Shifted
<1>7. /\ Joins(f, Len(s), s) /\ Joins(h, Len(r), r) /\ Joins(g, Len(q), q)
      /\ FlattenSeq(s) = f[Len(s)] /\ FlattenSeq(r) = h[Len(r)] /\ FlattenSeq(q) = g[Len(q)]
  BY <1>2, <1>3, <1>4 DEF Flattens
<1>8. /\ Len(s) <= Len(s) /\ Len(r) <= Len(r) /\ 0 \in Nat
      /\ Len(s) + 0 = Len(s) /\ Len(r) + Len(s) = Len(q) /\ Len(s) \in 0 .. Len(s)
  BY <1>1
<1>9. g[Len(s) + 0] = g[0] \o f[Len(s)]
  <2>1. Follows(g, 0, f, Len(s))
    BY <1>1, <1>5, <1>6, <1>7, <1>8, JoinsSame
  <2> QED
    BY <2>1 DEF Follows
<1>10. g[Len(r) + Len(s)] = g[Len(s)] \o h[Len(r)]
  <2>1. Follows(g, Len(s), h, Len(r))
    BY <1>1, <1>5, <1>6, <1>7, <1>8, JoinsSame
  <2> QED
    BY <2>1 DEF Follows
<1>11. g[0] = <<>>
  BY <1>7 DEF Joins
<1>12. f[Len(s)] \in Seq(Target)
  BY <1>5, <1>7, <1>8, JoinsType
<1>13. <<>> \o f[Len(s)] = f[Len(s)]
  BY <1>12
<1>14. g[Len(s)] = f[Len(s)]
  BY <1>8, <1>9, <1>11, <1>13
<1> QED
  BY <1>7, <1>8, <1>10, <1>14 DEF q

(* A list of one sequence flattens to it. *)
LEMMA FlattenOne ==
  ASSUME NEW x \in Seq(Target)
  PROVE  FlattenSeq(<<x>>) = x
<1>1. <<x>> \in Seq(Seq(Target)) /\ Len(<<x>>) = 1 /\ <<x>>[1] = x
  OBVIOUS
<1>2. PICK f : Flattens(f, <<x>>)
  BY <1>1, FlattenFacts
<1>3. Joins(f, 1, <<x>>) /\ FlattenSeq(<<x>>) = f[1]
  BY <1>1, <1>2, Zenon DEF Flattens
<1>4. f[0] = <<>> /\ f[0 + 1] = f[0] \o <<x>>[0 + 1]
  <2>1. 0 \in Nat /\ 0 + 1 <= 1
    OBVIOUS
  <2> QED
    BY <1>3, <2>1, Zenon DEF Joins
<1>5. <<>> \o x = x /\ 0 + 1 = 1
  OBVIOUS
<1> QED
  BY <1>1, <1>3, <1>4, <1>5

(* A list of empty sequences flattens to the empty one. *)
LEMMA FlattenEmpty ==
  ASSUME NEW s \in Seq(Seq(Target)), \A i \in 1 .. Len(s) : s[i] = <<>>
  PROVE  FlattenSeq(s) = <<>>
<1>0. Lists(s) /\ Len(s) \in Nat
  BY FlattenFacts
<1>1. PICK f : Flattens(f, s)
  BY FlattenFacts
<1>2. Joins(f, Len(s), s) /\ FlattenSeq(s) = f[Len(s)]
  BY <1>1 DEF Flattens
<1> DEFINE N == {i \in Nat : i <= Len(s) => f[i] = <<>>}
<1>3. 0 \in N
  <2>1. f[0] = <<>>
    BY <1>2 DEF Joins
  <2> QED
    BY <2>1
<1>4. ASSUME NEW i \in Nat, i \in N
      PROVE  i + 1 \in N
  <2> SUFFICES ASSUME i + 1 <= Len(s)
               PROVE  f[i + 1] = <<>>
    OBVIOUS
  <2>1. i + 1 \in 0 .. Len(s) /\ i + 1 # 0 /\ (i + 1) - 1 = i /\ i + 1 \in 1 .. Len(s)
    BY <1>0
  <2>2. f[i + 1] = f[i] \o s[i + 1]
    BY <1>2, Zenon DEF Joins
  <2>3. f[i] = <<>> /\ s[i + 1] = <<>>
    BY <1>0, <1>4, <2>1
  <2>4. <<>> \o <<>> = <<>>
    OBVIOUS
  <2> QED
    BY <2>2, <2>3, <2>4, Zenon
<1>5. Nat \subseteq N
  <2> HIDE DEF N
  <2> QED
    BY <1>3, <1>4, InductiveSet
<1> QED
  BY <1>0, <1>2, <1>5

-----------------------------------------------------------------------------
(* The inputs that connections and calls lead to. *)

(* Routes are sequences of atomic inputs, and an atomic model reaches      *)
(* itself.                                                                 *)
LEMMA RouteFacts ==
  ASSUME NEW p \in Ports
  PROVE  /\ \A m \in Models : Reach[m, p] \in Seq(Target)
         /\ \A m \in Models \ {Root} : Route[m, p] \in Seq(Target)
         /\ \A a \in Atomic : Reach[a, p] = <<<<a, p>>>>
BY RouteAssumption, Zenon DEF Target

(* The list of what the connections chosen lead to. *)
ServedList(c, conns, which) ==
  [i \in DOMAIN conns |-> IF i \in which THEN Reach[D[c][conns[i].sink], conns[i].iport] ELSE <<>>]
PassedList(c, which) ==
  [i \in DOMAIN EOC[c] |-> IF i \in which THEN Route[c, EOC[c][i].oport] ELSE <<>>]

(* What connections into the children lead to is a sequence of inputs. *)
LEMMA ServedType ==
  ASSUME NEW c \in Coupled, NEW conns, Into(c, conns), DOMAIN conns = 1 .. Len(conns), NEW which
  PROVE  /\ ServedList(c, conns, which) \in Seq(Seq(Target))
         /\ Len(ServedList(c, conns, which)) = Len(conns)
         /\ Served(c, conns, which) = FlattenSeq(ServedList(c, conns, which))
         /\ Served(c, conns, which) \in Seq(Target)
<1> PICK s : s = ServedList(c, conns, which)
  OBVIOUS
<1> PICK n \in Nat : n = Len(conns)
  BY DEF Into
<1>1. ASSUME NEW i \in 1 .. n
      PROVE  s[i] \in Seq(Target)
  <2>1. conns[i].sink \in Index(c) /\ conns[i].iport \in Ports
    BY DEF Into
  <2>2. D[c][conns[i].sink] \in Models
    BY <2>1, TreeFacts
  <2>3. Reach[D[c][conns[i].sink], conns[i].iport] \in Seq(Target)
    BY <2>1, <2>2, RouteFacts, Zenon
  <2>4. <<>> \in Seq(Target)
    OBVIOUS
  <2>5. s[i] = IF i \in which THEN Reach[D[c][conns[i].sink], conns[i].iport] ELSE <<>>
    BY Zenon DEF ServedList
  <2> QED
    BY <2>3, <2>4, <2>5, Zenon
<1>2. s = [i \in 1 .. n |-> s[i]]
  BY Zenon DEF ServedList
<1>3. s \in Seq(Seq(Target)) /\ Len(s) = n
  BY <1>1, <1>2
<1>4. Served(c, conns, which) = FlattenSeq(s)
  BY Zenon DEF Served, ServedList
<1>5. FlattenSeq(s) \in Seq(Target)
  BY <1>3, FlattenFacts
<1> QED
  BY <1>3, <1>4, <1>5

(* So is what the output connections lead to. *)
LEMMA PassedType ==
  ASSUME NEW c \in Coupled, NEW which
  PROVE  /\ PassedList(c, which) \in Seq(Seq(Target))
         /\ Len(PassedList(c, which)) = Len(EOC[c])
         /\ Passed(c, which) = FlattenSeq(PassedList(c, which))
         /\ Passed(c, which) \in Seq(Target)
<1> PICK s : s = PassedList(c, which)
  OBVIOUS
<1>0. /\ DOMAIN EOC[c] = 1 .. Len(EOC[c]) /\ Len(EOC[c]) \in Nat
      /\ c = Root => Len(EOC[c]) = 0
      /\ \A i \in 1 .. Len(EOC[c]) : EOC[c][i].oport \in Ports
  <2>1. EOC[c] \in Seq([src : Index(c), sport : Ports, oport : Ports]) /\ (c = Root => EOC[c] = <<>>)
    BY ConnectionAssumption
  <2>2. DOMAIN EOC[c] = 1 .. Len(EOC[c]) /\ Len(EOC[c]) \in Nat
    BY <2>1
  <2>3. c = Root => Len(EOC[c]) = 0
    BY <2>1
  <2> QED
    BY <2>2, <2>3, ConnectionFacts
<1> PICK n \in Nat : n = Len(EOC[c])
  BY <1>0
<1>1. ASSUME NEW i \in 1 .. n
      PROVE  s[i] \in Seq(Target)
  <2>1. c # Root /\ EOC[c][i].oport \in Ports
    BY <1>0
  <2>2. Route[c, EOC[c][i].oport] \in Seq(Target)
    <3>1. c \in Models \ {Root}
      BY <2>1 DEF Models
    <3> QED
      BY <2>1, <3>1, RouteFacts, Zenon
  <2>3. <<>> \in Seq(Target)
    OBVIOUS
  <2>4. s[i] = IF i \in which THEN Route[c, EOC[c][i].oport] ELSE <<>>
    BY <1>0, Zenon DEF PassedList
  <2> QED
    BY <2>2, <2>3, <2>4, Zenon
<1>2. s = [i \in 1 .. n |-> s[i]]
  BY <1>0, Zenon DEF PassedList
<1>3. s \in Seq(Seq(Target)) /\ Len(s) = n
  BY <1>1, <1>2
<1>4. Passed(c, which) = FlattenSeq(s)
  BY Zenon DEF Passed, PassedList
<1>5. FlattenSeq(s) \in Seq(Target)
  BY <1>3, FlattenFacts
<1> QED
  BY <1>3, <1>4, <1>5

(* So is what one call leads to, ... *)
LEMMA LeadsType ==
  ASSUME NEW o \in Call
  PROVE  LeadsTo(o) \in Seq(Target)
<1>1. CASE o.op = "ext"
  <2>1. o.m \in Coupled /\ o.child \in Index(o.m) /\ o.port \in Ports
    BY <1>1, OpTypes
  <2>2. D[o.m][o.child] \in Models
    BY <2>1, TreeFacts
  <2>3. LeadsTo(o) = Reach[D[o.m][o.child], o.port]
    BY <1>1, Zenon DEF LeadsTo
  <2> QED
    BY <2>1, <2>2, <2>3, RouteFacts, Zenon
<1>2. CASE o.op = "eoc"
  <2>1. o.m \in Coupled
    BY <1>2, OpTypes
  <2>2. LeadsTo(o) = Passed(o.m, {i \in From(EOC[o.m], tc[o.m], o.port) : i >= o.i})
    BY <1>2 DEF LeadsTo
  <2> QED
    BY <2>1, <2>2, PassedType
<1>3. CASE o.op # "ext" /\ o.op # "eoc"
  <2>1. LeadsTo(o) = <<>>
    BY <1>3, Zenon DEF LeadsTo
  <2> QED
    BY <2>1
<1> QED
  BY <1>1, <1>2, <1>3

(* The list of what the calls of a stack lead to. *)
LeadsList(calls) == [j \in DOMAIN calls |-> LeadsTo(calls[j])]

(* ... and what all the calls of a stack lead to. *)
LEMMA InputsType ==
  ASSUME NEW calls \in Seq(Call)
  PROVE  /\ LeadsList(calls) \in Seq(Seq(Target)) /\ Len(LeadsList(calls)) = Len(calls)
         /\ \A j \in 1 .. Len(calls) : LeadsList(calls)[j] = LeadsTo(calls[j])
         /\ Inputs(calls) = FlattenSeq(LeadsList(calls)) /\ Inputs(calls) \in Seq(Target)
<1>0. DOMAIN calls = 1 .. Len(calls) /\ \A j \in 1 .. Len(calls) : calls[j] \in Call
  OBVIOUS
<1> PICK n \in Nat : n = Len(calls)
  OBVIOUS
<1>1. \A j \in 1 .. n : LeadsTo(calls[j]) \in Seq(Target)
  BY <1>0, LeadsType
<1>2. /\ LeadsList(calls) = [j \in 1 .. n |-> LeadsTo(calls[j])]
      /\ \A j \in 1 .. n : LeadsList(calls)[j] = LeadsTo(calls[j])
  BY <1>0, Zenon DEF LeadsList
<1>3. LeadsList(calls) \in Seq(Seq(Target)) /\ Len(LeadsList(calls)) = n
  BY <1>1, <1>2
<1>4. Inputs(calls) = FlattenSeq(LeadsList(calls))
  BY Zenon DEF Inputs, LeadsList
<1>5. Inputs(calls) \in Seq(Target)
  BY <1>3, <1>4, FlattenFacts
<1> QED
  BY <1>2, <1>3, <1>4, <1>5

(* The calls of two stacks, one on the other, lead to what each leads to. *)
LEMMA InputsConcat ==
  ASSUME NEW s \in Seq(Call), NEW r \in Seq(Call)
  PROVE  Inputs(s \o r) = Inputs(s) \o Inputs(r)
<1> PICK q : q = s \o r
  OBVIOUS
<1> PICK a, b, d : a = LeadsList(s) /\ b = LeadsList(r) /\ d = LeadsList(q)
  OBVIOUS
<1>1. /\ q \in Seq(Call) /\ Len(q) = Len(s) + Len(r) /\ Len(s) \in Nat /\ Len(r) \in Nat
      /\ \A j \in 1 .. Len(q) : q[j] = IF j <= Len(s) THEN s[j] ELSE r[j - Len(s)]
  OBVIOUS
<1>2. /\ a \in Seq(Seq(Target)) /\ Len(a) = Len(s) /\ \A j \in 1 .. Len(s) : a[j] = LeadsTo(s[j])
      /\ b \in Seq(Seq(Target)) /\ Len(b) = Len(r) /\ \A j \in 1 .. Len(r) : b[j] = LeadsTo(r[j])
      /\ d \in Seq(Seq(Target)) /\ Len(d) = Len(q) /\ \A j \in 1 .. Len(q) : d[j] = LeadsTo(q[j])
      /\ Inputs(s) = FlattenSeq(a) /\ Inputs(r) = FlattenSeq(b) /\ Inputs(q) = FlattenSeq(d)
  BY <1>1, InputsType
<1>3. /\ a \o b \in Seq(Seq(Target)) /\ Len(a \o b) = Len(s) + Len(r)
      /\ \A j \in 1 .. Len(s) + Len(r) :
           (a \o b)[j] = IF j <= Len(s) THEN a[j] ELSE b[j - Len(s)]
  <2>1. a \in Seq(Seq(Target)) /\ b \in Seq(Seq(Target))
    BY <1>2
  <2>2. /\ a \o b \in Seq(Seq(Target)) /\ Len(a \o b) = Len(a) + Len(b)
        /\ \A j \in 1 .. Len(a) + Len(b) :
             (a \o b)[j] = IF j <= Len(a) THEN a[j] ELSE b[j - Len(a)]
    BY <2>1, ConcatProperties
  <2>3. Len(a) = Len(s) /\ Len(b) = Len(r)
    BY <1>2
  <2> QED
    BY <2>2, <2>3, Zenon
<1>4. ASSUME NEW j \in 1 .. Len(q)
      PROVE  d[j] = (a \o b)[j]
  <2>1. CASE j <= Len(s)
    <3>1. j \in 1 .. Len(s) /\ q[j] = s[j]
      BY <1>1, <2>1
    <3>2. (a \o b)[j] = a[j]
      BY <1>1, <1>3, <2>1
    <3> QED
      BY <1>2, <3>1, <3>2, Zenon
  <2>2. CASE ~(j <= Len(s))
    <3>1. j - Len(s) \in 1 .. Len(r) /\ q[j] = r[j - Len(s)]
      BY <1>1, <2>2
    <3>2. (a \o b)[j] = b[j - Len(s)]
      BY <1>1, <1>3, <2>2
    <3> QED
      BY <1>2, <3>1, <3>2, Zenon
  <2> QED
    BY <2>1, <2>2
<1>5. d = a \o b
  <2>1. d \in Seq(Seq(Target)) /\ a \o b \in Seq(Seq(Target))
    BY <1>2, <1>3, Zenon
  <2>2. Len(d) = Len(a \o b) /\ \A j \in 1 .. Len(d) : d[j] = (a \o b)[j]
    BY <1>1, <1>2, <1>3, <1>4, Zenon
  <2> QED
    BY <2>1, <2>2, SeqEqual
<1>6. FlattenSeq(a \o b) = FlattenSeq(a) \o FlattenSeq(b)
  BY <1>2, FlattenConcat
<1> QED
  BY <1>2, <1>5, <1>6, Zenon

(* A single call leads to its own inputs. *)
LEMMA InputsOne ==
  ASSUME NEW o \in Call
  PROVE  Inputs(<<o>>) = LeadsTo(o)
<1> PICK c : c = <<o>>
  OBVIOUS
<1> PICK s : s = LeadsList(c)
  OBVIOUS
<1>1. c \in Seq(Call) /\ Len(c) = 1 /\ c[1] = o /\ 1 \in 1 .. 1
  OBVIOUS
<1>2. /\ s \in Seq(Seq(Target)) /\ Len(s) = 1 /\ s[1] = LeadsTo(o)
      /\ Inputs(c) = FlattenSeq(s)
  <2>1. /\ s \in Seq(Seq(Target)) /\ Len(s) = Len(c)
        /\ \A j \in 1 .. Len(c) : s[j] = LeadsTo(c[j])
        /\ Inputs(c) = FlattenSeq(s)
    BY <1>1, InputsType
  <2> QED
    BY <1>1, <2>1, Zenon
<1>3. s = <<LeadsTo(o)>>
  BY <1>2
<1>4. FlattenSeq(<<LeadsTo(o)>>) = LeadsTo(o)
  BY LeadsType, FlattenOne
<1> QED
  BY <1>2, <1>3, <1>4, Zenon

(* Calls of internal transitions, returns and lambda lead to no inputs. *)
LEMMA InputsNone ==
  ASSUME NEW calls \in Seq(Call), \A j \in 1 .. Len(calls) : calls[j].op \notin {"ext", "eoc"}
  PROVE  Inputs(calls) = <<>>
<1>1. \A j \in 1 .. Len(calls) : LeadsTo(calls[j]) = <<>>
  BY Zenon DEF LeadsTo
<1>2. /\ LeadsList(calls) \in Seq(Seq(Target))
      /\ \A j \in 1 .. Len(LeadsList(calls)) : LeadsList(calls)[j] = <<>>
      /\ Inputs(calls) = FlattenSeq(LeadsList(calls))
  BY <1>1, InputsType
<1> QED
  BY <1>2, FlattenEmpty

(* They depend on the transition children of the couplings whose output    *)
(* connections are being followed only.                                    *)
LEMMA InputsKept ==
  ASSUME NEW calls, NEW n \in Nat, DOMAIN calls = 1 .. n,
         \A j \in 1 .. n : calls[j].op = "eoc" => tc'[calls[j].m] = tc[calls[j].m]
  PROVE  Inputs(calls)' = Inputs(calls)
<1>1. ASSUME NEW j \in DOMAIN calls
      PROVE  LeadsTo(calls[j])' = LeadsTo(calls[j])
  BY DEF LeadsTo
<1>2. [j \in DOMAIN calls |-> LeadsTo(calls[j])]' = [j \in DOMAIN calls |-> LeadsTo(calls[j])]
  BY <1>1
<1> QED
  BY <1>2 DEF Inputs

(* The calls made for connections lead to what the connections lead to. *)
LEMMA InputsServed ==
  ASSUME NEW c \in Coupled, NEW conns, Into(c, conns), DOMAIN conns = 1 .. Len(conns), NEW which
  PROVE  /\ Serve(c, conns, which) \in Seq(Call)
         /\ Inputs(Serve(c, conns, which)) = Served(c, conns, which)
<1> PICK n \in Nat : n = Len(conns)
  BY DEF Into
<1> PICK s : s = ServedList(c, conns, which)
  OBVIOUS
<1> DEFINE E(i) == Ext(c, conns[i].sink, conns[i].iport)
           R(i) == Reach[D[c][conns[i].sink], conns[i].iport]
<1>1. PICK f : Serves(f, c, conns, which) /\ Serve(c, conns, which) = f[n]
  BY ServeSteps
<1>2. /\ f[0] = <<>>
      /\ \A i \in Nat : f[i + 1] = IF i + 1 \in which THEN Append(f[i], E(i + 1)) ELSE f[i]
  BY <1>1, Zenon DEF Serves
<1>3. s \in Seq(Seq(Target)) /\ Len(s) = n /\ Served(c, conns, which) = FlattenSeq(s)
  BY ServedType
<1>4. \A i \in 1 .. n : s[i] = IF i \in which THEN R(i) ELSE <<>>
  BY Zenon DEF ServedList
<1>5. PICK g : Flattens(g, s)
  BY <1>3, FlattenFacts
<1>6. Joins(g, n, s) /\ Served(c, conns, which) = g[n]
  BY <1>3, <1>5, Zenon DEF Flattens
<1>7. \A i \in 0 .. n : g[i] \in Seq(Target)
  <2>1. Lists(s)
    BY <1>3, FlattenFacts
  <2> QED
    BY <1>3, <1>6, <2>1, JoinsType, Zenon
<1>8. ASSUME NEW i \in 1 .. n
      PROVE  E(i) \in Call /\ LeadsTo(E(i)) = R(i)
  <2>1. conns[i].sink \in Index(c) /\ conns[i].iport \in Ports
    BY DEF Into
  <2>2. E(i) \in ExtCalls(c)
    BY <2>1 DEF Ext, ExtCalls
  <2>3. E(i) \in Call
    BY <2>2, CallTypes
  <2>4. /\ E(i).op = "ext" /\ E(i).m = c /\ E(i).child = conns[i].sink /\ E(i).port = conns[i].iport
    BY DEF Ext
  <2>5. LeadsTo(E(i)) = Reach[D[E(i).m][E(i).child], E(i).port]
    <3> HIDE DEF E
    <3> QED
      BY <2>4, Zenon DEF LeadsTo
  <2> QED
    BY <2>3, <2>4, <2>5, Zenon
<1> HIDE DEF E, R
<1> DEFINE N == {i \in Nat : i <= n => f[i] \in Seq(Call) /\ Inputs(f[i]) = g[i]}
<1>9. 0 \in N
  <2>1. g[0] = <<>>
    BY <1>6 DEF Joins
  <2> PICK e : e = f[0]
    OBVIOUS
  <2>2. e \in Seq(Call) /\ Len(e) = 0
    BY <1>2
  <2>3. \A j \in 1 .. Len(e) : e[j].op \notin {"ext", "eoc"}
    BY <2>2
  <2>4. Inputs(e) = <<>>
    BY <2>2, <2>3, InputsNone
  <2>5. f[0] \in Seq(Call) /\ Inputs(f[0]) = g[0] /\ 0 \in Nat
    BY <2>1, <2>2, <2>4, Zenon
  <2> QED
    BY <2>5, Zenon
<1>10. ASSUME NEW i \in Nat, i \in N
       PROVE  i + 1 \in N
  <2>0. i + 1 \in Nat /\ (i + 1 <= n => i <= n /\ i + 1 \in 1 .. n /\ i \in 0 .. n)
    OBVIOUS
  <2> SUFFICES ASSUME i + 1 <= n
               PROVE  f[i + 1] \in Seq(Call) /\ Inputs(f[i + 1]) = g[i + 1]
    BY <2>0, Zenon
  <2>1. f[i] \in Seq(Call) /\ Inputs(f[i]) = g[i]
    BY <1>10, <2>0, Zenon
  <2>2. g[i + 1] = g[i] \o s[i + 1]
    BY <1>6, Zenon DEF Joins
  <2>3. f[i + 1] = IF i + 1 \in which THEN Append(f[i], E(i + 1)) ELSE f[i]
    BY <1>2, Zenon
  <2>4. s[i + 1] = IF i + 1 \in which THEN R(i + 1) ELSE <<>>
    BY <1>4, <2>0, Zenon
  <2> PICK e, o, r : e = f[i] /\ o = E(i + 1) /\ r = g[i]
    OBVIOUS
  <2>5. e \in Seq(Call) /\ o \in Call /\ Inputs(e) = r /\ LeadsTo(o) = R(i + 1)
    BY <1>8, <2>0, <2>1, Zenon
  <2>6. CASE i + 1 \in which
    <3>1. Append(e, o) \in Seq(Call) /\ Append(e, o) = e \o <<o>> /\ <<o>> \in Seq(Call)
      BY <2>5
    <3>2. Inputs(e \o <<o>>) = Inputs(e) \o Inputs(<<o>>)
      BY <2>5, <3>1, InputsConcat
    <3>3. Inputs(<<o>>) = LeadsTo(o)
      BY <2>5, InputsOne
    <3>4. f[i + 1] = Append(e, o) /\ s[i + 1] = R(i + 1)
      BY <2>3, <2>4, <2>6, Zenon
    <3> QED
      BY <2>2, <2>5, <3>1, <3>2, <3>3, <3>4, Zenon
  <2>7. CASE i + 1 \notin which
    <3>1. f[i + 1] = e /\ s[i + 1] = <<>>
      BY <2>3, <2>4, <2>7, Zenon
    <3>2. r \in Seq(Target)
      BY <1>7, <2>0, Zenon
    <3>3. r \o <<>> = r
      BY <3>2
    <3> QED
      BY <2>2, <2>5, <3>1, <3>3, Zenon
  <2> QED
    BY <2>6, <2>7
<1>11. Nat \subseteq N
  <2> HIDE DEF N
  <2> QED
    BY <1>9, <1>10, InductiveSet
<1>12. n \in N /\ n <= n
  <2> HIDE DEF N
  <2> QED
    BY <1>11
<1>13. f[n] \in Seq(Call) /\ Inputs(f[n]) = g[n]
  BY <1>12, Zenon
<1> QED
  BY <1>1, <1>6, <1>13, Zenon

(* An input of a coupled model leads where its calls lead. *)
LEMMA InputsEntered ==
  ASSUME NEW c \in Coupled, NEW p \in Ports
  PROVE  Enter(c, p) \in Seq(Call) /\ Inputs(Enter(c, p)) = Reach[c, p]
<1> PICK w : w = {i \in DOMAIN EIC[c] : EIC[c][i].sport = p}
  OBVIOUS
<1>1. Enter(c, p) = Serve(c, EIC[c], w)
  BY DEF Enter
<1>2. Reach[c, p] = Served(c, EIC[c], w)
  BY RouteAssumption, Zenon
<1>3. Into(c, EIC[c]) /\ DOMAIN EIC[c] = 1 .. Len(EIC[c])
  BY ConnectionFacts
<1>4. Serve(c, EIC[c], w) \in Seq(Call) /\ Inputs(Serve(c, EIC[c], w)) = Served(c, EIC[c], w)
  BY <1>3, InputsServed
<1> QED
  BY <1>1, <1>2, <1>4, Zenon

(* The loop over the output connections leads to what is left of them. *)
LEMMA EocLeads ==
  ASSUME NEW c, NEW p, NEW i
  PROVE  LeadsTo(Eoc(c, p, i)) = Passed(c, {j \in From(EOC[c], tc[c], p) : j >= i})
<1> PICK o : o = Eoc(c, p, i)
  OBVIOUS
<1>1. o.op = "eoc" /\ o.m = c /\ o.port = p /\ o.i = i
  BY DEF Eoc
<1>2. LeadsTo(o) = Passed(o.m, {j \in From(EOC[o.m], tc[o.m], o.port) : j >= o.i})
  BY <1>1 DEF LeadsTo
<1> QED
  BY <1>1, <1>2, Zenon

(* And so does an output that its father propagates. *)
LEMMA InputsPropagated ==
  ASSUME NEW c \in Coupled, tc[c] \in Index(c), NEW p \in Ports
  PROVE  Propagate(c, p) \in Seq(Call) /\ Inputs(Propagate(c, p)) = Route[Child(c), p]
<1> PICK w, o : w = From(IC[c], tc[c], p) /\ o = Eoc(c, p, 1)
  OBVIOUS
<1> PICK s : s = Serve(c, IC[c], w)
  OBVIOUS
<1>0. Len(EOC[c]) \in Nat /\ DOMAIN EOC[c] = 1 .. Len(EOC[c])
  <2>1. EOC[c] \in Seq([src : Index(c), sport : Ports, oport : Ports])
    BY ConnectionAssumption
  <2> QED
    BY <2>1
<1>1. Propagate(c, p) = s \o <<o>>
  BY DEF Propagate, From
<1>2. Into(c, IC[c]) /\ DOMAIN IC[c] = 1 .. Len(IC[c])
  BY ConnectionFacts
<1>3. s \in Seq(Call) /\ Inputs(s) = Served(c, IC[c], w)
  BY <1>2, InputsServed
<1>4. o \in Call
  <2>1. 1 \in Nat /\ 1 \in 1 .. Len(EOC[c]) + 1
    BY <1>0
  <2> QED
    BY <2>1, CallTypes
<1>5. <<o>> \in Seq(Call) /\ s \o <<o>> \in Seq(Call)
  BY <1>3, <1>4
<1>6. LeadsTo(o) = Passed(c, From(EOC[c], tc[c], p))
  <2>1. From(EOC[c], tc[c], p) \subseteq Nat \ {0}
    BY <1>0 DEF From
  <2>2. {j \in From(EOC[c], tc[c], p) : j >= 1} = From(EOC[c], tc[c], p)
    BY <2>1
  <2> QED
    BY <2>2, EocLeads, Zenon
<1>7. Inputs(s \o <<o>>) = Inputs(s) \o Inputs(<<o>>)
  BY <1>3, <1>5, InputsConcat
<1>8. Inputs(<<o>>) = LeadsTo(o)
  BY <1>4, InputsOne
<1>9. Route[Child(c), p] = Served(c, IC[c], w) \o Passed(c, From(EOC[c], tc[c], p))
  BY RouteAssumption, Zenon DEF Child
<1> QED
  BY <1>1, <1>3, <1>5, <1>6, <1>7, <1>8, <1>9, Zenon

(* What is left of the output connections F from the k-th on, and what the *)
(* k-th of them leads to.                                                  *)
Left(F, k)    == {j \in F : j >= k}
Turn(c, F, k) == IF k \in F THEN Route[c, EOC[c][k].oport] ELSE <<>>

(* One more output connection followed. *)
LEMMA PassedOne ==
  ASSUME NEW c \in Coupled, NEW F, NEW k, k \in 1 .. Len(EOC[c])
  PROVE  Passed(c, Left(F, k)) = Turn(c, F, k) \o Passed(c, Left(F, k + 1))
<1> PICK n \in Nat : n = Len(EOC[c])
  BY ConnectionFacts
<1> PICK v, w : v = Left(F, k) /\ w = Left(F, k + 1)
  OBVIOUS
<1> PICK r, s : r = PassedList(c, v) /\ s = PassedList(c, w)
  OBVIOUS
<1> DEFINE x == Turn(c, F, k)
<1>0. k \in Nat /\ k \in 1 .. n /\ DOMAIN EOC[c] = 1 .. n
  <2>1. EOC[c] \in Seq([src : Index(c), sport : Ports, oport : Ports])
    BY ConnectionAssumption
  <2> QED
    BY <2>1
<1>1. /\ r \in Seq(Seq(Target)) /\ Len(r) = n /\ Passed(c, v) = FlattenSeq(r)
      /\ s \in Seq(Seq(Target)) /\ Len(s) = n /\ Passed(c, w) = FlattenSeq(s)
  BY PassedType
<1>2. ASSUME NEW i \in 1 .. n
      PROVE  /\ i < k => r[i] = <<>>
             /\ i <= k => s[i] = <<>>
             /\ i > k => r[i] = s[i]
             /\ i = k => r[i] = x
  <2>1. /\ r[i] = IF i \in v THEN Route[c, EOC[c][i].oport] ELSE <<>>
        /\ s[i] = IF i \in w THEN Route[c, EOC[c][i].oport] ELSE <<>>
    BY <1>0, Zenon DEF PassedList
  <2>2. /\ i < k => i \notin v
        /\ i <= k => i \notin w
        /\ i > k => (i \in v <=> i \in w)
        /\ i = k => (i \in v <=> i \in F)
    BY <1>0 DEF Left
  <2> QED
    BY <2>1, <2>2, Zenon DEF Turn
<1>3. x \in Seq(Target)
  <2>1. r[k] \in Seq(Target)
    BY <1>0, <1>1
  <2>2. r[k] = x
    BY <1>0, <1>2, Zenon
  <2> QED
    BY <2>1, <2>2, Zenon
<1> HIDE DEF x
<1>4. PICK f, g : /\ Joins(f, n, r) /\ Passed(c, v) = f[n]
                  /\ Joins(g, n, s) /\ Passed(c, w) = g[n]
  <2>1. PICK f : Flattens(f, r)
    BY <1>1, FlattenFacts
  <2>2. PICK g : Flattens(g, s)
    BY <1>1, FlattenFacts
  <2>3. Joins(f, n, r) /\ Passed(c, v) = f[n]
    BY <1>1, <2>1, Zenon DEF Flattens
  <2>4. Joins(g, n, s) /\ Passed(c, w) = g[n]
    BY <1>1, <2>2, Zenon DEF Flattens
  <2> QED
    BY <2>3, <2>4, Zenon
<1>5. f[0] = <<>> /\ g[0] = <<>> /\ <<>> \o <<>> = <<>>
  BY <1>4 DEF Joins
<1>6. ASSUME NEW i \in Nat, i + 1 <= n
      PROVE  f[i + 1] = f[i] \o r[i + 1] /\ g[i + 1] = g[i] \o s[i + 1] /\ i + 1 \in 1 .. n
  <2>1. i + 1 \in 1 .. n
    BY <1>6
  <2> QED
    BY <1>4, <1>6, <2>1, Zenon DEF Joins
<1>7. \A i \in 0 .. n : g[i] \in Seq(Target)
  <2>1. Lists(s)
    BY <1>1, FlattenFacts
  <2> QED
    BY <1>1, <1>4, <2>1, JoinsType, Zenon
<1> DEFINE N == {i \in Nat : i <= n => /\ i < k => f[i] = <<>> /\ g[i] = <<>>
                                       /\ i >= k => f[i] = x \o g[i]}
<1>8. 0 \in N
  BY <1>0, <1>5
<1>9. ASSUME NEW i \in Nat, i \in N
      PROVE  i + 1 \in N
  <2>0. /\ i + 1 \in Nat /\ (i + 1 <= n => i <= n /\ i \in 0 .. n)
        /\ (i + 1 < k => i < k /\ i + 1 <= k) /\ (i + 1 >= k => i + 1 = k \/ (i >= k /\ i + 1 > k))
        /\ (i + 1 = k => i < k /\ i + 1 <= k)
    BY <1>0
  <2> SUFFICES ASSUME i + 1 <= n
               PROVE  /\ i + 1 < k => f[i + 1] = <<>> /\ g[i + 1] = <<>>
                      /\ i + 1 >= k => f[i + 1] = x \o g[i + 1]
    BY <2>0, Zenon
  <2>1. f[i + 1] = f[i] \o r[i + 1] /\ g[i + 1] = g[i] \o s[i + 1] /\ i + 1 \in 1 .. n
    BY <1>6
  <2>2. /\ i < k => f[i] = <<>> /\ g[i] = <<>>
        /\ i >= k => f[i] = x \o g[i]
    BY <1>9, <2>0, Zenon
  <2>3. CASE i + 1 < k
    <3>1. i < k /\ i + 1 <= k /\ ~(i + 1 >= k)
      BY <1>0, <2>3
    <3>2. f[i] = <<>> /\ g[i] = <<>> /\ r[i + 1] = <<>> /\ s[i + 1] = <<>>
      BY <1>2, <2>1, <2>2, <2>3, <3>1, Zenon
    <3> QED
      BY <1>5, <2>1, <3>1, <3>2, Zenon
  <2>4. CASE i + 1 = k
    <3>1. i < k /\ i + 1 <= k /\ ~(i + 1 < k)
      BY <1>0, <2>4
    <3>2. f[i] = <<>> /\ g[i] = <<>> /\ r[i + 1] = x /\ s[i + 1] = <<>>
      BY <1>2, <2>1, <2>2, <2>4, <3>1, Zenon
    <3>3. <<>> \o x = x /\ x \o <<>> = x
      BY <1>3
    <3> QED
      BY <1>5, <2>1, <3>1, <3>2, <3>3, Zenon
  <2>5. CASE i >= k /\ i + 1 > k
    <3>1. ~(i + 1 < k)
      BY <1>0, <2>5
    <3>2. f[i] = x \o g[i] /\ r[i + 1] = s[i + 1]
      BY <1>2, <2>1, <2>2, <2>5, Zenon
    <3> PICK a, b : a = g[i] /\ b = s[i + 1]
      OBVIOUS
    <3>3. a \in Seq(Target) /\ b \in Seq(Target)
      <4>1. a \in Seq(Target)
        BY <1>7, <2>0, Zenon
      <4>2. b \in Seq(Target)
        BY <1>1, <2>1
      <4> QED
        BY <4>1, <4>2
    <3>4. Cat(Cat(x, a), b) = Cat(x, Cat(a, b))
      BY <1>3, <3>3, Associates
    <3> QED
      BY <2>1, <3>1, <3>2, <3>4, Zenon DEF Cat
  <2>6. i + 1 < k \/ i + 1 = k \/ (i >= k /\ i + 1 > k)
    BY <1>0
  <2> QED
    BY <2>3, <2>4, <2>5, <2>6, Zenon
<1>10. Nat \subseteq N
  <2> HIDE DEF N
  <2> QED
    BY <1>8, <1>9, InductiveSet
<1>11. n \in N /\ n <= n /\ n >= k
  <2> HIDE DEF N
  <2> QED
    BY <1>0, <1>10
<1>12. f[n] = x \o g[n]
  BY <1>11, Zenon
<1> QED
  BY <1>4, <1>12, Zenon DEF x

(* The call of the loop leads to what is left of it. *)
LEMMA InputsTurn ==
  ASSUME NEW c \in Coupled, NEW p \in Ports, NEW k, k \in 1 .. Len(EOC[c]) + 1,
         NEW F, F = From(EOC[c], tc[c], p)
  PROVE  /\ k > Len(EOC[c]) => LeadsTo(Eoc(c, p, k)) = <<>>
         /\ k <= Len(EOC[c]) =>
              LeadsTo(Eoc(c, p, k)) = Turn(c, F, k) \o LeadsTo(Eoc(c, p, k + 1))
<1> PICK n \in Nat : n = Len(EOC[c])
  BY ConnectionFacts
<1>0. DOMAIN EOC[c] = 1 .. n /\ F \subseteq 1 .. n
  <2>1. EOC[c] \in Seq([src : Index(c), sport : Ports, oport : Ports])
    BY ConnectionAssumption
  <2> QED
    BY <2>1 DEF From
<1>1. ASSUME k > n
      PROVE  LeadsTo(Eoc(c, p, k)) = <<>>
  <2> PICK s : s = PassedList(c, {})
    OBVIOUS
  <2>1. {j \in F : j >= k} = {}
    BY <1>0, <1>1
  <2>2. LeadsTo(Eoc(c, p, k)) = Passed(c, {})
    BY <2>1, EocLeads, Zenon
  <2>3. s \in Seq(Seq(Target)) /\ Len(s) = n /\ Passed(c, {}) = FlattenSeq(s)
    BY PassedType
  <2>4. \A i \in 1 .. n : s[i] = <<>>
    BY <1>0 DEF PassedList
  <2>5. FlattenSeq(s) = <<>>
    BY <2>3, <2>4, FlattenEmpty
  <2> QED
    BY <2>2, <2>3, <2>5, Zenon
<1>2. ASSUME k <= n
      PROVE  LeadsTo(Eoc(c, p, k)) = Turn(c, F, k) \o LeadsTo(Eoc(c, p, k + 1))
  <2>1. k \in 1 .. n /\ k \in 1 .. Len(EOC[c])
    BY <1>2
  <2>3. Passed(c, Left(F, k)) = Turn(c, F, k) \o Passed(c, Left(F, k + 1))
    BY <2>1, PassedOne, Zenon
  <2>4. /\ LeadsTo(Eoc(c, p, k)) = Passed(c, Left(F, k))
        /\ LeadsTo(Eoc(c, p, k + 1)) = Passed(c, Left(F, k + 1))
    BY EocLeads, Zenon DEF Left
  <2> QED
    BY <2>3, <2>4, Zenon
<1> QED
  BY <1>1, <1>2, Zenon

-----------------------------------------------------------------------------
(* What holds of the atomic models, and of a coupling when it holds of its *)
(* children, holds of every model.                                         *)
LEMMA TreeInduction ==
  ASSUME NEW S, Atomic \subseteq S,
         \A c \in Coupled : (\A k \in Index(c) : D[c][k] \in S) => c \in S
  PROVE  Models \subseteq S
<1>1. PICK h \in Nat : \A m \in Models : Level[m] <= h
  BY DepthAssumption, LevelType
<1> DEFINE N == {n \in Nat : \A m \in Models : Level[m] + n >= h => m \in S}
<1>2. ASSUME NEW n, NEW c \in Coupled, n \in {0} \/ (n - 1 \in Nat /\ n - 1 \in N), n \in Nat,
             Level[c] + n >= h
      PROVE  c \in S
  <2>1. ASSUME NEW k \in Index(c)
        PROVE  D[c][k] \in S
    <3>1. /\ D[c][k] \in Models /\ Level[D[c][k]] = Level[c] + 1
          /\ c \in Models /\ Level[c] \in Nat
      BY TreeFacts, TreeAssumption, LevelType DEF Models
    <3>2. Level[D[c][k]] <= h
      BY <1>1, <3>1
    <3>3. n # 0
      BY <1>2, <3>1, <3>2
    <3>4. Level[D[c][k]] + (n - 1) >= h
      BY <1>2, <3>1
    <3> QED
      BY <1>2, <3>1, <3>3, <3>4
  <2> QED
    BY <2>1
<1>3. 0 \in N
  <2> SUFFICES ASSUME NEW m \in Models, Level[m] + 0 >= h
               PROVE  m \in S
    OBVIOUS
  <2> QED
    BY <1>2 DEF Models
<1>4. ASSUME NEW n \in Nat, n \in N
      PROVE  n + 1 \in N
  <2> SUFFICES ASSUME NEW m \in Models, Level[m] + (n + 1) >= h
               PROVE  m \in S
    OBVIOUS
  <2>1. n + 1 \in Nat /\ (n + 1) - 1 = n
    OBVIOUS
  <2> HIDE DEF N
  <2> QED
    BY <1>2, <1>4, <2>1 DEF Models
<1>5. Nat \subseteq N
  <2> HIDE DEF N
  <2> QED
    BY <1>3, <1>4, InductiveSet
<1>6. h \in N /\ \A m \in Models : Level[m] + h >= h
  <2> HIDE DEF N
  <2> QED
    BY <1>5, LevelType
<1> QED
  BY <1>6

(* The atomic model that each model leads to when every coupling c goes on *)
(* with its child first[c].                                                *)
Down(f, first) ==
  \A m \in Models : f[m] \in Atomic /\ f[m] = IF m \in Atomic THEN m ELSE f[D[m][first[m]]]

(* There is such a function, by induction over the levels of the tree. *)
LEMMA DownExists ==
  ASSUME NEW first, \A c \in Coupled : first[c] \in Index(c)
  PROVE  \E f : f = [m \in Models |-> IF m \in Atomic THEN m ELSE f[D[m][first[m]]]]
<1> DEFINE next(m) == D[m][first[m]]
<1>1. ASSUME NEW c \in Models, c \notin Atomic
      PROVE  next(c) \in Models /\ Level[next(c)] = Level[c] + 1
  <2>1. c \in Coupled /\ first[c] \in Index(c)
    BY <1>1 DEF Models
  <2> QED
    BY <2>1, TreeFacts, TreeAssumption
<1> HIDE DEF next
<1>2. PICK h \in Nat : \A m \in Models : Level[m] <= h
  BY DepthAssumption, LevelType
<1> DEFINE Lower(n, f) == \A m \in Models : Level[m] + n >= h =>
                           f[m] \in Atomic /\ f[m] = IF m \in Atomic THEN m ELSE f[next(m)]
           N == {n \in Nat : \E f : Lower(n, f)}
<1>3. 0 \in N
  <2> DEFINE f == [m \in Models |-> m]
  <2>1. ASSUME NEW m \in Models, Level[m] + 0 >= h
        PROVE  m \in Atomic
    <3> SUFFICES ASSUME m \notin Atomic
                 PROVE  FALSE
      OBVIOUS
    <3>1. next(m) \in Models /\ Level[next(m)] = Level[m] + 1 /\ Level[m] \in Nat
      BY <1>1, LevelType
    <3>2. Level[next(m)] <= h
      BY <1>2, <3>1
    <3> QED
      BY <2>1, <3>1, <3>2
  <2>2. Lower(0, f)
    BY <2>1
  <2> QED
    BY <2>2
<1>4. ASSUME NEW n \in Nat, n \in N
      PROVE  n + 1 \in N
  <2>1. PICK f : Lower(n, f)
    BY <1>4
  <2> DEFINE g == [m \in Models |-> IF m \in Atomic THEN m ELSE f[next(m)]]
  <2>2. ASSUME NEW m \in Models, Level[m] + (n + 1) >= h
        PROVE  g[m] \in Atomic /\ g[m] = IF m \in Atomic THEN m ELSE g[next(m)]
    <3>1. CASE m \in Atomic
      BY <3>1
    <3>2. CASE m \notin Atomic
      <4>1. next(m) \in Models /\ Level[next(m)] = Level[m] + 1 /\ Level[m] \in Nat
        BY <1>1, <3>2, LevelType
      <4>2. Level[next(m)] + n >= h
        BY <2>2, <4>1
      <4>3. /\ f[next(m)] \in Atomic
            /\ f[next(m)] = IF next(m) \in Atomic THEN next(m) ELSE f[next(next(m))]
        BY <2>1, <4>1, <4>2, Zenon
      <4>4. g[m] = f[next(m)]
        BY <3>2
      <4>5. g[next(m)] = IF next(m) \in Atomic THEN next(m) ELSE f[next(next(m))]
        BY <4>1
      <4> HIDE DEF g
      <4> QED
        BY <3>2, <4>3, <4>4, <4>5, Zenon
    <3> QED
      BY <3>1, <3>2
  <2> HIDE DEF g
  <2>3. Lower(n + 1, g)
    BY <2>2
  <2> QED
    BY <2>3
<1>5. h \in N
  <2> HIDE DEF N
  <2>1. Nat \subseteq N
    BY <1>3, <1>4, InductiveSet
  <2> QED
    BY <2>1
<1>6. PICK f : Lower(h, f)
  BY <1>5
<1>7. ASSUME NEW m \in Models
      PROVE  f[m] \in Atomic /\ f[m] = IF m \in Atomic THEN m ELSE f[next(m)]
  <2>1. Level[m] + h >= h
    BY LevelType
  <2> QED
    BY <1>6, <2>1
<1> DEFINE g == [m \in Models |-> f[m]]
<1>8. ASSUME NEW m \in Models
      PROVE  g[m] \in Atomic /\ g[m] = IF m \in Atomic THEN m ELSE g[next(m)]
  <2>1. g[m] = f[m]
    OBVIOUS
  <2>2. m \notin Atomic => g[next(m)] = f[next(m)]
    BY <1>1
  <2> HIDE DEF g
  <2> QED
    BY <1>7, <2>1, <2>2, Zenon
<1>9. g = [m \in Models |-> IF m \in Atomic THEN m ELSE g[next(m)]]
  BY <1>8
<1> HIDE DEF g
<1> QED
  BY <1>9, Zenon DEF next

(* Its values are atomic models. *)
LEMMA DownAtomic ==
  ASSUME NEW first, \A c \in Coupled : first[c] \in Index(c),
         NEW f, \A m \in Models : f[m] = IF m \in Atomic THEN m ELSE f[D[m][first[m]]]
  PROVE  \A m \in Models : f[m] \in Atomic
<1> DEFINE S == {m \in Models : f[m] \in Atomic}
<1>1. Atomic \subseteq S
  BY DEF Models
<1>2. ASSUME NEW c \in Coupled, \A k \in Index(c) : D[c][k] \in S
      PROVE  c \in S
  <2>1. c \in Models /\ c \notin Atomic
    BY TreeAssumption DEF Models
  <2> QED
    BY <1>2, <2>1
<1>3. Models \subseteq S
  <2> HIDE DEF S
  <2> QED
    BY <1>1, <1>2, TreeInduction
<1> QED
  BY <1>3

(* The function that the recursive definition of Leaf chooses. *)
Lowest(first) ==
  CHOOSE f : f = [m \in Models |-> IF m \in Atomic THEN m ELSE f[D[m][first[m]]]]

(* The one chosen has that property. *)
LEMMA LastDown ==
  ASSUME NEW first, \A c \in Coupled : first[c] \in Index(c)
  PROVE  Down(Lowest(first), first)
<1> DEFINE Fix(f) == f = [m \in Models |-> IF m \in Atomic THEN m ELSE f[D[m][first[m]]]]
           L == CHOOSE f : Fix(f)
<1>1. \A c \in Coupled : first[c] \in Index(c)
  OBVIOUS
<1>2. PICK f : Fix(f)
  BY <1>1, DownExists
<1>3. Fix(L)
  BY <1>2, Zenon
<1>4. Lowest(first) = L
  BY Zenon DEF Lowest
<1> HIDE DEF L
<1>5. \A m \in Models : L[m] = IF m \in Atomic THEN m ELSE L[D[m][first[m]]]
  BY <1>3
<1>6. \A m \in Models : L[m] \in Atomic
  BY <1>1, <1>5, DownAtomic
<1> QED
  BY <1>4, <1>5, <1>6, Zenon DEF Down

(* Leaf is that for the transition children, before a step and after it.   *)
LEMMA LeafFacts ==
  /\ TypeOK => Down(Leaf, tc)
  /\ TypeOK' => Down(Leaf', tc')
<1> PICK s, r : s = tc /\ r = tc'
  OBVIOUS
<1>1. Leaf = Lowest(s) /\ Leaf' = Lowest(r)
  BY Zenon DEF Leaf, Child, Lowest
<1>2. TypeOK => Down(Lowest(s), s)
  BY LastDown DEF TypeOK
<1>3. TypeOK' => Down(Lowest(r), r)
  <2> SUFFICES ASSUME TypeOK'
               PROVE  Down(Lowest(r), r)
    OBVIOUS
  <2>1. \A c \in Coupled : r[c] \in Index(c)
    BY DEF TypeOK, Index
  <2> QED
    BY <2>1, LastDown
<1> QED
  BY <1>1, <1>2, <1>3

(* Leaf goes down one child at a time. *)
LEMMA LeafSteps ==
  ASSUME TypeOK
  PROVE  /\ \A a \in Atomic : Leaf[a] = a
         /\ \A c \in Coupled : Child(c) \in Models /\ Leaf[c] = Leaf[Child(c)]
         /\ \A m \in Models : Leaf[m] \in Atomic
<1>1. /\ \A m \in Models : Leaf[m] \in Atomic
      /\ \A m \in Models : Leaf[m] = IF m \in Atomic THEN m ELSE Leaf[Child(m)]
  BY LeafFacts, Zenon DEF Down, Child
<1>2. \A c \in Coupled : c \in Models /\ c \notin Atomic /\ Child(c) \in Models
  BY TreeFacts, TreeAssumption DEF Models, TypeOK, Child
<1> QED
  BY <1>1, <1>2, Zenon DEF Models

(* The models of a path all lead to the atomic model at its lower end.     *)
Way(U, first, from) ==
  /\ U \subseteq Coupled
  /\ \A c \in U : c = from \/ (c # Root /\ Father(c) \in U /\ D[Father(c)][first[Father(c)]] = c)

(* By induction from the lower end of the path. *)
LEMMA DownPath ==
  ASSUME NEW first, NEW f, Down(f, first), NEW U, NEW from, Way(U, first, from),
         NEW a \in Atomic, Father(a) \in U, D[Father(a)][first[Father(a)]] = a
  PROVE  f[from] = a
<1> DEFINE L == {Level[d] : d \in {x \in U : f[x] # f[from]}}
<1>1. /\ U \subseteq Coupled /\ U \subseteq Models
      /\ \A m \in Models : f[m] = IF m \in Atomic THEN m ELSE f[D[m][first[m]]]
  BY DEF Models, Down, Way
<1>2. L \in SUBSET Nat
  BY <1>1, LevelType
<1>3. L = {}
  <2> SUFFICES ASSUME L # {}
               PROVE  FALSE
    OBVIOUS
  <2>1. PICK l \in L : \A y \in L : l <= y
    <3> HIDE DEF L
    <3> QED
      BY <1>2, LeastNatural
  <2>2. PICK d \in U : f[d] # f[from] /\ l = Level[d]
    BY <2>1
  <2> PICK g : g = Father(d)
    OBVIOUS
  <2>3. d # Root /\ g \in U /\ D[g][first[g]] = d
    BY <2>2 DEF Way
  <2>4. Level[d] = Level[g] + 1 /\ Level[g] \in Nat
    BY <1>1, <2>3, FatherFacts, LevelType
  <2>5. f[g] = f[d]
    <3>1. g \in Models /\ g \notin Atomic
      BY <1>1, <2>3, TreeAssumption
    <3> QED
      BY <1>1, <2>3, <3>1, Zenon
  <2>6. Level[g] \in L
    BY <2>2, <2>3, <2>5
  <2>7. l <= Level[g]
    BY <2>1, <2>6
  <2> QED
    BY <2>2, <2>4, <2>7
<1>4. f[Father(a)] = f[from]
  BY <1>3
<1>5. f[Father(a)] = f[a] /\ f[a] = a
  BY <1>1, TreeAssumption DEF Models
<1> QED
  BY <1>4, <1>5

(* So does the root, before a step and after it. *)
LEMMA LeafEnds ==
  ASSUME NEW U, NEW a \in Atomic, Father(a) \in U
  PROVE  /\ TypeOK /\ PathFrom(U, Root) /\ Child(Father(a)) = a => Leaf[Root] = a
         /\ TypeOK' /\ PathFrom(U, Root)' /\ Child(Father(a))' = a => Leaf'[Root] = a
<1> PICK s, r : s = tc /\ r = tc'
  OBVIOUS
<1>1. ASSUME TypeOK, PathFrom(U, Root), Child(Father(a)) = a
      PROVE  Leaf[Root] = a
  <2> PICK f : f = Leaf
    OBVIOUS
  <2>1. Down(f, s)
    BY <1>1, LeafFacts
  <2>2. Way(U, s, Root) /\ D[Father(a)][s[Father(a)]] = a
    BY <1>1 DEF PathFrom, Child, Way
  <2>3. f[Root] = a
    BY <2>1, <2>2, DownPath
  <2> QED
    BY <2>3
<1>2. ASSUME TypeOK', PathFrom(U, Root)', Child(Father(a))' = a
      PROVE  Leaf'[Root] = a
  <2> PICK f : f = Leaf'
    OBVIOUS
  <2>1. Down(f, r)
    BY <1>2, LeafFacts
  <2>2. Way(U, r, Root) /\ D[Father(a)][r[Father(a)]] = a
    BY <1>2 DEF PathFrom, Child, Way
  <2>3. f[Root] = a
    BY <2>1, <2>2, DownPath
  <2> QED
    BY <2>3
<1> QED
  BY <1>1, <1>2

-----------------------------------------------------------------------------
(* The order of the atomic models. *)
LEMMA LeavesType == \A m \in Models : Leaves[m] \subseteq Atomic
<1> DEFINE S == {m \in Models : Leaves[m] \subseteq Atomic}
<1>1. Atomic \subseteq S
  BY FlatAssumption DEF Models
<1>2. ASSUME NEW c \in Coupled, \A k \in Index(c) : D[c][k] \in S
      PROVE  c \in S
  <2>1. Leaves[c] = UNION {Leaves[D[c][k]] : k \in Index(c)}
    BY FlatAssumption, Zenon
  <2> QED
    BY <1>2, <2>1 DEF Models
<1>3. Models \subseteq S
  <2> HIDE DEF S
  <2> QED
    BY <1>1, <1>2, TreeInduction
<1> QED
  BY <1>3

(* Every atomic model is in the root. *)
LEMMA RootLeaves == Atomic \subseteq Leaves[Root]
<1> SUFFICES ASSUME NEW a \in Atomic, a \notin Leaves[Root]
             PROVE  FALSE
  OBVIOUS
<1> DEFINE L == {Level[m] : m \in {x \in Models : a \in Leaves[x]}}
<1>1. L \in SUBSET Nat
  BY LevelType
<1>2. L # {}
  BY FlatAssumption DEF Models
<1>3. PICK l \in L : \A y \in L : l <= y
  <2> HIDE DEF L
  <2> QED
    BY <1>1, <1>2, LeastNatural
<1>4. PICK m \in Models : a \in Leaves[m] /\ l = Level[m]
  BY <1>3
<1>5. m # Root
  BY <1>4
<1> PICK c : c = Father(m)
  OBVIOUS
<1>6. /\ c \in Coupled /\ \E k \in Index(c) : D[c][k] = m
      /\ Level[m] = Level[c] + 1 /\ c \in Models /\ Level[c] \in Nat
  BY <1>5, FatherFacts, LevelType DEF Models
<1>7. Leaves[c] = UNION {Leaves[D[c][k]] : k \in Index(c)}
  BY <1>6, FlatAssumption, Zenon
<1>8. a \in Leaves[c]
  BY <1>4, <1>6, <1>7
<1>9. l <= Level[c]
  BY <1>3, <1>6, <1>8
<1> QED
  BY <1>4, <1>6, <1>9

(* When every coupling is in order, a model leads to the atomic model in   *)
(* it that is the first of those due earliest.                             *)
Earliest(a, S) == \A x \in S : tn[a] < tn[x] \/ (tn[a] = tn[x] /\ Rank[a] <= Rank[x])

(* By induction over the tree: the heap of a coupling chooses the first of *)
(* its children that are due earliest, and the atomic models of an earlier *)
(* child rank before those of a later one.                                 *)
LEMMA LeafEarliest ==
  ASSUME TypeOK, Synced
  PROVE  \A m \in Models : /\ Leaf[m] \in Leaves[m] /\ tn[Leaf[m]] = tn[m]
                           /\ Earliest(Leaf[m], Leaves[m])
<1> DEFINE S == {m \in Models : /\ Leaf[m] \in Leaves[m] /\ tn[Leaf[m]] = tn[m]
                                /\ Earliest(Leaf[m], Leaves[m])}
<1>1. \A m \in Models : tn[m] \in Int
  BY TimeAssumption DEF TypeOK, Times
<1>2. Atomic \subseteq S
  <2> SUFFICES ASSUME NEW a \in Atomic
               PROVE  a \in S
    OBVIOUS
  <2>1. Leaves[a] = {a} /\ Rank[a] \in Int /\ a \in Models /\ Leaf[a] = a
    BY FlatAssumption, LeafSteps DEF Models
  <2>2. Earliest(a, {a})
    BY <1>1, <2>1 DEF Earliest
  <2> QED
    BY <2>1, <2>2
<1>3. ASSUME NEW c \in Coupled, \A k \in Index(c) : D[c][k] \in S
      PROVE  c \in S
  <2> PICK k, a : k = tc[c] /\ a = Leaf[c]
    OBVIOUS
  <2>1. k \in Index(c) /\ c \in Models /\ Child(c) = D[c][k] /\ a = Leaf[D[c][k]] /\ a \in Atomic
    BY LeafSteps DEF TypeOK, Child, Models
  <2>2. Leaves[c] = UNION {Leaves[D[c][j]] : j \in Index(c)}
    BY FlatAssumption, Zenon
  <2>3. a \in Leaves[D[c][k]] /\ tn[a] = tn[D[c][k]] /\ Earliest(a, Leaves[D[c][k]])
    BY <1>3, <2>1
  <2>4. key[c] = [x \in Index(c) |-> tn[D[c][x]]] /\ tn[c] = key[c][k] /\ k = First(key[c])
    BY DEF Synced, KeysKnown, Settled
  <2>5. \A x \in Index(c) : D[c][x] \in Models /\ tn[D[c][x]] \in Int
    BY <1>1, TreeFacts
  <2>6. tn[a] = tn[c]
    BY <2>1, <2>3, <2>4
  <2>7. \A j \in Index(c) : tn[D[c][k]] < tn[D[c][j]] \/ (tn[D[c][k]] = tn[D[c][j]] /\ k <= j)
    <3>1. key[c] \in [1 .. Len(D[c]) -> Int] /\ Len(D[c]) \in Nat \ {0}
      BY <2>4, <2>5, TreeFacts DEF Index
    <3>2. IsFirst(key[c], k)
      BY <2>4, <3>1, FirstExists
    <3>3. DOMAIN key[c] = Index(c) /\ \A j \in Index(c) : key[c][j] = tn[D[c][j]]
      BY <2>4
    <3> QED
      BY <2>1, <3>2, <3>3 DEF IsFirst
  <2>8. ASSUME NEW x \in Leaves[c]
        PROVE  tn[a] < tn[x] \/ (tn[a] = tn[x] /\ Rank[a] <= Rank[x])
    <3>1. PICK j \in Index(c) : x \in Leaves[D[c][j]]
      BY <2>2
    <3> PICK b, m : b = Leaf[D[c][j]] /\ m = D[c][j]
      OBVIOUS
    <3>2. tn[b] = tn[m] /\ Earliest(b, Leaves[m])
      BY <1>3
    <3>3. tn[m] < tn[x] \/ tn[m] = tn[x]
      BY <3>1, <3>2, Zenon DEF Earliest
    <3>4. CASE j = k
      BY <2>3, <3>1, <3>4 DEF Earliest
    <3>5. CASE j # k
      <4>1. x \in Atomic /\ x \in Models /\ a \in Models /\ tn[x] \in Int /\ tn[a] \in Int /\ tn[m] \in Int
        BY <1>1, <2>1, <2>5, <3>1, LeavesType DEF Models
      <4>2. Rank[x] \in Int /\ Rank[a] \in Int
        BY <2>1, <4>1, FlatAssumption, Zenon
      <4>3. tn[a] < tn[m] \/ (tn[a] = tn[m] /\ k <= j)
        BY <2>3, <2>7
      <4>4. CASE tn[a] < tn[m]
        BY <3>3, <4>1, <4>4
      <4>5. CASE tn[a] = tn[m] /\ k <= j
        <5>1. k < j
          BY <2>1, <3>5, <4>5 DEF Index
        <5>2. Rank[a] < Rank[x]
          BY <2>1, <2>3, <3>1, <5>1, FlatAssumption, Zenon
        <5> QED
          BY <3>3, <4>1, <4>2, <4>5, <5>2
      <4> QED
        BY <4>3, <4>4, <4>5
    <3> QED
      BY <3>4, <3>5
  <2>9. a \in Leaves[c]
    BY <2>1, <2>2, <2>3
  <2>10. Earliest(a, Leaves[c])
    BY <2>8 DEF Earliest
  <2> QED
    BY <2>1, <2>6, <2>9, <2>10
<1>4. Models \subseteq S
  <2> HIDE DEF S
  <2> QED
    BY <1>2, <1>3, TreeInduction
<1> QED
  BY <1>4

(* So the root leads to the model whose event comes next. *)
LEMMA RootLeaf ==
  ASSUME TypeOK, Synced
  PROVE  /\ Leaf[Root] \in Atomic /\ tn[Leaf[Root]] = tn[Root]
         /\ Earliest(Leaf[Root], Atomic)
<1>1. Root \in Models
  BY TreeFacts
<1> QED
  BY <1>1, LeafEarliest, LeafSteps, RootLeaves DEF Earliest

-----------------------------------------------------------------------------
(* What is on the stack in each part of an event. *)
Going(s)   == \E m \in Models : s = <<Lambda(m), Dint(Root)>>
Serving(s) == /\ Len(s) > 0 /\ s[Len(s)].op = "dint"
              /\ \A j \in 1 .. Len(s) : j < Len(s) => s[j].op \notin {"lambda", "dint"}
Acted(s)   == /\ Len(s) > 0 /\ s[1].op = "dint"
              /\ \A j \in 1 .. Len(s) : j # 1 => s[j].op = "ret"
Back(s)    == \A j \in 1 .. Len(s) : s[j].op = "ret"

(* lambda is going down the tree. *)
LEMMA GoingForm ==
  ASSUME NEW U
  PROVE  (Descending(U) => Going(todo)) /\ (Descending(U)' => Going(todo'))
BY DEF Descending, Going

(* The outputs are being served: nothing but the dint to the root is left  *)
(* below.                                                                  *)
LEMMA ServingForm ==
  ASSUME NEW U
  PROVE  (Outgoing(U) => Serving(todo)) /\ (Outgoing(U)' => Serving(todo'))
<1> PICK s, r : s = todo /\ r = todo'
  OBVIOUS
<1>1. ASSUME NEW j, s[j] \in Outer
      PROVE  s[j].op \in {"lambda", "ext", "eoc", "ret"}
  BY <1>1, OpTypes DEF Outer
<1>2. ASSUME NEW j, r[j] \in Outer
      PROVE  r[j].op \in {"lambda", "ext", "eoc", "ret"}
  BY <1>2, OpTypes DEF Outer
<1>3. Outgoing(U) => Serving(s)
  <2> SUFFICES ASSUME Outgoing(U)
               PROVE  Serving(s)
    OBVIOUS
  <2>1. Len(s) > 0 /\ s[Len(s)] = Dint(Root)
    BY DEF Outgoing, Outward
  <2> QED
    BY <1>1, <2>1 DEF Outgoing, Outward, LegalCall, Serving, Dint
<1>4. Outgoing(U)' => Serving(r)
  BY <1>2 DEF Outgoing, Outward, LegalCall, Serving, Dint
<1> QED
  BY <1>3, <1>4

(* On the way to an atomic model everything below the call on top is a     *)
(* return.                                                                 *)
LEMMA PathReturns ==
  ASSUME NEW s \in Seq(Call), NEW first, \A j \in 1 .. Len(s) : OnPath(s, first, j)
  PROVE  /\ Len(s) \in Nat /\ (s # <<>> => Len(s) > 0 /\ Head(s) = s[1])
         /\ \A j \in 1 .. Len(s) : j # 1 => s[j].op = "ret"
<1>1. Len(s) \in Nat /\ (s # <<>> => Len(s) > 0 /\ Head(s) = s[1])
  OBVIOUS
<1>2. ASSUME NEW j \in 1 .. Len(s), j # 1
      PROVE  s[j].op = "ret"
  <2> PICK i : i = j - 1
    OBVIOUS
  <2>1. i \in 1 .. Len(s) /\ i < Len(s) /\ i + 1 = j
    BY <1>1, <1>2
  <2>2. OnPath(s, first, i)
    BY <2>1
  <2>3. s[j] = Ret(Father(s[i].m), "int")
    BY <2>1, <2>2 DEF OnPath
  <2> QED
    BY <2>3 DEF Ret
<1> QED
  BY <1>1, <1>2

(* dint is going down the tree. *)
LEMMA ActedForm ==
  ASSUME NEW U
  PROVE  /\ TypeOK /\ Entering(U) => Acted(todo)
         /\ TypeOK' /\ Entering(U)' => Acted(todo')
<1> PICK s, r : s = todo /\ r = todo'
  OBVIOUS
<1> PICK f, g : f = tc /\ g = tc'
  OBVIOUS
<1>1. ASSUME TypeOK, Entering(U)
      PROVE  Acted(s)
  <2>1. s \in Seq(Call) /\ s # <<>> /\ Head(s).op = "dint" /\ \A j \in 1 .. Len(s) : OnPath(s, f, j)
    BY <1>1 DEF TypeOK, Entering, Inward
  <2> QED
    BY <2>1, PathReturns DEF Acted
<1>2. ASSUME TypeOK', Entering(U)'
      PROVE  Acted(r)
  <2>1. r \in Seq(Call) /\ r # <<>> /\ Head(r).op = "dint" /\ \A j \in 1 .. Len(r) : OnPath(r, g, j)
    BY <1>2 DEF TypeOK, Entering, Inward
  <2> QED
    BY <2>1, PathReturns DEF Acted
<1> QED
  BY <1>1, <1>2

(* Only returns are left. *)
LEMMA BackForm ==
  /\ TypeOK /\ Leaving => Back(todo)
  /\ TypeOK' /\ Leaving' => Back(todo')
<1> PICK s, r : s = todo /\ r = todo'
  OBVIOUS
<1> PICK f, g : f = tc /\ g = tc'
  OBVIOUS
<1>1. ASSUME TypeOK, Leaving
      PROVE  Back(s)
  <2>1. /\ s \in Seq(Call) /\ (s # <<>> => Head(s).op = "ret")
        /\ \A j \in 1 .. Len(s) : OnPath(s, f, j)
    BY <1>1 DEF TypeOK, Leaving, Inward
  <2>2. s # <<>> => s[1].op = "ret"
    BY <2>1, PathReturns
  <2>3. s = <<>> => Len(s) = 0
    OBVIOUS
  <2>4. \A j \in 1 .. Len(s) : j # 1 => s[j].op = "ret"
    BY <2>1, PathReturns
  <2> QED
    BY <2>2, <2>3, <2>4 DEF Back
<1>2. ASSUME TypeOK', Leaving'
      PROVE  Back(r)
  <2>1. /\ r \in Seq(Call) /\ (r # <<>> => Head(r).op = "ret")
        /\ \A j \in 1 .. Len(r) : OnPath(r, g, j)
    BY <1>2 DEF TypeOK, Leaving, Inward
  <2>2. r # <<>> => r[1].op = "ret"
    BY <2>1, PathReturns
  <2>3. r = <<>> => Len(r) = 0
    OBVIOUS
  <2>4. \A j \in 1 .. Len(r) : j # 1 => r[j].op = "ret"
    BY <2>1, PathReturns
  <2> QED
    BY <2>2, <2>3, <2>4 DEF Back
<1> QED
  BY <1>1, <1>2

(* What the flat model sees of it. *)
SeenActing(s) == \E j \in DOMAIN s : s[j].op \in {"lambda", "dint"}
SeenSent(s)   == /\ \E j \in DOMAIN s : s[j].op \in {"dint"}
                 /\ ~\E j \in DOMAIN s : s[j].op \in {"lambda"}

(* So the calls tell the flat model whether a model acts and whether its   *)
(* output is out, and only the calls that serve outputs lead to inputs.    *)
LEMMA Seen ==
  ASSUME NEW s \in Seq(Call)
  PROVE  /\ Going(s) => SeenActing(s) /\ ~SeenSent(s) /\ Inputs(s) = <<>>
         /\ Serving(s) => SeenActing(s) /\ SeenSent(s)
         /\ Acted(s) => SeenActing(s) /\ SeenSent(s) /\ Inputs(s) = <<>>
         /\ Back(s) => ~SeenActing(s) /\ ~SeenSent(s) /\ Inputs(s) = <<>>
<1>1. DOMAIN s = 1 .. Len(s) /\ Len(s) \in Nat
  OBVIOUS
<1>2. ASSUME Going(s)
      PROVE  SeenActing(s) /\ ~SeenSent(s) /\ Inputs(s) = <<>>
  <2>1. PICK m \in Models : s = <<Lambda(m), Dint(Root)>>
    BY <1>2 DEF Going
  <2>2. Len(s) = 2 /\ s[1].op = "lambda" /\ s[2].op = "dint"
    BY <2>1 DEF Lambda, Dint
  <2>3. \A j \in 1 .. Len(s) : s[j].op \notin {"ext", "eoc"}
    BY <2>2
  <2> QED
    BY <1>1, <2>2, <2>3, InputsNone DEF SeenActing, SeenSent
<1>3. ASSUME Serving(s)
      PROVE  SeenActing(s) /\ SeenSent(s)
  <2>1. Len(s) \in DOMAIN s
    BY <1>1, <1>3 DEF Serving
  <2> QED
    BY <1>1, <1>3, <2>1 DEF SeenActing, SeenSent, Serving
<1>4. ASSUME Acted(s)
      PROVE  SeenActing(s) /\ SeenSent(s) /\ Inputs(s) = <<>>
  <2>1. 1 \in DOMAIN s
    BY <1>1, <1>4 DEF Acted
  <2>2. \A j \in 1 .. Len(s) : s[j].op \notin {"ext", "eoc"}
    BY <1>4 DEF Acted
  <2> QED
    BY <1>1, <1>4, <2>1, <2>2, InputsNone DEF SeenActing, SeenSent, Acted
<1>5. ASSUME Back(s)
      PROVE  ~SeenActing(s) /\ ~SeenSent(s) /\ Inputs(s) = <<>>
  <2>2. \A j \in 1 .. Len(s) : s[j].op \notin {"ext", "eoc"}
    BY <1>5 DEF Back
  <2> QED
    BY <1>1, <1>5, <2>2, InputsNone DEF SeenActing, SeenSent, Back
<1> QED
  BY <1>2, <1>3, <1>4, <1>5

(* The mapping sees just that, before a step and after it. *)
LEMMA View ==
  /\ Acting = IF SeenActing(todo) THEN Leaf[Root] ELSE None
  /\ Acting' = IF SeenActing(todo') THEN Leaf'[Root] ELSE None
  /\ Sent <=> SeenSent(todo)
  /\ Sent' <=> SeenSent(todo')
  /\ Sent \in BOOLEAN /\ Sent' \in BOOLEAN
<1>1. Calls({"lambda", "dint"}) <=> SeenActing(todo)
  BY DEF Calls, SeenActing
<1>2. Calls({"lambda", "dint"})' <=> SeenActing(todo')
  BY DEF Calls, SeenActing
<1>3. Sent <=> SeenSent(todo)
  BY DEF Sent, Calls, SeenSent
<1>4. Sent' <=> SeenSent(todo')
  BY DEF Sent, Calls, SeenSent
<1>5. Sent \in BOOLEAN /\ Sent' \in BOOLEAN
  BY DEF Sent
<1> QED
  BY <1>1, <1>2, <1>3, <1>4, <1>5, Zenon DEF Acting

(* The inputs of the stack after a step, by the connections before it.     *)
LEMMA InputsNext ==
  ASSUME TypeOK', \A j \in 1 .. Len(todo') : todo'[j].op = "eoc" => tc'[todo'[j].m] = tc[todo'[j].m],
         NEW r, r = todo'
  PROVE  Inputs(todo)' = Inputs(r)
<1>1. PICK n \in Nat : DOMAIN r = 1 .. n /\ n = Len(r)
  BY DEF TypeOK
<1>2. \A j \in 1 .. n : r[j].op = "eoc" => tc'[r[j].m] = tc[r[j].m]
  BY <1>1
<1>3. Inputs(r)' = Inputs(r)
  BY <1>1, <1>2, InputsKept
<1>4. Inputs(todo)' = Inputs(r)'
  BY DEF Inputs
<1> QED
  BY <1>3, <1>4, Zenon

-----------------------------------------------------------------------------
(* What becomes of the inputs when ops take the place of the call on top.  *)
LEMMA InputsThen ==
  ASSUME TypeOK, TypeOK', todo # <<>>, NEW ops \in Seq(Call), Then(ops),
         \A j \in 1 .. Len(todo') : todo'[j].op = "eoc" => tc'[todo'[j].m] = tc[todo'[j].m]
  PROVE  /\ Inputs(todo) = LeadsTo(Head(todo)) \o Inputs(Tail(todo))
         /\ Inputs(todo)' = Inputs(ops) \o Inputs(Tail(todo))
         /\ Inputs(Tail(todo)) \in Seq(Target)
<1> PICK s, r, h, q : s = todo /\ r = todo' /\ h = Head(s) /\ q = Tail(s)
  OBVIOUS
<1>1. /\ s \in Seq(Call) /\ s # <<>> /\ r \in Seq(Call)
      /\ r = ops \o q
  BY DEF TypeOK, Then
<1>2. h \in Call /\ q \in Seq(Call) /\ s = <<h>> \o q
  <2>1. h \in Call /\ q \in Seq(Call)
    BY <1>1
  <2>2. s = <<h>> \o q
    <3> DEFINE x == <<h>> \o q
    <3>1. /\ Len(s) \in Nat /\ Len(s) > 0 /\ Len(q) = Len(s) - 1 /\ s[1] = h
          /\ \A i \in 1 .. Len(q) : q[i] = s[i + 1]
      BY <1>1
    <3>2. <<h>> \in Seq(Call) /\ Len(<<h>>) = 1 /\ <<h>>[1] = h
      BY <2>1
    <3>3. /\ x \in Seq(Call) /\ Len(x) = 1 + Len(q)
          /\ \A i \in 1 .. Len(x) : x[i] = IF i <= 1 THEN <<h>>[i] ELSE q[i - 1]
      BY <2>1, <3>2, ConcatProperties
    <3> HIDE DEF x
    <3>4. \A i \in 1 .. Len(s) : x[i] = s[i]
      BY <3>1, <3>2, <3>3
    <3>5. s = x
      BY <1>1, <3>1, <3>3, <3>4, SeqEqual
    <3> QED
      BY <3>5 DEF x
  <2> QED
    BY <2>1, <2>2
<1>3. <<h>> \in Seq(Call)
  BY <1>2
<1>4. Inputs(s) = LeadsTo(h) \o Inputs(q)
  <2>1. Inputs(<<h>> \o q) = Inputs(<<h>>) \o Inputs(q)
    BY <1>2, <1>3, InputsConcat, Zenon
  <2>2. Inputs(<<h>>) = LeadsTo(h)
    BY <1>2, InputsOne
  <2> QED
    BY <1>2, <2>1, <2>2, Zenon
<1>5. Inputs(r) = Inputs(ops) \o Inputs(q)
  BY <1>1, <1>2, InputsConcat, Zenon
<1>6. Inputs(todo)' = Inputs(r)
  BY InputsNext
<1>7. Inputs(q) \in Seq(Target)
  BY <1>2, InputsType
<1> QED
  BY <1>4, <1>5, <1>6, <1>7, Zenon

-----------------------------------------------------------------------------
(* The outputs are served along a path that ends in the model they are of. *)
Ends(U) == \E a \in Atomic : Father(a) \in U /\ Child(Father(a)) = a

(* What the simulation of the flat model needs besides what is proved      *)
(* above: the clock has followed the events, and while outputs are served  *)
(* there is such a path.                                                   *)
FlatInv == phase = "run" =>
  /\ at = last
  /\ (todo # <<>> /\ ~Internal(Head(todo)) /\ Head(todo).op # "lambda") =>
       \E U \in SUBSET Coupled : Outgoing(U) /\ Ends(U)

(* The steps that serve outputs. *)
OutputAction == EocTurn \/ ExtCoupled \/ ExtAtomic \/ (Return /\ Head(todo).why = "ext")

(* The path is the same after every step that serves outputs: the          *)
(* transition children on it do not change, and neither does the model at  *)
(* its end.                                                                *)
LEMMA OutputsStep ==
  ASSUME TypeOK, TypeOK', NoSelfFeed, HeapsKnowTimes, OutputAction,
         NEW U \in SUBSET Coupled, Outgoing(U), Ends(U)
  PROVE  /\ Outgoing(U)' /\ Ends(U)' /\ Leaf'[Root] = Leaf[Root]
         /\ \A c \in U : tc'[c] = tc[c]
<1>1. Outgoing(U)'
  BY EocStep, InputStep, ReceiveStep, ReceivedStep DEF OutputAction
<1>2. \A c \in U : tc'[c] = tc[c]
  <2>1. CASE EocTurn \/ ExtCoupled \/ ExtAtomic
    BY <2>1 DEF EocTurn, ExtCoupled, ExtAtomic
  <2>2. CASE Return /\ Head(todo).why = "ext"
    <3>1. /\ todo # <<>> /\ phase = "run" /\ Head(todo).op = "ret" /\ ~Internal(Head(todo))
      BY <2>2 DEF Return, Calling, Internal
    <3>2. Head(todo) = todo[1] /\ LegalCall(U, 1)
      BY <3>1, OutgoingTop
    <3> PICK c : c = Head(todo).m
      OBVIOUS
    <3>3. c \notin U
      BY <3>1, <3>2 DEF LegalCall
    <3>4. \A d \in Coupled : d # c => tc'[d] = tc[d]
      BY <2>2, ReturnSettles
    <3> QED
      BY <3>3, <3>4
  <2> QED
    BY <2>1, <2>2 DEF OutputAction
<1>3. PICK a \in Atomic : Father(a) \in U /\ Child(Father(a)) = a
  BY DEF Ends
<1>4. Child(Father(a))' = a
  BY <1>2, <1>3 DEF Child
<1>5. Leaf[Root] = a /\ Leaf'[Root] = a
  BY <1>1, <1>3, <1>4, LeafEnds DEF Outgoing
<1>6. Ends(U)'
  BY <1>3, <1>4 DEF Ends
<1> QED
  BY <1>1, <1>2, <1>5, <1>6

(* The outputs of the model whose time has come begin. *)
LEMMA EmitTurn ==
  ASSUME TypeOK, TypeOK', NoSelfFeed, CallInv, LambdaAtomic
  PROVE  \E U \in SUBSET Coupled :
           /\ Descending(U) /\ Outgoing(U)' /\ Ends(U)' /\ Leaf[Root] = Head(todo).m
           /\ Head(todo).m # Root /\ Child(Father(Head(todo).m)) = Head(todo).m
<1> PICK a : a = Head(todo).m
  OBVIOUS
<1>1. PICK U \in SUBSET Coupled : Descending(U)
  BY LambdaTurn DEF LambdaAtomic
<1>2. Outgoing(U)'
  BY <1>1, OutputStep
<1>3. PICK m \in Models : /\ todo = <<Lambda(m), Dint(Root)>>
                          /\ m = Root \/ (Father(m) \in U /\ Child(Father(m)) = m)
  BY <1>1 DEF Descending
<1>4. m = a /\ a \in Atomic
  <2>1. Head(todo).m = m
    BY <1>3 DEF Lambda
  <2> QED
    BY <2>1 DEF LambdaAtomic
<1>5. a # Root
  BY <1>4, TreeAssumption
<1>6. Father(a) \in U /\ Child(Father(a)) = a /\ Child(Father(a))' = a
  BY <1>3, <1>4, <1>5 DEF LambdaAtomic, Child
<1>7. Leaf[Root] = a
  BY <1>1, <1>4, <1>6, LeafEnds DEF Descending
<1>8. Ends(U)'
  BY <1>4, <1>6 DEF Ends
<1> QED
  BY <1>1, <1>2, <1>5, <1>6, <1>7, <1>8

(* They go on. *)
LEMMA ServeTurn ==
  ASSUME TypeOK, TypeOK', NoSelfFeed, HeapsKnowTimes, FlatInv, OutputAction
  PROVE  \E U \in SUBSET Coupled :
           /\ Outgoing(U) /\ Ends(U) /\ Outgoing(U)' /\ Ends(U)' /\ Leaf'[Root] = Leaf[Root]
           /\ \A c \in U : tc'[c] = tc[c]
<1>1. phase = "run" /\ todo # <<>> /\ ~Internal(Head(todo)) /\ Head(todo).op # "lambda"
  BY DEF OutputAction, EocTurn, ExtCoupled, ExtAtomic, Return, Calling, Internal
<1>2. PICK U \in SUBSET Coupled : Outgoing(U) /\ Ends(U)
  BY <1>1 DEF FlatInv
<1>3. /\ Outgoing(U)' /\ Ends(U)' /\ Leaf'[Root] = Leaf[Root]
      /\ \A c \in U : tc'[c] = tc[c]
  BY <1>2, OutputsStep
<1> QED
  BY <1>2, <1>3

(* The dint that reaches an atomic model has come down from the root along *)
(* the transition children.                                                *)
LEMMA ActTurn ==
  ASSUME TypeOK, CallInv, DintAtomic
  PROVE  Leaf[Root] = Head(todo).m /\ \E U \in SUBSET Coupled : Entering(U)
<1> PICK s, a : s = todo /\ a = Head(todo).m
  OBVIOUS
<1>1. PICK V \in SUBSET Coupled : Entering(V)
  BY DintTurn DEF DintAtomic
<1>2. /\ s \in Seq(Call) /\ Len(s) \in Nat /\ Len(s) > 0 /\ s[1].m = a
      /\ \A j \in 1 .. Len(s) : OnPath(s, tc, j)
  BY <1>1 DEF TypeOK, Entering, Inward
<1>3. a \in Atomic /\ a # Root
  BY TreeAssumption DEF DintAtomic
<1> DEFINE U == {s[j].m : j \in 2 .. Len(s)}
<1>4. ASSUME NEW j \in 1 .. Len(s), s[j].m # Root
      PROVE  /\ j + 1 \in 2 .. Len(s) /\ s[j + 1].m = Father(s[j].m) /\ s[j + 1].op = "ret"
             /\ Child(Father(s[j].m)) = s[j].m
  <2>1. OnPath(s, tc, j)
    BY <1>2
  <2>2. j < Len(s)
    BY <1>2, <1>4, <2>1 DEF OnPath
  <2>3. s[j + 1] = Ret(Father(s[j].m), "int") /\ Child(Father(s[j].m)) = s[j].m
    BY <2>1, <2>2 DEF OnPath, Child
  <2> QED
    BY <1>2, <2>2, <2>3 DEF Ret
<1>5. ASSUME NEW j \in 2 .. Len(s)
      PROVE  s[j].m \in Coupled
  <2> PICK f : f = tc
    OBVIOUS
  <2>1. \A i \in 1 .. Len(s) : OnPath(s, f, i)
    BY <1>2
  <2>2. \A i \in 1 .. Len(s) : i # 1 => s[i].op = "ret"
    BY <1>2, <2>1, PathReturns
  <2>3. j \in 1 .. Len(s) /\ j # 1
    BY <1>2
  <2>4. s[j] \in Call /\ s[j].op = "ret"
    BY <1>2, <2>2, <2>3
  <2> QED
    BY <2>4, OpTypes
<1>6. Father(a) \in U /\ Child(Father(a)) = a
  <2>1. 1 \in 1 .. Len(s)
    BY <1>2
  <2> QED
    BY <1>2, <1>3, <1>4, <2>1
<1>7. PathFrom(U, Root)
  <2>1. U \subseteq Coupled
    BY <1>5
  <2>2. ASSUME NEW c \in U, c # Root
        PROVE  Father(c) \in U /\ Child(Father(c)) = c
    <3>1. PICK j \in 2 .. Len(s) : c = s[j].m
      OBVIOUS
    <3>2. j \in 1 .. Len(s)
      BY <1>2
    <3> QED
      BY <1>4, <2>2, <3>1, <3>2
  <2> HIDE DEF U
  <2> QED
    BY <2>1, <2>2 DEF PathFrom
<1> HIDE DEF U
<1>8. Leaf[Root] = a
  BY <1>3, <1>6, <1>7, LeafEnds
<1> QED
  BY <1>1, <1>8

(* The path can be kept in mind. *)
LEMMA FlatKept ==
  ASSUME TypeOK, TypeOK', NoSelfFeed, HeapsKnowTimes, CallInv, TimeInv, FlatInv, [Next]_vars
  PROVE  FlatInv'
<1> SUFFICES ASSUME phase' = "run"
             PROVE  /\ at' = last'
                    /\ (todo' # <<>> /\ ~Internal(Head(todo')) /\ Head(todo').op # "lambda") =>
                         \E U \in SUBSET Coupled : Outgoing(U)' /\ Ends(U)'
  BY DEF FlatInv
<1>0. ASSUME Going(todo') \/ Acted(todo')
      PROVE  Internal(Head(todo')) \/ Head(todo').op = "lambda"
  <2>1. CASE Going(todo')
    BY <2>1 DEF Going, Lambda
  <2>2. CASE Acted(todo')
    <3> PICK r : r = todo'
      OBVIOUS
    <3>1. r \in Seq(Call) /\ Len(r) > 0 /\ r[1].op = "dint"
      BY <2>2 DEF Acted, TypeOK
    <3> QED
      BY <3>1 DEF Internal
  <2> QED
    BY <1>0, <2>1, <2>2
<1>1. CASE StepAborted \/ StepIllegitimate \/ StepPastEnd \/ Throw
  BY <1>1 DEF StepAborted, StepIllegitimate, StepPastEnd, Throw, Exit
<1>2. CASE StepEvent
  <2>1. at' = last' /\ todo' = <<Lambda(Root), Dint(Root)>>
    BY <1>2 DEF StepEvent, CountStep
  <2> QED
    BY <2>1 DEF Lambda
<1>3. CASE LambdaCoupled
  <2>1. at' = last' /\ phase = "run"
    BY <1>3 DEF LambdaCoupled, Calling, root, FlatInv
  <2>2. Head(todo').op = "lambda"
    <3>1. PICK U \in SUBSET Coupled : Descending(U)
      BY <1>3, LambdaTurn DEF LambdaCoupled
    <3>2. PICK V \in SUBSET Coupled : Descending(V)'
      BY <1>3, <3>1, LambdaStep
    <3> QED
      BY <3>2 DEF Descending, Lambda
  <2> QED
    BY <2>1, <2>2
<1>4. CASE LambdaAtomic
  <2>1. at' = last'
    BY <1>4 DEF LambdaAtomic, Calling, root, FlatInv
  <2> QED
    BY <1>4, <2>1, EmitTurn
<1>5. CASE OutputAction
  <2>1. at' = last'
    BY <1>5 DEF OutputAction, EocTurn, ExtCoupled, ExtAtomic, Return, Calling, root, FlatInv
  <2> QED
    BY <1>5, <2>1, ServeTurn
<1>6. CASE DintCoupled
  <2>1. at = last /\ at = t
    BY <1>6 DEF DintCoupled, Calling, FlatInv, TimeInv
  <2>2. at' = last'
    BY <1>6, <2>1 DEF DintCoupled, root
  <2>3. Internal(Head(todo'))
    BY <1>6, EnterStep DEF Entering, Internal
  <2> QED
    BY <2>2, <2>3
<1>7. CASE DintAtomic \/ (Return /\ Head(todo).why = "int")
  <2>1. at' = last'
    BY <1>7 DEF DintAtomic, Return, Calling, root, FlatInv
  <2>2. Leaving'
    BY <1>7, LeafStep, LeaveStep
  <2>3. todo' # <<>> => Internal(Head(todo'))
    <3> PICK r : r = todo'
      OBVIOUS
    <3>1. r \in Seq(Call) /\ \A j \in 1 .. Len(r) : Internal(r[j])
      BY <2>2 DEF Leaving, Inward, OnPath, TypeOK
    <3>2. r # <<>> => 1 \in 1 .. Len(r) /\ Head(r) = r[1]
      BY <3>1
    <3> QED
      BY <3>1, <3>2
  <2> QED
    BY <2>1, <2>3
<1>8. CASE UNCHANGED vars
  <2>1. /\ todo' = todo /\ tc' = tc /\ tn' = tn /\ key' = key /\ at' = at /\ last' = last /\ phase' = phase
    BY <1>8 DEF vars
  <2>2. at' = last'
    BY <2>1 DEF FlatInv
  <2>3. ASSUME NEW U \in SUBSET Coupled, Outgoing(U), Ends(U)
        PROVE  Outgoing(U)' /\ Ends(U)'
    <3>1. Outward' = Outward /\ PathFrom(U, Root)' = PathFrom(U, Root)
      BY <2>1 DEF Outward, PathFrom, Child
    <3>2. /\ \A c : Settled(c)' = Settled(c)
          /\ \A c, why : Returns(c, why)' = Returns(c, why)
          /\ \A j, c : ReturnsAfter(j, c)' = ReturnsAfter(j, c)
      BY <2>1 DEF Settled, Returns, ReturnsAfter
    <3>3. Outgoing(U)'
      BY <2>1, <2>3, <3>1, <3>2 DEF Outgoing, LegalCall, Covered
    <3>4. Ends(U)'
      BY <2>1, <2>3 DEF Ends, Child
    <3> QED
      BY <3>3, <3>4
  <2> QED
    BY <2>1, <2>2, <2>3 DEF FlatInv
<1>9. Return => Head(todo).why \in {"ext", "int"}
  BY HeadTypes, OpTypes DEF Return
<1> QED
  BY <1>1, <1>2, <1>3, <1>4, <1>5, <1>6, <1>7, <1>8, <1>9 DEF Next, OutputAction

-----------------------------------------------------------------------------
(* The steps, as the flat model sees them. *)
LEMMA FlatStutter ==
  ASSUME at' = at, AtomicTn' = AtomicTn, tl' = tl, Acting' = Acting, Sent' = Sent,
         Inputs(todo)' = Inputs(todo), Burst' = Burst, abort' = abort, phase' = phase
  PROVE  [Flat!FlatNext]_(Flat!flatVars)
BY DEF Flat!flatVars

(* The transition of an atomic model is one of the flat model. *)
LEMMA FlatTransition ==
  ASSUME TypeOK, NEW a \in Atomic, Transition(a)
  PROVE  Flat!Transition(a)
<1>1. tn \in [Models -> Times] /\ Atomic \subseteq Models
  BY DEF TypeOK, Models
<1>2. PICK s \in Sigmas : tn' = [tn EXCEPT ![a] = IF s >= 0 THEN Plus(at, s) ELSE tn[a]]
  BY DEF Transition
<1> PICK v : v = IF s >= 0 THEN Plus(at, s) ELSE tn[a]
  OBVIOUS
<1>3. AtomicTn' = [AtomicTn EXCEPT ![a] = v]
  <2>1. \A x \in Atomic : tn'[x] = IF x = a THEN v ELSE tn[x]
    BY <1>1, <1>2
  <2> QED
    BY <2>1 DEF AtomicTn
<1>4. v = IF s >= 0 THEN Flat!Plus(at, s) ELSE AtomicTn[a]
  <2>1. Flat!Plus(at, s) = Plus(at, s) /\ AtomicTn[a] = tn[a]
    BY DEF Flat!Plus, Plus, AtomicTn
  <2> QED
    BY <2>1, Zenon
<1>5. tl' = [tl EXCEPT ![a] = at] /\ abort' \in {abort, TRUE}
  BY DEF Transition
<1>6. AtomicTn' = [AtomicTn EXCEPT ![a] = IF s >= 0 THEN Flat!Plus(at, s) ELSE AtomicTn[a]]
  BY <1>3, <1>4, Zenon
<1> QED
  BY <1>5, <1>6, Zenon DEF Flat!Transition

(* The flat model sees the times of the atomic models only. *)
LEMMA TnKept ==
  ASSUME TypeOK, \A a \in Atomic : tn'[a] = tn[a]
  PROVE  AtomicTn' = AtomicTn
BY DEF AtomicTn

(* A return changes the time of a coupled model only. *)
LEMMA ReturnTimes ==
  ASSUME TypeOK, Return
  PROVE  AtomicTn' = AtomicTn
<1> PICK c, v : c = Head(todo).m /\ v = tn[D[c][First(key[c])]]
  OBVIOUS
<1>1. c \in Coupled /\ tn \in [Models -> Times]
  BY HeadTypes, OpTypes DEF Return, TypeOK
<1>2. tn' = [tn EXCEPT ![c] = v]
  BY DEF Return
<1>3. \A a \in Atomic : a \in Models /\ a # c
  BY <1>1, TreeAssumption DEF Models
<1>4. \A a \in Atomic : tn'[a] = tn[a]
  BY <1>1, <1>2, <1>3
<1> QED
  BY <1>4, TnKept

(* Head and tail of a sequence that begins with x. *)
LEMMA HeadOfTwo ==
  ASSUME NEW S, NEW x \in S, NEW q \in Seq(S)
  PROVE  <<x>> \o q # <<>> /\ Head(<<x>> \o q) = x /\ Tail(<<x>> \o q) = q
<1> DEFINE r == <<x>> \o q
<1>1. /\ <<x>> \in Seq(S) /\ Len(<<x>>) = 1 /\ <<x>>[1] = x /\ Len(q) \in Nat
  OBVIOUS
<1>2. /\ r \in Seq(S) /\ Len(r) = 1 + Len(q)
      /\ \A i \in 1 .. Len(r) : r[i] = IF i <= 1 THEN <<x>>[i] ELSE q[i - 1]
  BY <1>1, ConcatProperties
<1> HIDE DEF r
<1>3. r # <<>> /\ Head(r) = x
  BY <1>1, <1>2
<1>4. /\ Tail(r) \in Seq(S) /\ Len(Tail(r)) = Len(q)
      /\ \A i \in 1 .. Len(q) : Tail(r)[i] = q[i]
  BY <1>1, <1>2, <1>3
<1>5. Tail(r) = q
  BY <1>4, SeqEqual
<1> QED
  BY <1>3, <1>5 DEF r

(* While the root does not step, the count of events at one time stays. *)
LEMMA BurstKept ==
  ASSUME UNCHANGED root
  PROVE  Burst' = Burst /\ phase' = phase
BY DEF root, Burst

(* The root leads to the same model while the transition children are the  *)
(* same.                                                                   *)
LEMMA LeafSame ==
  ASSUME tc' = tc
  PROVE  Leaf'[Root] = Leaf[Root]
<1> PICK s, r : s = tc /\ r = tc'
  OBVIOUS
<1>1. Leaf = Lowest(s) /\ Leaf' = Lowest(r)
  BY Zenon DEF Leaf, Child, Lowest
<1> QED
  BY <1>1

(* Between two events nothing is acting. *)
LEMMA IdleView ==
  ASSUME TypeOK, CallInv, HeapsKnowTimes, phase = "run", todo = <<>>
  PROVE  /\ Synced /\ Acting = None /\ ~Sent /\ Inputs(todo) = <<>>
         /\ Leaf[Root] \in Atomic /\ tn[Leaf[Root]] = tn[Root]
         /\ Earliest(Leaf[Root], Atomic)
<1>1. Leaving /\ Synced
  BY IdleSynced
<1> PICK s : s = todo
  OBVIOUS
<1>2. s \in Seq(Call) /\ Back(s)
  BY <1>1, BackForm DEF TypeOK
<1>3. ~SeenActing(s) /\ ~SeenSent(s) /\ Inputs(s) = <<>>
  BY <1>2, Seen
<1>4. Acting = None /\ ~Sent
  BY <1>3, View
<1> QED
  BY <1>1, <1>3, <1>4, RootLeaf

(* The simulation stops: aborted, with too many events at one time or past *)
(* its end.                                                                *)
LEMMA StepStops ==
  ASSUME TypeOK, CallInv, HeapsKnowTimes, FlatInv,
         StepAborted \/ StepIllegitimate \/ StepPastEnd
  PROVE  Flat!Stop
<1>1. phase = "run" /\ todo = <<>> /\ phase' = "done"
      /\ UNCHANGED <<at, tn, tl, tc, todo, abort>>
  BY DEF StepAborted, StepIllegitimate, StepPastEnd, Exit
<1>2. /\ Synced /\ Acting = None /\ ~Sent /\ Inputs(todo) = <<>>
      /\ Leaf[Root] \in Atomic /\ tn[Leaf[Root]] = tn[Root]
  BY <1>1, IdleView
<1>3. Acting' = Acting /\ Sent' = Sent /\ AtomicTn' = AtomicTn /\ Burst' = 0
  <2>1. Leaf'[Root] = Leaf[Root]
    BY <1>1, LeafSame
  <2>2. AtomicTn' = AtomicTn /\ Burst' = 0
    BY <1>1 DEF AtomicTn, Burst
  <2>3. Acting' = Acting /\ (Sent' <=> Sent)
    BY <1>1, <2>1, View
  <2> QED
    BY <2>2, <2>3, View
<1>4. Inputs(todo)' = Inputs(todo)
  BY <1>1 DEF Inputs, LeadsTo
<1>5. \/ abort
      \/ \A a \in Atomic : AtomicTn[a] > Tf
      \/ Burst >= MaxSteps /\ \E a \in Atomic : AtomicTn[a] = at
  <2>1. CASE StepAborted
    BY <2>1 DEF StepAborted
  <2>2. CASE StepPastEnd
    <3>1. tn[Root] > Tf
      BY <2>2 DEF StepPastEnd, CountStep
    <3>2. \A a \in Atomic : tn[Root] <= tn[a] /\ tn[Root] \in Int /\ tn[a] \in Int /\ AtomicTn[a] = tn[a]
      BY <1>2, RootEarliest, TreeFacts, TimeAssumption DEF TypeOK, Times, Models, AtomicTn
    <3>3. Tf \in Nat
      BY TimeAssumption
    <3> QED
      BY <3>1, <3>2, <3>3
  <2>3. CASE StepIllegitimate
    <3>1. steps' = (IF last = tn[Root] THEN steps + 1 ELSE 0) /\ steps' > MaxSteps
      BY <2>3 DEF StepIllegitimate, CountStep
    <3>2. MaxSteps \in Nat /\ steps \in Nat
      BY TimeAssumption DEF TypeOK
    <3>3. last = tn[Root] /\ steps >= MaxSteps
      BY <3>1, <3>2
    <3>4. Burst >= MaxSteps
      BY <1>1, <3>2, <3>3 DEF Burst
    <3>5. AtomicTn[Leaf[Root]] = at
      BY <1>1, <1>2, <3>3 DEF AtomicTn, FlatInv
    <3> QED
      BY <1>2, <3>4, <3>5
  <2> QED
    BY <2>1, <2>2, <2>3
<1> QED
  BY <1>1, <1>2, <1>3, <1>4, <1>5 DEF Flat!Stop

(* An event begins: the model that acts is the first of those due          *)
(* earliest.                                                               *)
LEMMA StepSelects ==
  ASSUME TypeOK, TypeOK', CallInv, HeapsKnowTimes, TimeInv, FlatInv, StepEvent
  PROVE  Flat!Select(Leaf[Root])
<1> PICK a, r : a = Leaf[Root] /\ r = todo'
  OBVIOUS
<1>1. phase = "run" /\ todo = <<>> /\ ~abort /\ UNCHANGED <<tn, tl, tc, abort, phase>>
  BY DEF StepEvent, CountStep
<1>2. /\ Synced /\ Acting = None /\ ~Sent /\ Inputs(todo) = <<>>
      /\ a \in Atomic /\ tn[a] = tn[Root] /\ Earliest(a, Atomic)
  BY <1>1, IdleView
<1>3. Flat!Due(a)
  <2>1. \A x \in Atomic : AtomicTn[x] = tn[x]
    BY DEF AtomicTn
  <2> QED
    BY <1>2, <2>1 DEF Flat!Due, Earliest
<1>4. /\ at' = tn[Root] /\ last' = tn[Root] /\ tn[Root] <= Tf /\ AtomicTn[a] = tn[Root]
      /\ steps' = (IF last = tn[Root] THEN steps + 1 ELSE 0) /\ steps' <= MaxSteps
      /\ todo' = <<Lambda(Root), Dint(Root)>> /\ AtomicTn' = AtomicTn
  BY <1>1, <1>2 DEF StepEvent, CountStep, AtomicTn
<1>5. Acting' = a /\ Sent' = FALSE /\ Inputs(todo)' = Inputs(todo)
  <2>1. r \in Seq(Call) /\ Going(r)
    BY <1>4, TreeFacts DEF Going, TypeOK
  <2>2. SeenActing(r) /\ ~SeenSent(r) /\ Inputs(r) = <<>>
    BY <2>1, Seen
  <2>3. Leaf'[Root] = a
    BY <1>1, LeafSame
  <2>4. Inputs(todo)' = Inputs(r)
    BY <1>1, InputsNext
  <2> QED
    BY <1>2, <2>2, <2>3, <2>4, View
<1>6. Burst' = (IF at' = at THEN Burst + 1 ELSE 1) /\ Burst' <= MaxSteps + 1
  <2>1. /\ at = last /\ last \in Nat /\ steps \in Nat /\ tn[Root] \in Nat /\ MaxSteps \in Nat /\ at <= tn[Root]
    BY <1>1, TreeFacts, TimeAssumption DEF TypeOK, Times, FlatInv, TimeInv
  <2>2. Burst = (IF last = 0 THEN steps ELSE steps + 1) /\ Burst' = (IF last' = 0 THEN steps' ELSE steps' + 1)
    BY <1>1 DEF Burst
  <2>3. CASE tn[Root] = last
    BY <1>4, <2>1, <2>2, <2>3
  <2>4. CASE tn[Root] # last
    <3>1. steps' = 0 /\ last' # 0
      BY <1>4, <2>1, <2>4
    <3> QED
      BY <1>4, <2>1, <2>2, <2>4, <3>1
  <2> QED
    BY <2>3, <2>4
<1> QED
  BY <1>1, <1>2, <1>3, <1>4, <1>5, <1>6 DEF Flat!Select

(* lambda goes down the path, which the flat model does not see. *)
LEMMA LambdaPasses ==
  ASSUME TypeOK, TypeOK', CallInv, LambdaCoupled
  PROVE  [Flat!FlatNext]_(Flat!flatVars)
<1> PICK s, r : s = todo /\ r = todo'
  OBVIOUS
<1>1. UNCHANGED <<at, tn, tl, tc, abort, root>>
  BY DEF LambdaCoupled
<1>2. PICK U \in SUBSET Coupled : Descending(U)
  BY LambdaTurn DEF LambdaCoupled
<1>3. PICK V \in SUBSET Coupled : Descending(V)'
  BY <1>2, LambdaStep
<1>4. s \in Seq(Call) /\ Going(s) /\ r \in Seq(Call) /\ Going(r)
  BY <1>2, <1>3, GoingForm DEF TypeOK
<1>5. /\ SeenActing(s) /\ ~SeenSent(s) /\ Inputs(s) = <<>>
      /\ SeenActing(r) /\ ~SeenSent(r) /\ Inputs(r) = <<>>
  BY <1>4, Seen
<1>6. Inputs(todo)' = Inputs(todo)
  BY <1>1, <1>5, InputsNext
<1>7. Acting' = Acting /\ Sent' = Sent
  <2>1. Leaf'[Root] = Leaf[Root]
    BY <1>1, LeafSame
  <2> QED
    BY <1>5, <2>1, View
<1>8. AtomicTn' = AtomicTn
  BY <1>1 DEF AtomicTn
<1> QED
  BY <1>1, <1>6, <1>7, <1>8, BurstKept, FlatStutter

(* lambda reaches the model that acts, and its output is put on its        *)
(* routes.                                                                 *)
LEMMA LambdaEmits ==
  ASSUME TypeOK, TypeOK', NoSelfFeed, CallInv, LambdaAtomic
  PROVE  Flat!Emit
<1> PICK s, r, a : s = todo /\ r = todo' /\ a = Head(todo).m
  OBVIOUS
<1>1. UNCHANGED <<at, tn, tl, tc, root>> /\ abort' \in {abort, TRUE} /\ phase = "run" /\ a \in Atomic
      /\ todo # <<>>
  BY DEF LambdaAtomic, Calling
<1>2. PICK U \in SUBSET Coupled : /\ Descending(U) /\ Outgoing(U)' /\ Leaf[Root] = a
                                  /\ a # Root /\ Child(Father(a)) = a
  BY EmitTurn
<1>3. s \in Seq(Call) /\ Going(s) /\ r \in Seq(Call) /\ Serving(r)
  BY <1>2, GoingForm, ServingForm DEF TypeOK
<1>4. SeenActing(s) /\ ~SeenSent(s) /\ SeenActing(r) /\ SeenSent(r)
  BY <1>3, Seen
<1>5. Acting = a /\ Acting' = a /\ ~Sent /\ Sent' = TRUE /\ a # None
  <2>1. Leaf'[Root] = Leaf[Root]
    BY <1>1, LeafSame
  <2> QED
    BY <1>1, <1>2, <1>4, <2>1, View, FlatAssumption
<1>6. AtomicTn' = AtomicTn /\ Burst' = Burst /\ phase' = phase
  BY <1>1, BurstKept DEF AtomicTn
<1>7. Inputs(Tail(todo)) = <<>>
  <2> PICK q : q = Tail(s)
    OBVIOUS
  <2>1. PICK m \in Models : s = <<Lambda(m), Dint(Root)>>
    BY <1>3 DEF Going
  <2>2. Len(s) = 2 /\ s[2].op = "dint"
    BY <2>1 DEF Dint
  <2>3. q \in Seq(Call) /\ Len(q) = 1 /\ q[1] = s[2]
    BY <1>3, <2>2
  <2>4. \A j \in 1 .. Len(q) : q[j].op \notin {"ext", "eoc"}
    BY <2>2, <2>3
  <2> QED
    BY <2>3, <2>4, InputsNone
<1>8. ASSUME NEW ops \in Seq(Call), Then(ops)
      PROVE  Inputs(todo)' = Inputs(ops)
  <2> PICK x : x = Inputs(ops)
    OBVIOUS
  <2>1. Inputs(todo)' = x \o Inputs(Tail(todo))
    BY <1>1, <1>8, InputsThen
  <2>2. x \in Seq(Target)
    BY InputsType
  <2>3. x \o <<>> = x
    BY <2>2
  <2> QED
    BY <1>7, <2>1, <2>3, Zenon
<1>9. Inputs(todo)' \in {<<>>} \cup {Route[a, p] : p \in Ports}
  <2>1. CASE \E p \in Ports : Then(Propagate(Father(a), p))
    <3>1. PICK p \in Ports : Then(Propagate(Father(a), p))
      BY <2>1
    <3> PICK c, ops : c = Father(a) /\ ops = Propagate(Father(a), p)
      OBVIOUS
    <3>2. c \in Coupled /\ tc[c] \in Index(c)
      BY <1>1, <1>2, FatherFacts DEF Models, TypeOK
    <3>3. ops \in Seq(Call) /\ Inputs(ops) = Route[Child(c), p]
      BY <3>2, InputsPropagated
    <3>4. Inputs(todo)' = Inputs(ops)
      BY <1>8, <3>1, <3>3
    <3> QED
      BY <1>2, <3>3, <3>4, Zenon
  <2>2. CASE Then(<<>>)
    <3>1. <<>> \in Seq(Call)
      OBVIOUS
    <3>2. Inputs(<<>>) = <<>>
      <4> PICK e : e = <<>>
        OBVIOUS
      <4>1. e \in Seq(Call) /\ \A j \in 1 .. Len(e) : e[j].op \notin {"ext", "eoc"}
        OBVIOUS
      <4> QED
        BY <4>1, InputsNone
    <3>3. Inputs(todo)' = <<>>
      BY <1>8, <2>2, <3>1, <3>2
    <3> QED
      BY <3>3
  <2> QED
    BY <2>1, <2>2 DEF LambdaAtomic
<1> QED
  BY <1>1, <1>5, <1>6, <1>9 DEF Flat!Emit

(* What an output still has to reach does not depend on the transition     *)
(* children that have changed.                                             *)
LEMMA OutputView ==
  ASSUME TypeOK, TypeOK', NoSelfFeed, HeapsKnowTimes, FlatInv, OutputAction
  PROVE  /\ Acting' = Acting /\ Acting # None /\ Sent /\ Sent' = Sent
         /\ \A j \in 1 .. Len(todo') : todo'[j].op = "eoc" => tc'[todo'[j].m] = tc[todo'[j].m]
<1> PICK s, r : s = todo /\ r = todo'
  OBVIOUS
<1>1. PICK U \in SUBSET Coupled :
        /\ Outgoing(U) /\ Outgoing(U)' /\ Ends(U) /\ Leaf'[Root] = Leaf[Root]
        /\ \A c \in U : tc'[c] = tc[c]
  BY ServeTurn
<1>2. s \in Seq(Call) /\ Serving(s) /\ r \in Seq(Call) /\ Serving(r)
  BY <1>1, ServingForm DEF TypeOK
<1>3. SeenActing(s) /\ SeenSent(s) /\ SeenActing(r) /\ SeenSent(r)
  BY <1>2, Seen
<1>4. Leaf[Root] \in Atomic
  BY LeafSteps, TreeFacts
<1>5. Acting' = Acting /\ Acting # None /\ Sent /\ Sent' = Sent
  BY <1>1, <1>3, <1>4, View, FlatAssumption
<1>6. ASSUME NEW j \in 1 .. Len(r), r[j].op = "eoc"
      PROVE  tc'[r[j].m] = tc[r[j].m]
  <2>1. j # Len(r)
    BY <1>2, <1>6 DEF Serving
  <2>2. j < Len(r)
    BY <1>2, <2>1
  <2>3. r[j].m \in U
    BY <1>1, <1>6, <2>2 DEF Outgoing, LegalCall
  <2> QED
    BY <1>1, <2>3
<1> QED
  BY <1>5, <1>6

(* No calls lead to no inputs. *)
LEMMA NoCalls == <<>> \in Seq(Call) /\ Inputs(<<>>) = <<>>
<1> PICK e : e = <<>>
  OBVIOUS
<1>1. e \in Seq(Call) /\ \A j \in 1 .. Len(e) : e[j].op \notin {"ext", "eoc"}
  OBVIOUS
<1> QED
  BY <1>1, InputsNone

(* One turn over the output connections hands on what the call led to.     *)
TurnCalls(c, p, i) ==
  IF i > Len(EOC[c]) THEN <<>>
  ELSE IF EOC[c][i].src = tc[c] /\ EOC[c][i].sport = p
  THEN Propagate(Father(c), EOC[c][i].oport) \o <<Eoc(c, p, i + 1)>>
  ELSE <<Eoc(c, p, i + 1)>>

(* By the kind of connection: it leaves the coupling and its father        *)
(* propagates it, or it is not one of the output and the loop goes on.     *)
LEMMA TurnCallsLead ==
  ASSUME TypeOK, NEW c, c \in Coupled, NEW p, p \in Ports, NEW i, i \in 1 .. Len(EOC[c]) + 1,
         c # Root => Father(c) \in Coupled /\ Child(Father(c)) = c
  PROVE  TurnCalls(c, p, i) \in Seq(Call) /\ Inputs(TurnCalls(c, p, i)) = LeadsTo(Eoc(c, p, i))
<1> PICK F : F = From(EOC[c], tc[c], p)
  OBVIOUS
<1>0. \A s, r \in Seq(Call) : s \o r \in Seq(Call)
  OBVIOUS
<1>1. /\ i > Len(EOC[c]) => LeadsTo(Eoc(c, p, i)) = <<>>
      /\ i <= Len(EOC[c]) =>
           LeadsTo(Eoc(c, p, i)) = Turn(c, F, i) \o LeadsTo(Eoc(c, p, i + 1))
  BY InputsTurn
<1>2. CASE i > Len(EOC[c])
  BY <1>1, <1>2, NoCalls DEF TurnCalls
<1>3. CASE ~(i > Len(EOC[c]))
  <2>1. /\ Len(EOC[c]) \in Nat
        /\ \A x \in 1 .. Len(EOC[c]) : EOC[c][x].oport \in Ports
        /\ c = Root => EOC[c] = <<>>
        /\ DOMAIN EOC[c] = 1 .. Len(EOC[c])
    BY ConnectionFacts, ConnectionAssumption
  <2>2. i \in 1 .. Len(EOC[c]) /\ i <= Len(EOC[c]) /\ i + 1 \in Nat /\ i + 1 \in 1 .. Len(EOC[c]) + 1
    BY <1>3, <2>1
  <2>3. c # Root /\ EOC[c][i].oport \in Ports
    BY <2>1, <2>2
  <2> PICK one, y : one = <<Eoc(c, p, i + 1)>> /\ y = LeadsTo(Eoc(c, p, i + 1))
    OBVIOUS
  <2>4. one \in Seq(Call) /\ Inputs(one) = y /\ y \in Seq(Target)
    <3>1. Eoc(c, p, i + 1) \in Call
      BY <2>2, CallTypes
    <3> QED
      BY <3>1, InputsOne, LeadsType
  <2>5. LeadsTo(Eoc(c, p, i)) = Turn(c, F, i) \o y
    BY <1>1, <2>2, Zenon
  <2> PICK q, f : q = EOC[c][i].oport /\ f = Father(c)
    OBVIOUS
  <2>6. CASE EOC[c][i].src = tc[c] /\ EOC[c][i].sport = p
    <3> PICK more, x : more = Propagate(f, q) /\ x = Route[c, q]
      OBVIOUS
    <3>1. TurnCalls(c, p, i) = more \o one
      BY <1>3, <2>6, Zenon DEF TurnCalls
    <3>2. f \in Coupled /\ tc[f] \in Index(f) /\ Child(f) = c
      BY <2>3 DEF TypeOK
    <3>3. more \in Seq(Call) /\ Inputs(more) = x
      BY <2>3, <3>2, InputsPropagated, Zenon
    <3>4. Turn(c, F, i) = x
      <4>1. i \in F
        BY <2>1, <2>2, <2>6, Zenon DEF From
      <4> QED
        BY <4>1, Zenon DEF Turn
    <3>5. Inputs(more \o one) = x \o y
      <4>1. Inputs(more \o one) = Inputs(more) \o Inputs(one)
        BY <2>4, <3>3, InputsConcat, Zenon
      <4> QED
        BY <2>4, <3>3, <4>1, Zenon
    <3>6. more \o one \in Seq(Call)
      <4>1. more \in Seq(Call) /\ one \in Seq(Call)
        BY <2>4, <3>3, Zenon
      <4> QED
        BY <1>0, <4>1, Zenon
    <3> QED
      BY <2>5, <3>1, <3>4, <3>5, <3>6, Zenon
  <2>7. CASE ~(EOC[c][i].src = tc[c] /\ EOC[c][i].sport = p)
    <3>1. TurnCalls(c, p, i) = one
      BY <1>3, <2>7, Zenon DEF TurnCalls
    <3>2. Turn(c, F, i) = <<>>
      <4>1. i \notin F
        BY <2>7, Zenon DEF From
      <4> QED
        BY <4>1, Zenon DEF Turn
    <3>3. <<>> \o y = y
      BY <2>4
    <3> QED
      BY <2>4, <2>5, <3>1, <3>2, <3>3, Zenon
  <2> QED
    BY <2>6, <2>7
<1> QED
  BY <1>2, <1>3

(* So a turn of the loop replaces its call by calls that lead to the same. *)
LEMMA TurnInputs ==
  ASSUME TypeOK, NoSelfFeed, HeapsKnowTimes, FlatInv, EocTurn
  PROVE  \E ops \in Seq(Call) : Then(ops) /\ Inputs(ops) = LeadsTo(Head(todo))
<1> PICK o, c, p, i : o = Head(todo) /\ c = o.m /\ p = o.port /\ i = o.i
  OBVIOUS
<1>1. phase = "run" /\ todo # <<>> /\ o \in Call /\ o.op = "eoc" /\ ~Internal(o) /\ todo \in Seq(Call)
  BY HeadTypes DEF EocTurn, Calling, Internal, TypeOK
<1>2. c \in Coupled /\ p \in Ports /\ i \in Nat /\ i \in 1 .. Len(EOC[c]) + 1
  BY <1>1, OpTypes
<1>3. PICK U \in SUBSET Coupled : Outgoing(U)
  BY <1>1 DEF FlatInv
<1>4. c \in U /\ PathFrom(U, Root)
  <2>1. LegalCall(U, 1) /\ Head(todo) = todo[1]
    BY <1>1, <1>3, OutgoingTop
  <2> QED
    BY <1>1, <1>3, <2>1 DEF LegalCall, Outgoing
<1>5. LeadsTo(o) = LeadsTo(Eoc(c, p, i))
  <2> PICK e : e = Eoc(c, p, i)
    OBVIOUS
  <2>1. e.op = "eoc" /\ e.m = c /\ e.port = p /\ e.i = i
    BY DEF Eoc
  <2> QED
    BY <1>1, <2>1 DEF LeadsTo
<1>6. Then(TurnCalls(c, p, i))
  BY Zenon DEF EocTurn, TurnCalls
<1>7. c # Root => Father(c) \in Coupled /\ Child(Father(c)) = c
  BY <1>4 DEF PathFrom
<1>8. TurnCalls(c, p, i) \in Seq(Call) /\ Inputs(TurnCalls(c, p, i)) = LeadsTo(Eoc(c, p, i))
  BY <1>2, <1>7, TurnCallsLead
<1> QED
  BY <1>5, <1>6, <1>8, Zenon

(* An input of a coupled model leads where its input connections do.       *)
LEMMA EnterInputs ==
  ASSUME TypeOK, ExtCoupled
  PROVE  \E ops \in Seq(Call) : Then(ops) /\ Inputs(ops) = LeadsTo(Head(todo))
<1> PICK o, c, e, x : /\ o = Head(todo) /\ c = D[o.m][o.child]
                      /\ e = Enter(c, o.port) /\ x = Ret(c, "ext")
  OBVIOUS
<1>1. o \in Call /\ o.op = "ext"
  BY HeadTypes DEF ExtCoupled
<1>2. o.port \in Ports /\ c \in Coupled /\ Then(e \o <<x>>)
  BY <1>1, OpTypes DEF ExtCoupled
<1>3. LeadsTo(o) = Reach[c, o.port]
  BY <1>1 DEF LeadsTo
<1>4. e \in Seq(Call) /\ Inputs(e) = Reach[c, o.port]
  BY <1>2, InputsEntered
<1>5. x \in Call /\ x.op = "ret"
  BY <1>2, CallTypes DEF Ret
<1>6. <<x>> \in Seq(Call) /\ Inputs(<<x>>) = <<>>
  <2>1. LeadsTo(x) = <<>>
    BY <1>5 DEF LeadsTo
  <2> QED
    BY <1>5, <2>1, InputsOne
<1> PICK y : y = Inputs(e)
  OBVIOUS
<1>10. e \in Seq(Call)
  BY <1>4, Zenon
<1>7. Inputs(e \o <<x>>) = y \o <<>>
  <2>1. Inputs(e \o <<x>>) = Inputs(e) \o Inputs(<<x>>)
    BY <1>6, <1>10, InputsConcat, Zenon
  <2> QED
    BY <1>6, <2>1, Zenon
<1>8. y \o <<>> = y
  BY <1>10, InputsType
<1>9. e \o <<x>> \in Seq(Call)
  BY <1>6, <1>10
<1> QED
  BY <1>2, <1>3, <1>4, <1>7, <1>8, <1>9, Zenon

(* Neither changes what the flat model sees, nor does a return.            *)
LEMMA OutputPasses ==
  ASSUME TypeOK, TypeOK', NoSelfFeed, HeapsKnowTimes, FlatInv,
         EocTurn \/ ExtCoupled \/ (Return /\ Head(todo).why = "ext")
  PROVE  [Flat!FlatNext]_(Flat!flatVars)
<1>1. /\ Acting' = Acting /\ Sent' = Sent
      /\ \A j \in 1 .. Len(todo') : todo'[j].op = "eoc" => tc'[todo'[j].m] = tc[todo'[j].m]
  BY OutputView DEF OutputAction
<1>2. PICK ops \in Seq(Call) : Then(ops) /\ Inputs(ops) = LeadsTo(Head(todo))
  <2>1. CASE Return /\ Head(todo).why = "ext"
    <3>1. Head(todo).op = "ret" /\ Then(<<>>)
      BY <2>1 DEF Return, Calling
    <3>2. LeadsTo(Head(todo)) = <<>>
      BY <3>1 DEF LeadsTo
    <3> QED
      BY <3>1, <3>2, NoCalls
  <2> QED
    BY <2>1, TurnInputs, EnterInputs
<1>3. todo # <<>>
  BY DEF EocTurn, ExtCoupled, Return, Calling
<1>4. Inputs(todo)' = Inputs(todo)
  BY <1>1, <1>2, <1>3, InputsThen
<1>5. UNCHANGED <<at, tl, abort, root>>
  BY DEF EocTurn, ExtCoupled, Return
<1>6. AtomicTn' = AtomicTn
  <2>1. CASE EocTurn \/ ExtCoupled
    BY <2>1 DEF EocTurn, ExtCoupled, AtomicTn
  <2>2. CASE Return /\ Head(todo).why = "ext"
    BY <2>2, ReturnTimes
  <2> QED
    BY <2>1, <2>2
<1> QED
  BY <1>1, <1>4, <1>5, <1>6, BurstKept, FlatStutter

(* An input reaches an atomic model.                                       *)
LEMMA InputReceived ==
  ASSUME TypeOK, TypeOK', NoSelfFeed, HeapsKnowTimes, FlatInv, ExtAtomic
  PROVE  Flat!Receive
<1> PICK o, a : o = Head(todo) /\ a = D[o.m][o.child]
  OBVIOUS
<1>1. /\ Acting' = Acting /\ Sent /\ Sent' = Sent
      /\ \A j \in 1 .. Len(todo') : todo'[j].op = "eoc" => tc'[todo'[j].m] = tc[todo'[j].m]
  BY OutputView DEF OutputAction
<1>2. /\ o \in Call /\ o.op = "ext" /\ phase = "run" /\ todo # <<>>
      /\ a \in Atomic /\ Transition(a) /\ Then(<<>>) /\ UNCHANGED <<at, root>>
  BY HeadTypes DEF ExtAtomic, Calling
<1>3. o.port \in Ports
  BY <1>2, OpTypes
<1> PICK x, q, e : x = <<a, o.port>> /\ q = Inputs(Tail(todo)) /\ e = <<>>
  OBVIOUS
<1>4. LeadsTo(o) = <<x>> /\ x[1] = a /\ x \in Target
  <2>1. LeadsTo(o) = Reach[a, o.port]
    BY <1>2 DEF LeadsTo
  <2>2. Reach[a, o.port] = <<<<a, o.port>>>>
    BY <1>2, <1>3, RouteFacts, Zenon
  <2> QED
    BY <1>2, <1>3, <2>1, <2>2 DEF Target
<1>5. /\ Inputs(todo) = LeadsTo(o) \o q /\ Inputs(todo)' = Inputs(e) \o q
      /\ q \in Seq(Target)
  <2>1. e \in Seq(Call) /\ Then(e)
    BY <1>2
  <2> QED
    BY <1>1, <1>2, <2>1, InputsThen
<1>6. Inputs(todo) = <<x>> \o q /\ Inputs(todo)' = q
  <2>1. <<>> \o q = q
    BY <1>5
  <2> QED
    BY <1>4, <1>5, <2>1, NoCalls, Zenon
<1>7. <<x>> \o q # <<>> /\ Head(<<x>> \o q) = x /\ Tail(<<x>> \o q) = q
  BY <1>4, <1>5, HeadOfTwo
<1>8. Inputs(todo) # <<>> /\ Head(Inputs(todo))[1] = a /\ Tail(Inputs(todo)) = q
  BY <1>4, <1>6, <1>7, Zenon
<1>9. Flat!Transition(Head(Inputs(todo))[1])
  <2>1. Flat!Transition(a)
    BY <1>2, FlatTransition
  <2> QED
    BY <1>8, <2>1, Zenon
<1> QED
  BY <1>1, <1>2, <1>6, <1>8, <1>9, BurstKept DEF Flat!Receive

(* dint goes down the path that lambda took. *)
LEMMA DintPasses ==
  ASSUME TypeOK, TypeOK', CallInv, TimeInv, DintCoupled
  PROVE  [Flat!FlatNext]_(Flat!flatVars)
<1> PICK s, r : s = todo /\ r = todo'
  OBVIOUS
<1>1. phase = "run" /\ todo # <<>> /\ UNCHANGED <<tn, tl, tc, abort, root>>
  BY DEF DintCoupled, Calling
<1>2. at' = at
  <2>1. at = t
    BY <1>1 DEF TimeInv
  <2> QED
    BY <2>1 DEF DintCoupled
<1>3. PICK U \in SUBSET Coupled : Entering(U)
  BY DintTurn DEF DintCoupled
<1>4. PICK V \in SUBSET Coupled : Entering(V)'
  BY EnterStep
<1>5. s \in Seq(Call) /\ Acted(s) /\ r \in Seq(Call) /\ Acted(r)
  BY <1>3, <1>4, ActedForm DEF TypeOK
<1>6. /\ SeenActing(s) /\ SeenSent(s) /\ Inputs(s) = <<>>
      /\ SeenActing(r) /\ SeenSent(r) /\ Inputs(r) = <<>>
  BY <1>5, Seen
<1>7. Inputs(todo)' = Inputs(todo)
  BY <1>1, <1>6, InputsNext
<1>8. Acting' = Acting /\ Sent' = Sent
  <2>1. Leaf'[Root] = Leaf[Root]
    BY <1>1, LeafSame
  <2> QED
    BY <1>6, <2>1, View
<1>9. AtomicTn' = AtomicTn
  BY <1>1 DEF AtomicTn
<1> QED
  BY <1>1, <1>2, <1>7, <1>8, <1>9, BurstKept, FlatStutter

(* The model whose time has come makes its internal transition.            *)
LEMMA DintActs ==
  ASSUME TypeOK, TypeOK', CallInv, DintAtomic
  PROVE  Flat!Internal
<1> PICK s, r, a : s = todo /\ r = todo' /\ a = Head(todo).m
  OBVIOUS
<1>1. /\ phase = "run" /\ UNCHANGED <<at, tc, root>> /\ a \in Atomic /\ Transition(a)
  BY DEF DintAtomic, Calling
<1>2. Leaf[Root] = a /\ \E U \in SUBSET Coupled : Entering(U)
  BY ActTurn
<1>3. Leaving'
  BY LeafStep
<1>4. s \in Seq(Call) /\ Acted(s) /\ r \in Seq(Call) /\ Back(r)
  BY <1>2, <1>3, ActedForm, BackForm DEF TypeOK
<1>5. /\ SeenActing(s) /\ SeenSent(s) /\ Inputs(s) = <<>>
      /\ ~SeenActing(r) /\ ~SeenSent(r) /\ Inputs(r) = <<>>
  BY <1>4, Seen
<1>6. Inputs(todo) = <<>> /\ Inputs(todo)' = <<>>
  BY <1>1, <1>5, InputsNext
<1>7. Acting = a /\ Sent /\ Acting' = None /\ Sent' = FALSE
  BY <1>2, <1>5, View
<1>8. Flat!Transition(Acting)
  BY <1>1, <1>7, FlatTransition
<1> QED
  BY <1>1, <1>6, <1>7, <1>8, BurstKept DEF Flat!Internal

(* The returns that follow are not seen.                                   *)
LEMMA ReturnPasses ==
  ASSUME TypeOK, TypeOK', CallInv, HeapsKnowTimes, Return, Head(todo).why = "int"
  PROVE  [Flat!FlatNext]_(Flat!flatVars)
<1> PICK s, r : s = todo /\ r = todo'
  OBVIOUS
<1>1. UNCHANGED <<at, tl, abort, root>>
  BY DEF Return
<1>2. Leaving /\ Leaving'
  BY ReturnTurn, LeaveStep DEF Return
<1>3. s \in Seq(Call) /\ Back(s) /\ r \in Seq(Call) /\ Back(r)
  BY <1>2, BackForm DEF TypeOK
<1>4. /\ ~SeenActing(s) /\ ~SeenSent(s) /\ Inputs(s) = <<>>
      /\ ~SeenActing(r) /\ ~SeenSent(r) /\ Inputs(r) = <<>>
  BY <1>3, Seen
<1>5. \A j \in 1 .. Len(todo') : todo'[j].op # "eoc"
  BY <1>3 DEF Back
<1>6. Inputs(todo)' = Inputs(todo)
  BY <1>4, <1>5, InputsNext
<1>7. Acting' = Acting /\ Sent' = Sent
  BY <1>4, View
<1>8. AtomicTn' = AtomicTn
  BY ReturnTimes
<1> QED
  BY <1>1, <1>6, <1>7, <1>8, BurstKept, FlatStutter

(* A model throws only while one is acting.                                *)
LEMMA ThrowFails ==
  ASSUME TypeOK, TypeOK', CallInv, FlatInv, Throw
  PROVE  Flat!Fail
<1> PICK s, r, o : s = todo /\ r = todo' /\ o = Head(todo)
  OBVIOUS
<1>1. /\ phase = "run" /\ phase' = "failed" /\ todo # <<>> /\ r = <<>> /\ InAtomic(o)
      /\ UNCHANGED <<at, tn, tl, tc, abort>>
  BY DEF Throw
<1>2. s \in Seq(Call) /\ r \in Seq(Call) /\ 1 \in DOMAIN s /\ s[1] = o
  BY <1>1 DEF TypeOK
<1>3. SeenActing(s)
  <2>1. o.op \in {"ext", "lambda", "dint"}
    BY <1>1 DEF InAtomic
  <2>2. CASE o.op = "ext"
    <3>1. PICK U \in SUBSET Coupled : Outgoing(U)
      BY <1>1, <2>2 DEF FlatInv, Internal
    <3>2. Serving(s)
      BY <3>1, ServingForm
    <3> QED
      BY <1>2, <3>2, Seen
  <2>3. CASE o.op \in {"lambda", "dint"}
    BY <1>2, <2>3 DEF SeenActing
  <2> QED
    BY <2>1, <2>2, <2>3
<1>4. Back(r)
  BY <1>1 DEF Back
<1>5. ~SeenActing(r) /\ ~SeenSent(r) /\ Inputs(r) = <<>>
  BY <1>2, <1>4, Seen
<1>6. Inputs(todo)' = <<>>
  BY <1>1, <1>5, InputsNext
<1>7. Leaf[Root] \in Atomic
  BY LeafSteps, TreeFacts
<1>8. Acting # None /\ Acting' = None /\ Sent' = FALSE
  BY <1>3, <1>5, <1>7, View, FlatAssumption
<1>9. AtomicTn' = AtomicTn /\ Burst' = 0
  BY <1>1 DEF AtomicTn, Burst
<1> QED
  BY <1>1, <1>6, <1>8, <1>9 DEF Flat!Fail

(* The engine begins where the flat model does. *)
LEMMA FlatBegins == Init => FlatInv /\ Flat!FlatInit
<1> SUFFICES ASSUME Init
             PROVE  FlatInv /\ Flat!FlatInit
  OBVIOUS
<1> PICK s : s = todo
  OBVIOUS
<1>1. /\ at = 0 /\ last = 0 /\ steps = 0 /\ s = <<>> /\ abort = FALSE /\ phase = "run"
      /\ tl = [a \in Atomic |-> 0]
      /\ tn \in [Models -> {Plus(0, x) : x \in {v \in Sigmas : v >= 0}}]
  BY DEF Init
<1>2. s \in Seq(Call) /\ Back(s)
  BY <1>1 DEF Back
<1>3. ~SeenActing(s) /\ ~SeenSent(s) /\ Inputs(s) = <<>>
  BY <1>2, Seen
<1>4. Acting = None /\ Sent = FALSE /\ Inputs(todo) = <<>>
  BY <1>3, View
<1>5. Burst = 0
  BY <1>1 DEF Burst
<1>6. AtomicTn \in [Atomic -> {Flat!Plus(0, x) : x \in {v \in Sigmas : v >= 0}}]
  <2>1. \A x \in Sigmas : Flat!Plus(0, x) = Plus(0, x)
    BY DEF Flat!Plus, Plus
  <2>2. {Flat!Plus(0, x) : x \in {v \in Sigmas : v >= 0}} = {Plus(0, x) : x \in {v \in Sigmas : v >= 0}}
    BY <2>1
  <2>3. AtomicTn \in [Atomic -> {Plus(0, x) : x \in {v \in Sigmas : v >= 0}}]
    BY <1>1 DEF AtomicTn, Models
  <2> QED
    BY <2>2, <2>3, Zenon
<1> QED
  BY <1>1, <1>4, <1>5, <1>6 DEF FlatInv, Flat!FlatInit

(* Every step of the engine is one of the flat model, or one it does not   *)
(* see.                                                                    *)
LEMMA FlatStep ==
  ASSUME TypeOK, TypeOK', NoSelfFeed, HeapsKnowTimes, CallInv, TimeInv, FlatInv, [Next]_vars
  PROVE  [Flat!FlatNext]_(Flat!flatVars)
<1>1. CASE StepAborted \/ StepIllegitimate \/ StepPastEnd
  BY <1>1, StepStops DEF Flat!FlatNext
<1>2. CASE StepEvent
  <2>1. Leaf[Root] \in Atomic
    BY LeafSteps, TreeFacts
  <2> QED
    BY <1>2, <2>1, StepSelects DEF Flat!FlatNext
<1>3. CASE LambdaCoupled
  BY <1>3, LambdaPasses
<1>4. CASE LambdaAtomic
  BY <1>4, LambdaEmits DEF Flat!FlatNext
<1>5. CASE EocTurn \/ ExtCoupled \/ (Return /\ Head(todo).why = "ext")
  BY <1>5, OutputPasses
<1>6. CASE ExtAtomic
  BY <1>6, InputReceived DEF Flat!FlatNext
<1>7. CASE DintCoupled
  BY <1>7, DintPasses
<1>8. CASE DintAtomic
  BY <1>8, DintActs DEF Flat!FlatNext
<1>9. CASE Return /\ Head(todo).why = "int"
  BY <1>9, ReturnPasses
<1>10. CASE Throw
  BY <1>10, ThrowFails DEF Flat!FlatNext
<1>11. CASE UNCHANGED vars
  <2>1. UNCHANGED <<at, tn, tl, tc, todo, last, steps, abort, phase>>
    BY <1>11 DEF vars
  <2>2. Leaf'[Root] = Leaf[Root]
    BY <2>1, LeafSame
  <2>3. Acting' = Acting /\ Sent' = Sent
    BY <2>1, <2>2, View
  <2>4. Inputs(todo)' = Inputs(todo)
    BY <2>1 DEF Inputs, LeadsTo
  <2>5. AtomicTn' = AtomicTn /\ Burst' = Burst
    BY <2>1 DEF AtomicTn, Burst
  <2> QED
    BY <2>1, <2>3, <2>4, <2>5, FlatStutter
<1>12. Return => Head(todo).why \in {"ext", "int"}
  BY HeadTypes, OpTypes DEF Return
<1> QED
  BY <1>1, <1>2, <1>3, <1>4, <1>5, <1>6, <1>7, <1>8, <1>9, <1>10, <1>11, <1>12 DEF Next

(* The hierarchy simulates the flat model (FlatDEVS): whatever the tree,   *)
(* one model acts at a time, the first of those due earliest; its output   *)
(* reaches every atomic model on a route from it, once per route and in    *)
(* their order, before it makes its own transition; no model is called     *)
(* otherwise.                                                              *)
THEOREM EngineImplementsFlatDEVS ==
  ASSUME NoSelfFeed
  PROVE  Spec => ImplementsFlatDEVS
<1> DEFINE Inv == TypeOK /\ HeapsKnowTimes /\ CallInv /\ TimeInv
<1>1. Spec => []Inv
  BY CallsAndTimes
<1>2. Init => FlatInv /\ Flat!FlatInit
  BY FlatBegins
<1>3. Inv /\ Inv' /\ FlatInv /\ [Next]_vars => FlatInv'
  BY FlatKept
<1>4. Inv /\ Inv' /\ FlatInv /\ [Next]_vars => [Flat!FlatNext]_(Flat!flatVars)
  BY FlatStep
<1> HIDE DEF Inv
<1> QED
  BY <1>1, <1>2, <1>3, <1>4, PTL DEF Spec, ImplementsFlatDEVS, Flat!FlatSpec

-----------------------------------------------------------------------------
(* EngineRT: the same engine, which waits for a clock and gets messages    *)
(* while it waits.  What is new is an action that changes times, heaps and *)
(* transition children in the middle of the calls.  It comes only while    *)
(* nothing is called, or while an output waits: no call under way has then *)
(* read a transition child that it will need again.                        *)

(* In real time the calls of lambda may wait, and be followed by the       *)
(* propagation of the event.  Times have no bound: those of messages are   *)
(* read from the clock.                                                    *)
RtCalls == Call \cup [op : {"rtwait"}, m : Models, until : Int]
               \cup [op : {"prop"}, m : Coupled, port : Ports]

RtTypes ==
  /\ t \in Int /\ at \in Int /\ rt \in Int
  /\ tn \in [Models -> Int]
  /\ DOMAIN tc = Coupled /\ \A c \in Coupled : tc[c] \in Index(c)
  /\ DOMAIN key = Coupled /\ \A c \in Coupled : key[c] \in [Index(c) -> Int]
  /\ todo \in Seq(RtCalls)
  /\ wait # "call" => todo = <<>>

(* Only the outputs wait, above the dintmessage to the root. *)
RtOutward ==
  /\ Len(todo) > 0
  /\ \A j \in 1 .. Len(todo) :
       IF j = Len(todo) THEN todo[j] = Dint(Root)
       ELSE todo[j] \in RtCalls /\ ~Internal(todo[j])

LEMMA RtFirst ==
  ASSUME RtTypes, NEW c \in Coupled
  PROVE  First(key[c]) \in Index(c) /\ D[c][First(key[c])] \in Models
<1>1. key[c] \in [1 .. Len(D[c]) -> Int]
  BY DEF RtTypes, Index
<1>2. First(key[c]) \in Index(c)
  BY <1>1, TreeFacts, FirstExists DEF Index
<1> QED
  BY <1>2, TreeFacts

(* externalinput: climbing goes from child to father, the times shown from *)
(* father to child; as the tree ends, both are well defined.               *)
LEMMA ClimbersFacts ==
  ASSUME NEW a \in Models, NEW tnext
  PROVE  a \in Climbers(a, tnext) /\ Climbers(a, tnext) \subseteq Models
<1> DEFINE New(h, m) == \/ m = a
                        \/ /\ m \in Coupled
                           /\ \E k \in Index(m) : h[D[m][k]] /\ Matters(m, tnext, k)
<1>1. PICK d \in Models : \A m \in Models : Level[m] <= Level[d]
  BY DepthAssumption
<1> DEFINE UpTo(n, h) == /\ h \in [Models -> BOOLEAN]
                         /\ \A m \in Models : Level[m] + n > Level[d] => h[m] = New(h, m)
           T == {n \in Nat : \E h : UpTo(n, h)}
<1>2. 0 \in T
  <2>1. \A m \in Models : ~(Level[m] + 0 > Level[d])
    BY <1>1, LevelType
  <2>2. UpTo(0, [m \in Models |-> FALSE])
    BY <2>1
  <2> QED
    BY <2>2, Zenon
<1>3. ASSUME NEW n \in Nat, n \in T
      PROVE  n + 1 \in T
  <2>1. PICK h : UpTo(n, h)
    BY <1>3, Zenon
  <2> DEFINE g == [m \in Models |-> IF Level[m] + n = Level[d] THEN New(h, m) ELSE h[m]]
  <2>2. g \in [Models -> BOOLEAN]
    BY <2>1
  <2>3. ASSUME NEW m \in Models, Level[m] + (n + 1) > Level[d]
        PROVE  g[m] = New(g, m)
    <3>1. \A k \in Index(m) : m \in Coupled => g[D[m][k]] = h[D[m][k]]
      <4> SUFFICES ASSUME NEW k \in Index(m), m \in Coupled
                   PROVE  g[D[m][k]] = h[D[m][k]]
        OBVIOUS
      <4>1. D[m][k] \in Models /\ Level[D[m][k]] = Level[m] + 1
        BY ChildFacts
      <4>2. Level[D[m][k]] + n # Level[d]
        BY <2>3, <4>1, LevelType
      <4> QED
        BY <4>1, <4>2
    <3>2. New(g, m) = New(h, m)
      <4> HIDE DEF g
      <4> QED
        BY <3>1
    <3>3. g[m] = IF Level[m] + n = Level[d] THEN New(h, m) ELSE h[m]
      BY Zenon
    <3>4. Level[m] + n # Level[d] => h[m] = New(h, m)
      <4>1. Level[m] + n # Level[d] => Level[m] + n > Level[d]
        BY <2>3, LevelType
      <4> HIDE DEF New
      <4> QED
        BY <2>1, <4>1
    <3> HIDE DEF g, New
    <3> QED
      BY <3>2, <3>3, <3>4, Zenon
  <2>4. UpTo(n + 1, g)
    <3> HIDE DEF g, New
    <3> QED
      BY <2>2, <2>3
  <2> HIDE DEF UpTo, g
  <2> QED
    BY <2>4
<1>4. Nat \subseteq T
  <2> HIDE DEF T
  <2> QED
    BY <1>2, <1>3, InductiveSet
<1>5. PICK h : UpTo(Level[d] + 1, h)
  <2>1. Level[d] + 1 \in Nat
    BY LevelType
  <2> HIDE DEF UpTo
  <2> QED
    BY <1>4, <2>1
<1> DEFINE Fix(f) == f = [m \in Models |-> New(f, m)]
           hears  == CHOOSE f : Fix(f)
<1>6. Fix(h)
  <2>1. \A m \in Models : Level[m] + (Level[d] + 1) > Level[d]
    BY LevelType
  <2>2. \A m \in Models : h[m] = New(h, m)
    <3> HIDE DEF New
    <3> QED
      BY <1>5, <2>1
  <2>3. h = [m \in Models |-> h[m]]
    BY <1>5
  <2> HIDE DEF New
  <2> QED
    BY <2>2, <2>3
<1>7. Fix(hears)
  BY <1>6, Zenon
<1>8. Climbers(a, tnext) = {m \in Models : hears[m]}
  BY Zenon DEF Climbers
<1> HIDE DEF hears
<1>9. hears[a]
  BY <1>7
<1> QED
  BY <1>8, <1>9

LEMMA ShownFacts ==
  ASSUME RtTypes, NEW a \in Models, NEW tnext \in Int, NEW again \in SUBSET Coupled
  PROVE  /\ Shown(a, tnext, again) \in [Models -> Int]
         /\ \A m \in Models \ again : m # a => Shown(a, tnext, again)[m] = tn[m]
<1> DEFINE F(m)      == D[m][First(key[m])]
           New(f, m) == IF m = a THEN tnext ELSE IF m \in again THEN f[F(m)] ELSE tn[m]
<1>1. PICK d \in Models : \A m \in Models : Level[m] <= Level[d]
  BY DepthAssumption
<1>2. \A m \in again : F(m) \in Models /\ Level[F(m)] = Level[m] + 1
  <2> SUFFICES ASSUME NEW m \in again
               PROVE  F(m) \in Models /\ Level[F(m)] = Level[m] + 1
    OBVIOUS
  <2>1. First(key[m]) \in Index(m)
    BY RtFirst
  <2> QED
    BY <2>1, ChildFacts
<1>3. tn \in [Models -> Int]
  BY DEF RtTypes
<1> HIDE DEF F
<1> DEFINE UpTo(n, f) == /\ f \in [Models -> Int]
                         /\ \A m \in Models : Level[m] + n > Level[d] => f[m] = New(f, m)
           T == {n \in Nat : \E f : UpTo(n, f)}
<1>4. 0 \in T
  <2>1. \A m \in Models : ~(Level[m] + 0 > Level[d])
    BY <1>1, LevelType
  <2>2. UpTo(0, tn)
    BY <1>3, <2>1
  <2> QED
    BY <2>2, Zenon
<1>5. ASSUME NEW n \in Nat, n \in T
      PROVE  n + 1 \in T
  <2>1. PICK f : UpTo(n, f)
    BY <1>5, Zenon
  <2> DEFINE g == [m \in Models |-> IF Level[m] + n = Level[d] THEN New(f, m) ELSE f[m]]
  <2>2. g \in [Models -> Int]
    BY <1>2, <1>3, <2>1
  <2>3. ASSUME NEW m \in Models, Level[m] + (n + 1) > Level[d]
        PROVE  g[m] = New(g, m)
    <3>1. m \in again => g[F(m)] = f[F(m)]
      <4>1. m \in again => Level[F(m)] + n # Level[d]
        BY <1>2, <2>3, LevelType
      <4> QED
        BY <1>2, <4>1
    <3>2. New(g, m) = New(f, m)
      <4> HIDE DEF g
      <4> QED
        BY <3>1
    <3>3. Level[m] + n # Level[d] => f[m] = New(f, m)
      <4>1. Level[m] + n # Level[d] => Level[m] + n > Level[d]
        BY <2>3, LevelType
      <4> HIDE DEF New
      <4> QED
        BY <2>1, <4>1
    <3>4. g[m] = IF Level[m] + n = Level[d] THEN New(f, m) ELSE f[m]
      BY Zenon
    <3> HIDE DEF g, New
    <3> QED
      BY <3>2, <3>3, <3>4, Zenon
  <2>4. UpTo(n + 1, g)
    <3> HIDE DEF g, New
    <3> QED
      BY <2>2, <2>3
  <2> HIDE DEF UpTo, g
  <2> QED
    BY <2>4
<1>6. Nat \subseteq T
  <2> HIDE DEF T
  <2> QED
    BY <1>4, <1>5, InductiveSet
<1>7. PICK f : UpTo(Level[d] + 1, f)
  <2>1. Level[d] + 1 \in Nat
    BY LevelType
  <2> HIDE DEF UpTo
  <2> QED
    BY <1>6, <2>1
<1> DEFINE Fix(x) == x = [m \in Models |-> New(x, m)]
           show   == CHOOSE x : Fix(x)
<1>8. Fix(f)
  <2>1. \A m \in Models : Level[m] + (Level[d] + 1) > Level[d]
    BY LevelType
  <2>2. \A m \in Models : f[m] = New(f, m)
    <3> HIDE DEF New
    <3> QED
      BY <1>7, <2>1
  <2>3. f = [m \in Models |-> f[m]]
    BY <1>7
  <2> HIDE DEF New
  <2> QED
    BY <2>2, <2>3
<1>9. Fix(show)
  BY <1>8, Zenon
<1>10. Shown(a, tnext, again) = show
  BY Zenon DEF Shown, F
<1> HIDE DEF show
<1>11. DOMAIN show = Models /\ \A m \in Models : show[m] = New(show, m)
  <2> HIDE DEF New
  <2> QED
    BY <1>9
(* From the deepest level upwards the times are integers. *)
<1> DEFINE U == {n \in Nat : \A m \in Models : Level[m] + n > Level[d] => show[m] \in Int}
<1>12. 0 \in U
  BY <1>1, LevelType
<1>13. ASSUME NEW n \in Nat, n \in U
       PROVE  n + 1 \in U
  <2> SUFFICES ASSUME NEW m \in Models, Level[m] + (n + 1) > Level[d]
               PROVE  show[m] \in Int
    OBVIOUS
  <2>1. m \in again => Level[F(m)] + n > Level[d]
    BY <1>2, LevelType
  <2>2. m \in again => show[F(m)] \in Int
    BY <1>2, <1>13, <2>1
  <2> QED
    BY <1>3, <1>11, <2>2
<1>14. Nat \subseteq U
  <2> HIDE DEF U
  <2> QED
    BY <1>12, <1>13, InductiveSet
<1>15. \A m \in Models : show[m] \in Int
  <2>1. Level[d] + 1 \in U /\ \A m \in Models : Level[m] + (Level[d] + 1) > Level[d]
    <3>1. Level[d] + 1 \in Nat /\ \A m \in Models : Level[m] + (Level[d] + 1) > Level[d]
      BY LevelType
    <3> HIDE DEF U
    <3> QED
      BY <1>14, <3>1
  <2> QED
    BY <2>1
<1>16. show \in [Models -> Int]
  <2>1. show = [m \in Models |-> show[m]]
    <3> HIDE DEF New
    <3> QED
      BY <1>9, <1>11
  <2> QED
    BY <1>15, <2>1
<1> QED
  BY <1>10, <1>11, <1>16

(* A message reaches a listener, in whatever call the engine waits.        *)
LEMMA InputKept ==
  ASSUME RtTypes, HeapsKnowTimes, RtOutward \/ Inward,
         NEW a \in Listeners, ExternalInput(a)
  PROVE  RtTypes' /\ HeapsKnowTimes' /\ (RtOutward \/ Inward)'
<1>1. a \in Models /\ tn \in [Models -> Int] /\ rt \in Int
  BY RealTimeAssumption DEF Models, RtTypes
<1>2. PICK s \in InputSigmas :
        LET tnext == IF s >= 0 THEN Plus(rt, s) ELSE tn[a]
            heard == Climbers(a, tnext)
            again == heard \cap Coupled
        IN  /\ tn' = Shown(a, tnext, again)
            /\ tc' = [c \in Coupled |-> IF c \in again THEN First(key[c]) ELSE tc[c]]
            /\ key' = [c \in Coupled |-> [k \in Index(c) |->
                         IF D[c][k] \in heard THEN tn'[D[c][k]] ELSE key[c][k]]]
            /\ t' = IF Root \in again THEN tnext ELSE t
  BY DEF ExternalInput
<1> DEFINE tnext == IF s >= 0 THEN Plus(rt, s) ELSE tn[a]
           heard == Climbers(a, tnext)
           again == heard \cap Coupled
<1>3. tnext \in Int
  BY <1>1, RealTimeAssumption, TimeAssumption DEF Plus
<1>4. /\ tn' = Shown(a, tnext, again)
      /\ tc' = [c \in Coupled |-> IF c \in again THEN First(key[c]) ELSE tc[c]]
      /\ key' = [c \in Coupled |-> [k \in Index(c) |->
                   IF D[c][k] \in heard THEN tn'[D[c][k]] ELSE key[c][k]]]
      /\ t' = IF Root \in again THEN tnext ELSE t
  BY <1>2, Zenon
<1>5. /\ Waiting /\ UNCHANGED <<at, todo, rt, wait>>
  BY DEF ExternalInput
<1> HIDE DEF tnext
<1>6. a \in heard /\ heard \subseteq Models
  BY <1>1, ClimbersFacts
<1> HIDE DEF heard
<1>7. again \in SUBSET Coupled
  OBVIOUS
<1>8. /\ tn' \in [Models -> Int]
      /\ \A m \in Models \ again : m # a => tn'[m] = tn[m]
  <2> HIDE DEF again
  <2> QED
    BY <1>1, <1>3, <1>4, <1>7, ShownFacts
<1>9. \A c \in Coupled : First(key[c]) \in Index(c)
  BY RtFirst
<1>10. RtTypes'
  <2>1. DOMAIN tc' = Coupled /\ \A c \in Coupled : tc'[c] \in Index(c)
    <3>1. \A c \in Coupled : tc[c] \in Index(c)
      BY DEF RtTypes
    <3> HIDE DEF again
    <3> QED
      BY <1>4, <1>9, <3>1
  <2>2. DOMAIN key' = Coupled /\ \A c \in Coupled : key'[c] \in [Index(c) -> Int]
    <3>1. \A c \in Coupled : key[c] \in [Index(c) -> Int]
      BY DEF RtTypes
    <3>2. ASSUME NEW c \in Coupled
          PROVE  key'[c] \in [Index(c) -> Int]
      <4>1. \A k \in Index(c) : tn'[D[c][k]] \in Int /\ key[c][k] \in Int
        BY <1>8, <3>1, TreeFacts
      <4>2. key'[c] = [k \in Index(c) |-> IF D[c][k] \in heard THEN tn'[D[c][k]] ELSE key[c][k]]
        BY <1>4
      <4> QED
        BY <4>1, <4>2
    <3> QED
      BY <1>4, <3>2
  <2>3. t' \in Int
    BY <1>3, <1>4 DEF RtTypes
  <2> QED
    BY <1>5, <1>8, <2>1, <2>2, <2>3 DEF RtTypes, Index
(* Who has not heard keeps his time, as the heap of his father does.       *)
<1>11. HeapsKnowTimes'
  <2>1. ASSUME NEW c \in Coupled
        PROVE  key'[c] = [k \in Index(c) |-> tn'[D[c][k]]]
    <3>1. ASSUME NEW k \in Index(c), D[c][k] \notin heard
          PROVE  key[c][k] = tn'[D[c][k]]
      <4>1. D[c][k] \in Models \ again /\ D[c][k] # a
        BY <1>6, <3>1, TreeFacts
      <4>2. key[c][k] = tn[D[c][k]]
        <5>1. key[c] = [j \in Index(c) |-> tn[D[c][j]]]
          BY DEF HeapsKnowTimes, KeysKnown
        <5> QED
          BY <5>1
      <4> HIDE DEF again
      <4> QED
        BY <1>8, <4>1, <4>2
    <3>2. key'[c] = [k \in Index(c) |-> IF D[c][k] \in heard THEN tn'[D[c][k]] ELSE key[c][k]]
      BY <1>4
    <3> QED
      BY <3>1, <3>2
  <2> QED
    BY <2>1 DEF HeapsKnowTimes, KeysKnown, Index
<1>12. (RtOutward \/ Inward)'
  <2>1. CASE wait = "wait"
    <3>1. todo' = <<>>
      BY <1>5, <2>1 DEF RtTypes
    <3> QED
      BY <3>1 DEF Inward
  <2>2. CASE wait # "wait"
    <3>1. todo # <<>> /\ Head(todo).op = "rtwait"
      BY <1>5, <2>2 DEF Waiting, Calling
    <3>2. ~Inward
      <4>1. 1 \in 1 .. Len(todo) /\ Head(todo) = todo[1]
        BY <3>1 DEF RtTypes
      <4> QED
        BY <3>1, <4>1 DEF Inward, OnPath, Internal
    <3> QED
      BY <1>5, <3>2 DEF RtOutward
  <2> QED
    BY <2>1, <2>2
<1> QED
  BY <1>10, <1>11, <1>12

-----------------------------------------------------------------------------
(* The calls, as before but with those that wait. *)

LEMMA RtHead ==
  ASSUME RtTypes, NEW op, Calling(op)
  PROVE  /\ Head(todo) \in RtCalls /\ Head(todo).op = op /\ todo # <<>>
         /\ todo \in Seq(RtCalls) /\ Head(todo) = todo[1] /\ Tail(todo) \in Seq(RtCalls)
         /\ Len(todo) \in Nat /\ Len(todo) >= 1 /\ wait = "call"
BY HeadTailProperties DEF RtTypes, Calling

LEMMA RtOps ==
  ASSUME NEW o \in RtCalls
  PROVE  /\ o.op \in {"lambda", "dint", "ext", "eoc", "ret"} => o \in Call
         /\ o.op = "prop" => o.m \in Coupled /\ o.port \in Ports
BY DEF RtCalls, Call

LEMMA RtInternalInward ==
  ASSUME RtTypes, RtOutward \/ Inward, todo # <<>>, Internal(Head(todo))
  PROVE  Inward
<1>1. CASE RtOutward
  <2>1. Len(todo) \in Nat /\ Len(todo) > 0 /\ Head(todo) = todo[1]
    BY <1>1 DEF RtTypes, RtOutward
  <2>2. Len(todo) = 1
    <3>1. 1 \in 1 .. Len(todo)
      BY <2>1
    <3> QED
      BY <1>1, <2>1, <3>1 DEF RtOutward
  <2>3. todo[1] = Dint(Root)
    BY <1>1, <2>2 DEF RtOutward
  <2>4. todo[1].m = Root
    BY <2>3 DEF Dint
  <2>5. Root \in Models /\ Level[Root] \in Nat
    BY TreeFacts, LevelType
  <2> QED
    BY <2>2, <2>3, <2>4, <2>5, DintInternal DEF Inward, OnPath
<1> QED
  BY <1>1

LEMMA RtOuterOutward ==
  ASSUME RtTypes, RtOutward \/ Inward, todo # <<>>, ~Internal(Head(todo))
  PROVE  RtOutward /\ Len(todo) > 1
<1>1. Len(todo) \in Nat /\ Len(todo) > 0 /\ Head(todo) = todo[1]
  BY DEF RtTypes
<1>2. RtOutward
  BY <1>1 DEF Inward, OnPath
<1>3. Len(todo) # 1
  BY <1>1, <1>2, DintInternal DEF RtOutward
<1>4. \A n \in Nat : n > 0 /\ n # 1 => n > 1
  OBVIOUS
<1>5. Len(todo) > 1
  BY <1>1, <1>3, <1>4, Zenon
<1> QED
  BY <1>2, <1>5

RtOuter == {o \in RtCalls : ~Internal(o)}

LEMMA OuterInRt == Outer \subseteq RtOuter
BY CallTypes, NotBoth DEF RtOuter, RtCalls

LEMMA RtOutwardKept ==
  ASSUME RtTypes, RtOutward, Len(todo) > 1, NEW ops \in Seq(RtOuter), Then(ops)
  PROVE  RtOutward' /\ todo' \in Seq(RtCalls)
<1>1. todo \in Seq(RtCalls) /\ Len(todo) \in Nat
  BY DEF RtTypes
<1>2. /\ Len(ops) \in Nat /\ \A j \in 1 .. Len(ops) : ops[j] \in RtCalls /\ ~Internal(ops[j])
      /\ ops \in Seq(RtCalls)
  BY SeqFacts DEF RtOuter
<1>3. /\ Tail(todo) \in Seq(RtCalls) /\ Len(Tail(todo)) = Len(todo) - 1
      /\ \A j \in 1 .. Len(todo) - 1 : Tail(todo)[j] = todo[j + 1]
  BY <1>1
<1>4. /\ Len(todo') = Len(ops) + Len(todo) - 1 /\ todo' \in Seq(RtCalls)
      /\ \A j \in 1 .. Len(todo') :
           todo'[j] = IF j <= Len(ops) THEN ops[j] ELSE Tail(todo)[j - Len(ops)]
  BY <1>1, <1>2, <1>3 DEF Then
<1>5. ASSUME NEW j \in 1 .. Len(todo')
      PROVE  IF j = Len(todo') THEN todo'[j] = Dint(Root)
             ELSE todo'[j] \in RtCalls /\ ~Internal(todo'[j])
  <2>1. CASE j <= Len(ops)
    <3>1. j \in 1 .. Len(ops) /\ j # Len(todo')
      BY <1>1, <1>2, <1>4, <2>1
    <3>2. todo'[j] = ops[j]
      BY <1>4, <2>1
    <3> QED
      BY <1>2, <3>1, <3>2
  <2>2. CASE j > Len(ops)
    <3>1. j - Len(ops) \in 1 .. Len(todo) - 1
      BY <1>1, <1>2, <1>4, <2>2
    <3>2. todo'[j] = todo[(j - Len(ops)) + 1]
      BY <1>2, <1>3, <1>4, <2>2, <3>1
    <3>3. (j - Len(ops)) + 1 \in 1 .. Len(todo)
      BY <1>1, <1>2, <3>1
    <3>4. (j - Len(ops)) + 1 = Len(todo) <=> j = Len(todo')
      BY <1>1, <1>2, <1>4
    <3> QED
      BY <3>2, <3>3, <3>4 DEF RtOutward
  <2>3. j \in Nat
    OBVIOUS
  <2>4. \A n \in Nat : j <= n \/ j > n
    BY <2>3
  <2>5. j <= Len(ops) \/ j > Len(ops)
    BY <1>2, <2>4
  <2> QED
    BY <2>1, <2>2, <2>5
<1>6. Len(todo') > 0
  BY <1>1, <1>2, <1>4
<1> QED
  BY <1>4, <1>5, <1>6 DEF RtOutward

LEMMA RtInwardPop ==
  ASSUME RtTypes, Inward, todo # <<>>, Then(<<>>),
         \A c \in Coupled : c # Head(todo).m => tc'[c] = tc[c]
  PROVE  Inward' /\ todo' \in Seq(RtCalls)
<1>1. todo \in Seq(RtCalls) /\ Head(todo) = todo[1] /\ Tail(todo) \in Seq(RtCalls)
  BY DEF RtTypes
<1>2. todo' = Tail(todo)
  BY <1>1 DEF Then
<1>3. ASSUME NEW j \in 1 .. Len(Tail(todo))
      PROVE  OnPath(Tail(todo), tc', j)
  BY <1>1, PathPop DEF Inward
<1> QED
  BY <1>1, <1>2, <1>3 DEF Inward

LEMMA RtInwardPush ==
  ASSUME RtTypes, Inward, todo # <<>>, Head(todo).m \in Coupled, UNCHANGED tc,
         Then(<<Dint(Child(Head(todo).m)), Ret(Head(todo).m, "int")>>)
  PROVE  Inward' /\ todo' \in Seq(RtCalls)
<1> DEFINE c   == Head(todo).m
           ops == <<Dint(Child(c)), Ret(c, "int")>>
<1>1. /\ todo \in Seq(RtCalls) /\ Head(todo) = todo[1] /\ tc[c] \in Index(c)
      /\ Tail(todo) \in Seq(RtCalls)
  BY DEF RtTypes
<1>2. todo' = <<Dint(D[c][tc[c]]), Ret(c, "int")>> \o Tail(todo)
  BY DEF Then, Child
<1>3. \A j \in 1 .. Len(todo') : OnPath(todo', tc, j)
  BY <1>1, <1>2, PathPush DEF Inward
<1>4. todo' \in Seq(RtCalls)
  <2>1. Dint(Child(c)) \in RtCalls /\ Ret(c, "int") \in RtCalls
    BY <1>1, TreeFacts, CallTypes DEF Child, RtCalls
  <2>2. ops \in Seq(RtCalls)
    BY <2>1
  <2> HIDE DEF ops
  <2> QED
    BY <1>1, <2>2 DEF Then, ops
<1> QED
  BY <1>3, <1>4 DEF Inward

(* The calls of the outputs, those that wait included. *)
LEMMA RtOuterCalls ==
  ASSUME RtTypes,
         \/ LambdaCoupled \/ LambdaAtomic \/ EocTurn \/ ExtCoupled
         \/ LambdaRealTime \/ LambdaWaitOver \/ PropagateCall
  PROVE  \E ops \in Seq(RtOuter) : Then(ops)
<1> DEFINE o == Head(todo)
<1>1. <<>> \in Seq(RtOuter) /\ Seq(Outer) \subseteq Seq(RtOuter)
  BY OuterInRt, SeqFacts
<1>2. \A c \in Coupled : Child(c) \in Models
  BY TreeFacts DEF RtTypes, Child
<1>3. CASE LambdaCoupled
  <2>1. o.m \in Coupled /\ Then(<<Lambda(Child(o.m))>>)
    BY <1>3 DEF LambdaCoupled
  <2>2. Lambda(Child(o.m)) \in RtOuter
    BY <2>1, <1>2, CallTypes, OuterInRt
  <2>3. <<Lambda(Child(o.m))>> \in Seq(RtOuter)
    BY <2>2
  <2> QED
    BY <2>1, <2>3
<1>4. CASE LambdaAtomic
  <2>1. PICK ops : /\ Then(ops)
                   /\ ops = <<>> \/ \E p \in Ports : ops = Propagate(Father(o.m), p)
    BY <1>4 DEF LambdaAtomic
  <2>2. Father(o.m) \in Coupled
    <3>1. o.m \in Models /\ o.m # Root
      BY <1>4, TreeFacts, TreeAssumption DEF LambdaAtomic, Models
    <3> QED
      BY <3>1, FatherFacts
  <2>3. \A p \in Ports : Propagate(Father(o.m), p) \in Seq(RtOuter)
    BY <1>1, <2>2, PropagateType
  <2>4. ops \in Seq(RtOuter)
    BY <1>1, <2>1, <2>3, Zenon
  <2> QED
    BY <2>1, <2>4
<1>5. CASE EocTurn
  <2>1. /\ o.m \in Coupled /\ o.port \in Ports
        /\ o.i \in Nat /\ o.i \in 1 .. Len(EOC[o.m]) + 1
    <3>1. o \in RtCalls /\ o.op = "eoc"
      BY <1>5, RtHead DEF EocTurn
    <3>2. o \in Call
      BY <3>1, RtOps
    <3> QED
      BY <3>1, <3>2, OpTypes
  <2>2. /\ Len(EOC[o.m]) \in Nat
        /\ \A i \in 1 .. Len(EOC[o.m]) : EOC[o.m][i].oport \in Ports
        /\ o.m = Root => EOC[o.m] = <<>>
    BY <2>1, ConnectionFacts
  <2>3. CASE o.i > Len(EOC[o.m])
    <3>1. Then(<<>>)
      BY <1>5, <2>3 DEF EocTurn
    <3> QED
      BY <1>1, <3>1
  <2>4. CASE ~(o.i > Len(EOC[o.m]))
    <3>1. o.i \in 1 .. Len(EOC[o.m]) /\ o.i + 1 \in 1 .. Len(EOC[o.m]) + 1 /\ o.i + 1 \in Nat
      BY <2>1, <2>2, <2>4
    <3>2. Eoc(o.m, o.port, o.i + 1) \in Outer
      BY <2>1, <3>1, CallTypes
    <3>3. o.m # Root /\ o.m \in Models
      BY <2>1, <2>2, <3>1 DEF Models
    <3>4. Propagate(Father(o.m), EOC[o.m][o.i].oport) \in Seq(Outer)
      BY <2>2, <3>1, <3>3, FatherFacts, PropagateType
    <3> DEFINE one  == <<Eoc(o.m, o.port, o.i + 1)>>
               more == Propagate(Father(o.m), EOC[o.m][o.i].oport) \o one
    <3>5. one \in Seq(Outer)
      BY <3>2
    <3>6. more \in Seq(Outer)
      BY <3>4, <3>5
    <3>7. Then(more) \/ Then(one)
      BY <1>5, <2>4 DEF EocTurn
    <3> HIDE DEF one, more
    <3> QED
      BY <1>1, <3>5, <3>6, <3>7
  <2> QED
    BY <2>3, <2>4
<1>6. CASE ExtCoupled
  <2>1. o \in RtCalls /\ o.op = "ext"
    BY <1>6, RtHead DEF ExtCoupled
  <2>2. o.port \in Ports
    BY <2>1, RtOps, OpTypes
  <2> DEFINE c   == D[o.m][o.child]
             ops == Enter(c, o.port) \o <<Ret(c, "ext")>>
  <2>3. c \in Coupled /\ Then(ops)
    BY <1>6 DEF ExtCoupled
  <2>4. Enter(c, o.port) \in Seq(Outer) /\ Ret(c, "ext") \in Outer
    BY <2>2, <2>3, EnterType, CallTypes
  <2>5. ops \in Seq(Outer)
    BY <2>4
  <2> HIDE DEF c, ops
  <2> QED
    BY <1>1, <2>3, <2>5
<1>7. CASE LambdaRealTime
  <2> DEFINE ops(p) == <<RtWait(o.m, at), Prop(Father(o.m), p)>>
  <2>1. PICK p \in Ports : Then(ops(p))
    BY <1>7 DEF LambdaRealTime
  <2>2. o.m \in Models /\ Father(o.m) \in Coupled
    <3>1. o.m \in Models /\ o.m # Root
      BY <1>7, TreeAssumption, RealTimeAssumption DEF LambdaRealTime, Models
    <3> QED
      BY <3>1, FatherFacts
  <2>3. RtWait(o.m, at) \in RtOuter /\ Prop(Father(o.m), p) \in RtOuter
    BY <2>2 DEF RtWait, Prop, RtOuter, RtCalls, Internal, RtTypes
  <2>4. ops(p) \in Seq(RtOuter)
    BY <2>3
  <2> HIDE DEF ops
  <2> QED
    BY <2>1, <2>4
<1>8. CASE LambdaWaitOver
  BY <1>1, <1>8 DEF LambdaWaitOver
<1>9. CASE PropagateCall
  <2>1. o \in RtCalls /\ o.op = "prop" /\ Then(Propagate(o.m, o.port))
    BY <1>9, RtHead DEF PropagateCall
  <2>2. Propagate(o.m, o.port) \in Seq(Outer)
    BY <2>1, RtOps, PropagateType
  <2> QED
    BY <1>1, <2>1, <2>2
<1> QED
  BY <1>3, <1>4, <1>5, <1>6, <1>7, <1>8, <1>9

(* A heap told at the place of the model whose time changed.               *)
LEMMA RtUpdate ==
  ASSUME RtTypes, HeapsKnowTimes, NEW m \in Models, m # Root,
         tn' \in [Models -> Int], \A x \in Models : x # m => tn'[x] = tn[x],
         UpdateHeap(Father(m), Myself(m))
  PROVE  /\ HeapsKnowTimes'
         /\ DOMAIN key' = Coupled /\ \A c \in Coupled : key'[c] \in [Index(c) -> Int]
<1>1. /\ Father(m) \in Coupled /\ Myself(m) \in Index(Father(m))
      /\ D[Father(m)][Myself(m)] = m
  BY FatherFacts
<1>2. DOMAIN key = Coupled /\ \A d \in Coupled : key[d] \in [Index(d) -> Int]
  BY DEF RtTypes
<1>3. key' = [key EXCEPT ![Father(m)][Myself(m)] = tn'[m]]
  BY <1>1 DEF UpdateHeap
<1>4. /\ DOMAIN key' = Coupled
      /\ \A d \in Coupled : d # Father(m) => key'[d] = key[d]
      /\ key'[Father(m)] = [key[Father(m)] EXCEPT ![Myself(m)] = tn'[m]]
  BY <1>1, <1>2, <1>3
<1>5. \A d \in Coupled : key'[d] \in [Index(d) -> Int]
  <2>1. tn'[m] \in Int
    OBVIOUS
  <2> QED
    BY <1>1, <1>2, <1>4, <2>1
<1>6. ASSUME NEW c \in Coupled, NEW k \in Index(c)
      PROVE  key'[c][k] = tn'[D[c][k]]
  <2>1. key[c] \in [Index(c) -> Int] /\ key[c][k] = tn[D[c][k]]
    <3>1. key[c] = [j \in Index(c) |-> tn[D[c][j]]]
      BY DEF HeapsKnowTimes, KeysKnown
    <3> QED
      BY <1>2, <3>1
  <2>2. D[c][k] \in Models /\ Father(D[c][k]) = c /\ Myself(D[c][k]) = k
    BY ChildFacts
  <2>3. CASE D[c][k] = m
    BY <1>4, <2>1, <2>2, <2>3
  <2>4. CASE D[c][k] # m
    <3>1. tn'[D[c][k]] = tn[D[c][k]]
      BY <2>2, <2>4
    <3>2. c = Father(m) => k # Myself(m)
      BY <1>1, <2>4
    <3> QED
      BY <1>4, <2>1, <3>1, <3>2
  <2> QED
    BY <2>3, <2>4
<1>7. \A c \in Coupled : key'[c] = [k \in Index(c) |-> tn'[D[c][k]]]
  BY <1>5, <1>6
<1> QED
  BY <1>4, <1>5, <1>7 DEF HeapsKnowTimes, KeysKnown, Index

LEMMA RtTransition ==
  ASSUME RtTypes, NEW a \in Atomic, Transition(a)
  PROVE  tn' \in [Models -> Int] /\ \A m \in Models : m # a => tn'[m] = tn[m]
<1>1. a \in Models /\ at \in Int /\ tn \in [Models -> Int]
  BY DEF RtTypes, Models
<1>2. PICK s \in Sigmas : tn' = [tn EXCEPT ![a] = IF s >= 0 THEN Plus(at, s) ELSE tn[a]]
  BY DEF Transition
<1>3. Plus(at, s) \in Int
  BY <1>1, TimeAssumption DEF Plus
<1> QED
  BY <1>1, <1>2, <1>3

RtInv == RtTypes /\ (RtOutward \/ Inward) /\ HeapsKnowTimes

(* The clock, and the waits and steps of RootSimulator. *)
LEMMA RtStepsKept ==
  ASSUME RtInv, Tick \/ CallStep \/ StepWaitOver \/ RtStep \/ UNCHANGED rtVars
  PROVE  RtInv'
<1>0. /\ RtTypes /\ (RtOutward \/ Inward) /\ HeapsKnowTimes
      /\ t \in Int /\ at \in Int /\ rt \in Int /\ tn[Root] \in Int
  BY TreeFacts DEF RtInv, RtTypes
<1>1. ASSUME UNCHANGED <<tn, key, tc>>, t' \in Int, at' \in Int, rt' \in Int,
             todo' \in Seq(RtCalls), wait' # "call" => todo' = <<>>
      PROVE  RtTypes' /\ HeapsKnowTimes'
  BY <1>0, <1>1 DEF RtTypes, HeapsKnowTimes, KeysKnown, Index
<1>2. CASE Tick \/ CallStep \/ StepWaitOver \/ UNCHANGED rtVars
  <2>1. UNCHANGED <<t, at, tn, key, tc, todo>>
    BY <1>2 DEF Tick, CallStep, StepWaitOver, rtVars, vars
  <2>2. rt' \in Int
    BY <1>0, <1>2 DEF Tick, CallStep, StepWaitOver, rtVars
  <2>3. wait' # "call" => todo' = <<>>
    BY <1>0, <1>2, <2>1 DEF Tick, CallStep, StepWaitOver, rtVars, RtTypes
  <2>4. RtTypes' /\ HeapsKnowTimes'
    BY <1>0, <1>1, <2>1, <2>2, <2>3 DEF RtTypes
  <2>5. (RtOutward \/ Inward)'
    BY <1>0, <2>1 DEF RtOutward, Inward
  <2> QED
    BY <2>4, <2>5 DEF RtInv
<1>3. CASE RtStep
  <2>1. /\ wait' = "call" /\ rt' = rt /\ UNCHANGED <<tn, key, tc>>
        /\ t' = tn[Root] /\ at' \in {at, t'}
        /\ todo' = <<>> \/ todo' = <<Lambda(Root), Dint(Root)>>
    BY <1>3 DEF RtStep, StepAborted, StepIllegitimate, StepPastEnd, StepEvent, CountStep, Exit
  <2>2. /\ Lambda(Root) \in RtOuter /\ Lambda(Root) \in RtCalls /\ Dint(Root) \in RtCalls
    BY TreeFacts, CallTypes, OuterInRt DEF RtOuter, RtCalls
  <2>3. todo' \in Seq(RtCalls)
    <3>1. <<>> \in Seq(RtCalls) /\ <<Lambda(Root), Dint(Root)>> \in Seq(RtCalls)
      BY <2>2
    <3> QED
      BY <2>1, <3>1, Zenon
  <2>4. RtTypes' /\ HeapsKnowTimes'
    BY <1>0, <1>1, <2>1, <2>3
  <2>5. CASE todo' = <<>>
    <3>1. Inward'
      BY <2>5 DEF Inward
    <3> QED
      BY <2>4, <3>1 DEF RtInv
  <2>6. CASE todo' = <<Lambda(Root), Dint(Root)>>
    <3>1. RtOutward'
      BY <2>2, <2>6 DEF RtOutward, RtOuter
    <3> QED
      BY <2>4, <3>1 DEF RtInv
  <2> QED
    BY <2>1, <2>5, <2>6
<1> QED
  BY <1>2, <1>3

(* The calls that change no time. *)
LEMMA RtCallsKept ==
  ASSUME RtInv, UNCHANGED clock,
         \/ LambdaCoupled \/ LambdaAtomic \/ EocTurn \/ ExtCoupled \/ DintCoupled
         \/ LambdaRealTime \/ LambdaWaitOver \/ PropagateCall \/ Throw
  PROVE  RtInv'
<1>0. RtTypes /\ (RtOutward \/ Inward) /\ HeapsKnowTimes
  BY DEF RtInv
<1>1. /\ todo # <<>> /\ UNCHANGED <<t, tn, key, tc, rt, wait>> /\ at' \in {at, t}
  BY DEF LambdaCoupled, LambdaAtomic, EocTurn, ExtCoupled, DintCoupled, LambdaRealTime,
         LambdaWaitOver, PropagateCall, Throw, Calling, root, clock
<1>2. ASSUME todo' \in Seq(RtCalls)
      PROVE  RtTypes' /\ HeapsKnowTimes'
  BY <1>0, <1>1, <1>2 DEF RtTypes, HeapsKnowTimes, KeysKnown, Index
<1>3. CASE Throw
  <2>1. todo' = <<>> /\ <<>> \in Seq(RtCalls)
    BY <1>3 DEF Throw
  <2> QED
    BY <1>2, <2>1 DEF RtInv, Inward
<1>4. CASE DintCoupled
  <2>1. /\ Head(todo).op = "dint" /\ Head(todo).m \in Coupled /\ UNCHANGED tc
        /\ Then(<<Dint(Child(Head(todo).m)), Ret(Head(todo).m, "int")>>)
    BY <1>4 DEF DintCoupled, Calling
  <2>2. Inward
    BY <1>0, <1>1, <2>1, RtInternalInward DEF Internal
  <2>3. Inward' /\ todo' \in Seq(RtCalls)
    BY <1>0, <1>1, <2>1, <2>2, RtInwardPush
  <2> QED
    BY <1>2, <2>3 DEF RtInv
<1>5. CASE \/ LambdaCoupled \/ LambdaAtomic \/ EocTurn \/ ExtCoupled
           \/ LambdaRealTime \/ LambdaWaitOver \/ PropagateCall
  <2>1. Head(todo).op \in {"lambda", "eoc", "ext", "rtwait", "prop"}
    BY <1>5 DEF LambdaCoupled, LambdaAtomic, EocTurn, ExtCoupled, LambdaRealTime,
                LambdaWaitOver, PropagateCall, Calling
  <2>2. RtOutward /\ Len(todo) > 1
    BY <1>0, <1>1, <2>1, RtOuterOutward DEF Internal
  <2>3. PICK ops \in Seq(RtOuter) : Then(ops)
    BY <1>0, <1>5, RtOuterCalls
  <2>4. RtOutward' /\ todo' \in Seq(RtCalls)
    BY <1>0, <2>2, <2>3, RtOutwardKept
  <2> QED
    BY <1>2, <2>4 DEF RtInv
<1> QED
  BY <1>3, <1>4, <1>5

(* On a path the transition child is the child called. *)
LEMMA RtPathChild ==
  ASSUME RtTypes, RtOutward \/ Inward, todo # <<>>, Internal(Head(todo)), Head(todo).m # Root
  PROVE  tc[Father(Head(todo).m)] = Myself(Head(todo).m)
<1> DEFINE m == Head(todo).m
<1>1. Inward /\ todo \in Seq(RtCalls) /\ Len(todo) \in Nat /\ Len(todo) >= 1 /\ m = todo[1].m
  BY RtInternalInward DEF RtTypes
<1>2. OnPath(todo, tc, 1)
  BY <1>1 DEF Inward
<1>3. /\ m \in Models
      /\ 1 = Len(todo) => m = Root
      /\ 1 < Len(todo) => D[Father(m)][tc[Father(m)]] = m
  BY <1>1, <1>2 DEF OnPath
<1>4. \A n \in Nat : n >= 1 => 1 = n \/ 1 < n
  OBVIOUS
<1>5. D[Father(m)][tc[Father(m)]] = m
  BY <1>1, <1>3, <1>4
<1>6. Father(m) \in Coupled
  BY <1>3, FatherFacts
<1>7. tc[Father(m)] \in Index(Father(m))
  BY <1>6 DEF RtTypes
<1> HIDE DEF m
<1>8. Myself(m) = tc[Father(m)]
  BY <1>5, <1>6, <1>7, ChildFacts
<1> QED
  BY <1>8 DEF m

(* The calls that change the time of one model, and then tell its father.  *)
LEMMA RtTimesKept ==
  ASSUME RtInv, UNCHANGED clock, ExtAtomic \/ DintAtomic \/ Return
  PROVE  RtInv'
<1> DEFINE o == Head(todo)
<1>0. /\ RtTypes /\ (RtOutward \/ Inward) /\ HeapsKnowTimes
      /\ DOMAIN tc = Coupled /\ \A c \in Coupled : tc[c] \in Index(c)
  BY DEF RtInv, RtTypes
<1>1. /\ todo # <<>> /\ UNCHANGED <<t, at, rt, wait>> /\ Then(<<>>)
  BY DEF ExtAtomic, DintAtomic, Return, Calling, root, clock
<1>2. /\ o \in RtCalls /\ o.op \in {"ext", "dint", "ret"} /\ o \in Call
  BY <1>0, RtHead, RtOps DEF ExtAtomic, DintAtomic, Return
(* The stack, when only the transition child of a return has changed.      *)
<1>3. ASSUME \A c \in Coupled : c # o.m => tc'[c] = tc[c]
      PROVE  (RtOutward \/ Inward)' /\ todo' \in Seq(RtCalls)
  <2>1. CASE Internal(o)
    BY <1>0, <1>1, <1>3, <2>1, RtInternalInward, RtInwardPop
  <2>2. CASE ~Internal(o)
    <3>1. <<>> \in Seq(RtOuter)
      OBVIOUS
    <3> QED
      BY <1>0, <1>1, <2>2, <3>1, RtOuterOutward, RtOutwardKept
  <2> QED
    BY <2>1, <2>2
<1>4. ASSUME tn' \in [Models -> Int], HeapsKnowTimes',
             DOMAIN key' = Coupled, \A c \in Coupled : key'[c] \in [Index(c) -> Int],
             DOMAIN tc' = Coupled, \A c \in Coupled : tc'[c] \in Index(c),
             \A c \in Coupled : c # o.m => tc'[c] = tc[c]
      PROVE  RtInv'
  <2>1. (RtOutward \/ Inward)' /\ todo' \in Seq(RtCalls)
    BY <1>3, <1>4
  <2>2. wait' = "call" \/ todo' = <<>>
    BY <1>0, <1>1 DEF RtTypes
  <2>3. RtTypes'
    BY <1>0, <1>1, <1>4, <2>1, <2>2 DEF RtTypes, Index
  <2> QED
    BY <1>4, <2>1, <2>3 DEF RtInv
<1>5. CASE ExtAtomic
  <2> DEFINE a == D[o.m][o.child]
  <2>1. /\ a \in Atomic /\ Transition(a) /\ UpdateHeap(o.m, o.child) /\ tc' = tc /\ o.op = "ext"
    BY <1>5 DEF ExtAtomic, Calling
  <2>2. o.m \in Coupled /\ o.child \in Index(o.m)
    BY <1>2, <2>1, OpTypes
  <2>3. a \in Models /\ a # Root /\ Father(a) = o.m /\ Myself(a) = o.child
    BY <2>2, ChildFacts
  <2> HIDE DEF a
  <2>4. tn' \in [Models -> Int] /\ \A x \in Models : x # a => tn'[x] = tn[x]
    BY <1>0, <2>1, RtTransition
  <2>5. UpdateHeap(Father(a), Myself(a))
    BY <2>1, <2>3
  <2>6. /\ HeapsKnowTimes'
        /\ DOMAIN key' = Coupled /\ \A c \in Coupled : key'[c] \in [Index(c) -> Int]
    BY <1>0, <2>3, <2>4, <2>5, RtUpdate
  <2>7. DOMAIN tc' = Coupled /\ \A c \in Coupled : tc'[c] \in Index(c) /\ tc'[c] = tc[c]
    BY <1>0, <2>1
  <2> QED
    BY <1>4, <2>4, <2>6, <2>7
<1>6. CASE DintAtomic
  <2>1. /\ o.op = "dint" /\ o.m \in Atomic /\ Transition(o.m) /\ tc' = tc
        /\ UpdateHeap(Father(o.m), tc[Father(o.m)])
    BY <1>6 DEF DintAtomic, Calling
  <2>2. o.m \in Models /\ o.m # Root
    BY <2>1, TreeAssumption DEF Models
  <2>3. UpdateHeap(Father(o.m), Myself(o.m))
    BY <1>0, <1>1, <2>1, <2>2, RtPathChild DEF Internal
  <2>4. tn' \in [Models -> Int] /\ \A x \in Models : x # o.m => tn'[x] = tn[x]
    BY <1>0, <2>1, RtTransition
  <2>5. /\ HeapsKnowTimes'
        /\ DOMAIN key' = Coupled /\ \A c \in Coupled : key'[c] \in [Index(c) -> Int]
    BY <1>0, <2>2, <2>3, <2>4, RtUpdate
  <2>6. DOMAIN tc' = Coupled /\ \A c \in Coupled : tc'[c] \in Index(c) /\ tc'[c] = tc[c]
    BY <1>0, <2>1
  <2> QED
    BY <1>4, <2>4, <2>5, <2>6
<1>7. CASE Return
  <2> DEFINE c == o.m
             k == First(key[c])
  <2>1. /\ o.op = "ret" /\ tc' = [tc EXCEPT ![c] = k] /\ tn' = [tn EXCEPT ![c] = tn[D[c][k]]]
        /\ IF c = Root THEN key' = key
           ELSE UpdateHeap(Father(c), IF o.why = "ext" THEN Myself(c) ELSE tc[Father(c)])
    BY <1>7 DEF Return, Calling
  <2>2. c \in Coupled /\ c \in Models /\ o.why \in {"ext", "int"}
    BY <1>2, <2>1, OpTypes DEF Models
  <2>3. k \in Index(c) /\ D[c][k] \in Models
    BY <1>0, <2>2, RtFirst
  <2>4. tn \in [Models -> Int]
    BY <1>0 DEF RtTypes
  <2> HIDE DEF k
  <2>5. tn' \in [Models -> Int] /\ \A x \in Models : x # c => tn'[x] = tn[x]
    BY <2>1, <2>2, <2>3, <2>4
  <2>6. /\ DOMAIN tc' = Coupled /\ \A d \in Coupled : tc'[d] \in Index(d)
        /\ \A d \in Coupled : d # c => tc'[d] = tc[d]
    BY <1>0, <2>1, <2>2, <2>3
  <2>7. CASE c = Root
    <3>1. \A d \in Coupled : \A j \in Index(d) : tn'[D[d][j]] = tn[D[d][j]]
      BY <2>5, <2>7, TreeFacts
    <3>2. HeapsKnowTimes'
      <4>1. key' = key
        BY <2>1, <2>7
      <4>2. ASSUME NEW d \in Coupled
            PROVE  key[d] = [j \in Index(d) |-> tn'[D[d][j]]]
        <5>1. key[d] = [j \in Index(d) |-> tn[D[d][j]]]
          BY <1>0 DEF HeapsKnowTimes, KeysKnown
        <5> QED
          BY <3>1, <5>1
      <4> QED
        BY <4>1, <4>2 DEF HeapsKnowTimes, KeysKnown, Index
    <3>3. DOMAIN key' = Coupled /\ \A d \in Coupled : key'[d] \in [Index(d) -> Int]
      BY <1>0, <2>1, <2>7 DEF RtTypes
    <3> QED
      BY <1>4, <2>5, <2>6, <3>2, <3>3
  <2>8. CASE c # Root
    <3>1. o.why = "int" => tc[Father(c)] = Myself(c)
      BY <1>0, <1>1, <2>1, <2>8, RtPathChild DEF Internal
    <3>2. UpdateHeap(Father(c), Myself(c))
      BY <2>1, <2>2, <2>8, <3>1
    <3>3. /\ HeapsKnowTimes'
          /\ DOMAIN key' = Coupled /\ \A d \in Coupled : key'[d] \in [Index(d) -> Int]
      BY <1>0, <2>2, <2>5, <2>8, <3>2, RtUpdate
    <3> QED
      BY <1>4, <2>5, <2>6, <3>3
  <2> QED
    BY <2>7, <2>8
<1> QED
  BY <1>5, <1>6, <1>7

LEMMA RtInvInit == RtInit => RtInv
<1> SUFFICES ASSUME RtInit
             PROVE  RtInv
  OBVIOUS
<1>1. Init /\ rt = 0 /\ wait = "call"
  BY DEF RtInit
<1>2. Inward /\ HeapsKnowTimes /\ t = 0 /\ at = 0 /\ todo \in Seq(RtCalls)
  BY <1>1 DEF Init, Inward, HeapsKnowTimes, KeysKnown
<1>3. TypeOK
  BY <1>1, TypeInit
<1>4. Times \subseteq Int
  BY TimeAssumption DEF Times
<1>5. RtTypes
  BY <1>1, <1>2, <1>3, <1>4 DEF TypeOK, RtTypes, Index
<1> QED
  BY <1>2, <1>5 DEF RtInv

(* In real time, whatever messages arrive and in whatever call the engine  *)
(* waits for the clock, every heap knows the times of its children.        *)
THEOREM HeapsAlwaysKnowInRealTime == RtSpec => []HeapsKnowTimesInRealTime
<1>1. RtInit => RtInv
  BY RtInvInit
<1>2. RtInv /\ [RtNext]_rtVars => RtInv'
  <2> SUFFICES ASSUME RtInv, [RtNext]_rtVars
               PROVE  RtInv'
    OBVIOUS
  <2>1. ASSUME NEW a \in Listeners, ExternalInput(a)
        PROVE  RtInv'
    BY <2>1, InputKept DEF RtInv
  <2> QED
    BY <2>1, RtStepsKept, RtCallsKept, RtTimesKept DEF RtNext, RtCall
<1>3. RtInv => HeapsKnowTimesInRealTime
  BY DEF RtInv, HeapsKnowTimes, HeapsKnowTimesInRealTime
<1> QED
  BY <1>1, <1>2, <1>3, PTL DEF RtSpec

=============================================================================
