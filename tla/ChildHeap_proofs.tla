-------------------------- MODULE ChildHeap_proofs --------------------------
(***************************************************************************)
(* ChildHeap answers with the first of the recorded children whatever the  *)
(* number of children and whatever their times: for every Size, Depth and  *)
(* Times, HeapInv is inductive and implies NextIsFirst.                    *)
(***************************************************************************)
EXTENDS ChildHeap, WellFoundedInduction, TLAPS

USE SizeAssumption, TimesAssumption, DepthAssumption

-----------------------------------------------------------------------------
(* Natural numbers. *)

(* Every non-empty set of natural numbers has a least element. *)
LEMMA LeastNatural ==
  ASSUME NEW T \in SUBSET Nat, T # {}
  PROVE  \E x \in T : \A y \in T : x <= y
<1>1. PICK x \in T : \A y \in T : ~(<<y, x>> \in OpToRel(<, Nat))
  BY WFMin, NatLessThanWellFounded, Zenon
<1>2. \A y \in T : y < x => <<y, x>> \in OpToRel(<, Nat)
  BY DEF OpToRel
<1>3. \A y \in T : ~(y < x)
  BY <1>1, <1>2, Zenon
<1> QED
  BY <1>3

(* Induction: a set that holds 0 and the successor of each of its natural  *)
(* numbers holds them all.                                                 *)
LEMMA InductiveSet ==
  ASSUME NEW T, 0 \in T, \A n \in Nat : n \in T => n + 1 \in T
  PROVE  Nat \subseteq T
<1> SUFFICES ASSUME Nat \ T # {}
             PROVE  FALSE
  OBVIOUS
<1>1. PICK x \in Nat \ T : \A y \in Nat \ T : x <= y
  BY LeastNatural
<1> QED
  BY <1>1

-----------------------------------------------------------------------------
(* The recursive function Entrants satisfies its equation.  A function on  *)
(* 0..n does so up to n; two of them agree where both are defined.         *)
UpTo(n, f) ==
  /\ f \in [0 .. n -> Nat]
  /\ \A i \in 0 .. n : f[i] = IF i = 0 THEN Size ELSE (f[i - 1] + 1) \div 2

LEMMA UpToExists == \A n \in Nat : \E f : UpTo(n, f)
<1> DEFINE T == {n \in Nat : \E f : UpTo(n, f)}
<1>1. 0 \in T
  <2>1. UpTo(0, [i \in 0 .. 0 |-> Size])
    BY DEF UpTo
  <2> QED
    BY <2>1
<1>2. ASSUME NEW n \in Nat, n \in T
      PROVE  n + 1 \in T
  <2>1. PICK f : UpTo(n, f)
    BY <1>2
  <2> DEFINE g == [i \in 0 .. n + 1 |->
                     IF i = n + 1 THEN (f[n] + 1) \div 2 ELSE f[i]]
  <2>2. UpTo(n + 1, g)
    BY <2>1 DEF UpTo
  <2> QED
    BY <2>2
<1>3. Nat \subseteq T
  <2> HIDE DEF T
  <2> QED
    BY <1>1, <1>2, InductiveSet
<1> QED
  BY <1>3

LEMMA UpToUnique ==
  ASSUME NEW m \in Nat, NEW n \in Nat, m <= n,
         NEW f, NEW g, UpTo(m, f), UpTo(n, g)
  PROVE  f[m] = g[m]
<1> DEFINE T == {i \in Nat : i <= m => f[i] = g[i]}
<1>1. 0 \in T
  BY DEF UpTo
<1>2. ASSUME NEW i \in Nat, i \in T
      PROVE  i + 1 \in T
  <2> SUFFICES ASSUME i + 1 <= m
               PROVE  f[i + 1] = g[i + 1]
    OBVIOUS
  <2>1. f[i] = g[i]
    BY <1>2
  <2>2. i + 1 \in 0 .. m /\ i + 1 \in 0 .. n /\ i + 1 # 0 /\ (i + 1) - 1 = i
    OBVIOUS
  <2>3. f[i + 1] = (f[i] + 1) \div 2 /\ g[i + 1] = (g[i] + 1) \div 2
    BY <2>2 DEF UpTo
  <2> QED
    BY <2>1, <2>3
<1>3. Nat \subseteq T
  <2> HIDE DEF T
  <2> QED
    BY <1>1, <1>2, InductiveSet
<1> QED
  BY <1>3

LEMMA EntrantsDef ==
  \A l \in Nat : Entrants[l] = IF l = 0 THEN Size ELSE (Entrants[l - 1] + 1) \div 2
<1> DEFINE Ch(n) == CHOOSE f : UpTo(n, f)
           F     == [n \in Nat |-> Ch(n)[n]]
<1>1. \A n \in Nat : UpTo(n, Ch(n))
  BY UpToExists, Zenon
<1> HIDE DEF Ch
<1>2. \A n \in Nat : F[n] = IF n = 0 THEN Size ELSE (F[n - 1] + 1) \div 2
  <2> SUFFICES ASSUME NEW n \in Nat
               PROVE  F[n] = IF n = 0 THEN Size ELSE (F[n - 1] + 1) \div 2
    OBVIOUS
  <2>1. CASE n = 0
    <3>1. UpTo(0, Ch(0))
      BY <1>1
    <3> QED
      BY <2>1, <3>1 DEF UpTo
  <2>2. CASE n # 0
    <3>1. UpTo(n, Ch(n)) /\ UpTo(n - 1, Ch(n - 1)) /\ n - 1 \in Nat
      BY <1>1, <2>2
    <3>2. Ch(n - 1)[n - 1] = Ch(n)[n - 1]
      BY <3>1, UpToUnique
    <3>3. Ch(n)[n] = (Ch(n)[n - 1] + 1) \div 2
      BY <3>1, <2>2 DEF UpTo
    <3> QED
      BY <3>1, <3>2, <3>3, <2>2
  <2> QED
    BY <2>1, <2>2
<1> HIDE DEF F
<1>3. F = [n \in Nat |-> IF n = 0 THEN Size ELSE (F[n - 1] + 1) \div 2]
  <2>1. F = [n \in Nat |-> F[n]]
    BY DEF F
  <2> QED
    BY <1>2, <2>1
<1>4. \E G : G = [n \in Nat |-> IF n = 0 THEN Size ELSE (G[n - 1] + 1) \div 2]
  BY <1>3
<1>5. Entrants = [n \in Nat |-> IF n = 0 THEN Size
                                ELSE (Entrants[n - 1] + 1) \div 2]
  BY <1>4, Zenon DEF Entrants
<1> QED
  BY <1>5

(* The shape of the tree: every row has an entrant, every row below the    *)
(* last is even, and each of its pairs enters the next row.                *)
LEMMA EntrantsType == \A l \in Nat : Entrants[l] \in Nat \ {0}
<1> DEFINE T == {l \in Nat : Entrants[l] \in Nat \ {0}}
<1>1. 0 \in T
  BY EntrantsDef
<1>2. ASSUME NEW l \in Nat, l \in T
      PROVE  l + 1 \in T
  BY <1>2, EntrantsDef
<1>3. Nat \subseteq T
  <2> HIDE DEF T
  <2> QED
    BY <1>1, <1>2, InductiveSet
<1> QED
  BY <1>3

LEMMA Shape ==
  /\ Entrants[0] = Size /\ Entrants[Depth] = 1 /\ Width(Depth) = 1
  /\ \A l \in 0 .. Depth : /\ Entrants[l] \in Nat /\ Entrants[l] >= 1
                           /\ Width(l) \in Nat /\ Entrants[l] <= Width(l)
  /\ \A l \in 0 .. Depth - 1 :
       /\ l + 1 \in 0 .. Depth /\ l \in 0 .. Depth
       /\ Width(l) = 2 * Entrants[l + 1]
       /\ Width(l) <= Entrants[l] + 1
<1>1. Entrants[0] = Size /\ Entrants[Depth] = 1 /\ Width(Depth) = 1
  BY EntrantsDef DEF Width
<1>2. ASSUME NEW l \in 0 .. Depth
      PROVE  /\ Entrants[l] \in Nat /\ Entrants[l] >= 1
             /\ Width(l) \in Nat /\ Entrants[l] <= Width(l)
  <2>1. Entrants[l] \in Nat \ {0}
    BY EntrantsType
  <2> QED
    BY <2>1 DEF Width
<1>3. ASSUME NEW l \in 0 .. Depth - 1
      PROVE  /\ l + 1 \in 0 .. Depth /\ l \in 0 .. Depth
             /\ Width(l) = 2 * Entrants[l + 1]
             /\ Width(l) <= Entrants[l] + 1
  <2>1. Entrants[l] \in Nat \ {0}
    BY EntrantsType
  <2>2. l + 1 \in Nat /\ l + 1 # 0 /\ (l + 1) - 1 = l /\ l # Depth
    OBVIOUS
  <2>3. Entrants[l + 1] = (Entrants[l] + 1) \div 2
    BY <2>2, EntrantsDef
  <2>4. Width(l) = Entrants[l] + (Entrants[l] % 2)
    BY <2>2 DEF Width
  <2> DEFINE n == Entrants[l]
             h == Entrants[l + 1]
  <2>5. n + (n % 2) = 2 * ((n + 1) \div 2) /\ n % 2 \in {0, 1}
    <3> HIDE DEF n
    <3>1. n \in Nat
      BY <2>1 DEF n
    <3>2. PICK k \in Nat : n = 2 * k \/ n = 2 * k + 1
      <4>1. /\ n \div 2 \in Nat
            /\ n = 2 * (n \div 2) \/ n = 2 * (n \div 2) + 1
        BY <3>1
      <4> QED
        BY <4>1
    <3> QED
      BY <3>1, <3>2
  <2>6. Width(l) = 2 * h /\ Width(l) <= n + 1
    BY <2>1, <2>3, <2>4, <2>5
  <2> QED
    BY <2>2, <2>6
<1> QED
  BY <1>1, <1>2, <1>3

(* Where a match of update() reads and writes: the rival is the other node *)
(* of the pair p \div 2, and that pair enters the row above.               *)
LEMMA PairOf ==
  ASSUME TypeOK, pc = "update"
  PROVE  /\ level \in 0 .. Depth - 1 /\ level + 1 \in 0 .. Depth
         /\ p \div 2 \in 0 .. Entrants[level + 1] - 1
         /\ p \div 2 \in 0 .. Width(level + 1) - 1
         /\ p \in 0 .. Width(level) - 1 /\ Rival \in 0 .. Width(level) - 1
         /\ \/ p = 2 * (p \div 2) /\ Rival = 2 * (p \div 2) + 1 /\ Lower = p
            \/ p = 2 * (p \div 2) + 1 /\ Rival = 2 * (p \div 2) /\ Lower = Rival
<1>1. /\ level \in 0 .. Depth - 1 /\ level + 1 \in 0 .. Depth
      /\ p \in Nat /\ p < Entrants[level]
  BY DEF TypeOK
<1>2. /\ Width(level) = 2 * Entrants[level + 1]
      /\ Entrants[level] <= Width(level) /\ Entrants[level] \in Nat
      /\ Entrants[level + 1] <= Width(level + 1)
      /\ Entrants[level + 1] \in Nat /\ Width(level + 1) \in Nat
  BY <1>1, Shape
<1>3. \/ p = 2 * (p \div 2) /\ p % 2 = 0
      \/ p = 2 * (p \div 2) + 1 /\ p % 2 = 1
  BY <1>1
<1>4. p \div 2 \in Nat
  BY <1>1
<1> DEFINE k == p \div 2
           e == Entrants[level + 1]
<1>5. /\ k \in 0 .. e - 1 /\ k \in 0 .. Width(level + 1) - 1
      /\ 2 * k \in 0 .. Width(level) - 1 /\ 2 * k + 1 \in 0 .. Width(level) - 1
  <2> HIDE DEF k, e
  <2>1. k \in Nat /\ e \in Nat /\ k < e
    BY <1>1, <1>2, <1>3, <1>4 DEF k, e
  <2> QED
    BY <2>1, <1>2 DEF e
<1>6. CASE p = 2 * k /\ p % 2 = 0
  <2>1. Rival = p + 1
    BY <1>6 DEF Rival
  <2> HIDE DEF k, e
  <2>2. Lower = p
    BY <2>1, <1>1 DEF Lower
  <2> QED
    BY <1>1, <1>5, <1>6, <2>1, <2>2 DEF k, e
<1>7. CASE p = 2 * k + 1 /\ p % 2 = 1
  <2>1. Rival = p - 1
    BY <1>7 DEF Rival
  <2> HIDE DEF k, e
  <2>2. Lower = Rival
    BY <2>1, <1>1 DEF Lower
  <2>3. Rival = 2 * k
    BY <2>1, <1>7, <1>5
  <2> QED
    BY <1>1, <1>5, <1>7, <2>3, <2>2 DEF k, e
<1> QED
  BY <1>3, <1>6, <1>7

(* What one match of update() changes. *)
LEMMA PromoteEffect ==
  ASSUME TypeOK, pc = "update", NEW w \in 0 .. Width(level) - 1, Promote(w)
  PROVE  /\ DOMAIN heap' = 0 .. Depth
         /\ \A l \in 0 .. Depth : l # level + 1 => heap'[l] = heap[l]
         /\ heap'[level + 1] \in [0 .. Width(level + 1) - 1 -> Node]
         /\ heap'[level + 1][p \div 2] = heap[level][w]
         /\ \A q \in 0 .. Width(level + 1) - 1 :
              q # p \div 2 => heap'[level + 1][q] = heap[level + 1][q]
         /\ level' = level + 1 /\ p' = p \div 2 /\ tn' = tn
         /\ pc' = IF level + 1 < Depth THEN "update" ELSE "idle"
<1>1. /\ level \in 0 .. Depth - 1 /\ level + 1 \in 0 .. Depth
      /\ p \div 2 \in 0 .. Width(level + 1) - 1
  BY PairOf
<1>2. /\ heap[level] \in [0 .. Width(level) - 1 -> Node]
      /\ heap[level + 1] \in [0 .. Width(level + 1) - 1 -> Node]
      /\ DOMAIN heap = 0 .. Depth
  BY <1>1 DEF TypeOK
<1>3. heap[level][w] \in Node
  BY <1>2
<1> QED
  BY <1>1, <1>2, <1>3 DEF Promote

LEMMA ReplayStep ==
  ASSUME TypeOK, Replay
  PROVE  pc = "update" /\ \/ \E w \in {p, Rival} : Promote(w)
                          \/ LosesAgain
  BY DEF Replay, Wins, Ties, LosesToNewWinner, LosesAgain, Lower

(* The types are kept: a row never changes its width and every pair of a   *)
(* row exists, so no call of create() or update() reads outside the tree.  *)
THEOREM TypeCorrect == Spec => []TypeOK
<1>1. Init => TypeOK
  BY DEF Init, TypeOK
<1>2. TypeOK /\ [Next]_vars => TypeOK'
  <2> SUFFICES ASSUME TypeOK, [Next]_vars
               PROVE  TypeOK'
    OBVIOUS
  <2>1. CASE CreateRow
    <3>1. level \in 0 .. Depth /\ pc = "create"
      BY <2>1 DEF TypeOK, CreateRow
    <3> DEFINE row == [q \in 0 .. Width(level) - 1 |->
          IF q >= Entrants[level] THEN PadNode
          ELSE IF level = 0 THEN [model |-> q, tn |-> tn[q]]
          ELSE CreateMatch(heap[level - 1][2 * q], heap[level - 1][2 * q + 1])]
    <3>2. row \in [0 .. Width(level) - 1 -> Node]
      <4> SUFFICES ASSUME NEW q \in 0 .. Width(level) - 1
                   PROVE  row[q] \in Node
        OBVIOUS
      <4>0. row[q] = IF q >= Entrants[level] THEN PadNode
                     ELSE IF level = 0 THEN [model |-> q, tn |-> tn[q]]
                     ELSE CreateMatch(heap[level - 1][2 * q],
                                      heap[level - 1][2 * q + 1])
        OBVIOUS
      <4> HIDE DEF row
      <4>1. CASE q >= Entrants[level]
        BY <4>0, <4>1 DEF Node, PadNode
      <4>2. CASE q < Entrants[level] /\ level = 0
        <5>1. q \in Children
          BY <4>2, Shape DEF Children
        <5>2. q \in Nat /\ tn[q] \in Times
          BY <5>1 DEF TypeOK, Children
        <5>3. row[q] = [model |-> q, tn |-> tn[q]]
          BY <4>0, <4>2, <3>1, Shape
        <5> QED
          BY <5>2, <5>3 DEF Node
      <4>3. CASE q < Entrants[level] /\ level # 0
        <5>1. level - 1 \in 0 .. Depth - 1 /\ (level - 1) + 1 = level
          BY <3>1, <4>3
        <5>2. 2 * q \in 0 .. Width(level - 1) - 1
              /\ 2 * q + 1 \in 0 .. Width(level - 1) - 1
          BY <5>1, <4>3, Shape
        <5>3. heap[level - 1] \in [0 .. Width(level - 1) - 1 -> Node]
          BY <5>1, <3>1 DEF TypeOK
        <5>4. heap[level - 1][2 * q] \in Node
              /\ heap[level - 1][2 * q + 1] \in Node
          BY <5>2, <5>3
        <5>5. row[q] = CreateMatch(heap[level - 1][2 * q],
                                   heap[level - 1][2 * q + 1])
          BY <4>0, <4>3, <3>1, Shape
        <5> QED
          BY <5>4, <5>5 DEF CreateMatch
      <4> QED
        BY <4>1, <4>2, <4>3, <3>1, Shape
    <3>3. heap' = [heap EXCEPT ![level] = row]
      BY <2>1 DEF CreateRow
    <3> HIDE DEF row
    <3> QED
      BY <2>1, <3>1, <3>2, <3>3 DEF TypeOK, CreateRow
  <2>2. ASSUME NEW c \in Children, ChildMoves(c)
        PROVE  TypeOK'
    BY <2>2 DEF TypeOK, ChildMoves
  <2>3. ASSUME NEW c \in Children, Update(c)
        PROVE  TypeOK'
    <3>1. 0 \in 0 .. Depth /\ heap[0] \in [0 .. Width(0) - 1 -> Node]
      BY <2>3 DEF TypeOK, Update
    <3>2. c \in 0 .. Width(0) - 1 /\ c \in Nat /\ c < Entrants[0]
      BY Shape DEF Children
    <3>3. heap'[0] \in [0 .. Width(0) - 1 -> Node]
      <4>1. heap' = [heap EXCEPT ![0] = [heap[0] EXCEPT ![c].tn = tn[c]]]
        BY <2>3 DEF Update
      <4>2. heap'[0] = [heap[0] EXCEPT ![c].tn = tn[c]]
        BY <3>1, <4>1 DEF TypeOK
      <4>3. [heap[0][c] EXCEPT !.tn = tn[c]] \in Node
        BY <3>1, <3>2 DEF TypeOK, Node
      <4> QED
        BY <3>1, <3>2, <4>2, <4>3
    <3> QED
      BY <3>1, <3>2, <3>3, <2>3 DEF TypeOK, Update
  <2>4. CASE Replay
    <3>1. CASE \E w \in {p, Rival} : Promote(w)
      <4>1. PICK w \in {p, Rival} : Promote(w)
        BY <3>1
      <4>2. pc = "update" /\ w \in 0 .. Width(level) - 1
        BY <2>4, ReplayStep, PairOf
      <4>3. /\ p \div 2 \in Nat /\ p \div 2 < Entrants[level + 1]
            /\ level + 1 \in 0 .. Depth
        BY <4>2, PairOf, Shape
      <4> QED
        BY <4>1, <4>2, <4>3, PromoteEffect DEF TypeOK
    <3>2. CASE LosesAgain
      BY <3>2 DEF TypeOK, LosesAgain
    <3> QED
      BY <2>4, <3>1, <3>2, ReplayStep
  <2>5. CASE UNCHANGED vars
    BY <2>5 DEF TypeOK, vars
  <2> QED
    BY <2>1, <2>2, <2>3, <2>4, <2>5 DEF Next
<1> QED
  BY <1>1, <1>2, PTL DEF Spec

LEMMA PadIsLast == \A v \in Times \cup {PadTime} : v \in Int /\ v <= PadTime
<1>1. ASSUME NEW v \in Times PROVE v \in Int /\ v <= PadTime
  <2>1. v \in Int /\ PadTime \in Int /\ v < PadTime
    OBVIOUS
  <2> QED
    BY <2>1
<1>2. PadTime \in Int /\ PadTime <= PadTime
  OBVIOUS
<1> QED
  BY <1>1, <1>2

-----------------------------------------------------------------------------
(* A row of winners.  In a row that is in order the winners of its matches *)
(* are in order too, padding never wins, and the two rules for ties, lower *)
(* model in create() and lower position in update(), pick the same node.   *)
LEMMA MatchOrder ==
  ASSUME NEW l \in 0 .. Depth - 1, NEW row, RowOK(l, row),
         NEW q \in 0 .. Entrants[l + 1] - 1
  PROVE  LET m == Match(row[2 * q], row[2 * q + 1]) IN
         /\ m \in Node /\ m.tn \in Times /\ m.model \in Children
         /\ CreateMatch(row[2 * q], row[2 * q + 1]) = m
         /\ \E s \in {2 * q, 2 * q + 1} : s \in 0 .. Entrants[l] - 1 /\ m = row[s]
<1> DEFINE a == row[2 * q]
           b == row[2 * q + 1]
<1>1. /\ Width(l) = 2 * Entrants[l + 1] /\ Width(l) <= Entrants[l] + 1
      /\ Entrants[l] \in Nat /\ Entrants[l + 1] \in Nat
  BY Shape
<1>2. /\ 2 * q \in 0 .. Entrants[l] - 1
      /\ 2 * q \in 0 .. Width(l) - 1 /\ 2 * q + 1 \in 0 .. Width(l) - 1
  BY <1>1
<1>3. a \in Node /\ b \in Node /\ a.tn \in Times /\ a.model \in Children
  BY <1>2 DEF RowOK
<1>4. CASE 2 * q + 1 < Entrants[l]
  <2>1. /\ 2 * q + 1 \in 0 .. Entrants[l] - 1
        /\ b.tn \in Times /\ b.model \in Children /\ a.model < b.model
    BY <1>1, <1>2, <1>4 DEF RowOK
  <2>2. a.tn \in Int /\ b.tn \in Int
    BY <1>3, <2>1
  <2> HIDE DEF a, b
  <2>3. CreateMatch(a, b) = Match(a, b) /\ Match(a, b) \in {a, b}
    BY <2>1, <2>2 DEF CreateMatch, Match
  <2> QED
    BY <1>2, <1>3, <2>1, <2>3 DEF a, b
<1>5. CASE 2 * q + 1 >= Entrants[l]
  <2>1. b = PadNode
    BY <1>1, <1>2, <1>5 DEF RowOK
  <2>2. a.tn < b.tn /\ a.tn \in Int /\ b.tn \in Int
    <3>1. b.tn = PadTime
      BY <2>1 DEF PadNode
    <3> HIDE DEF a, b
    <3> QED
      BY <1>3, <3>1
  <2> HIDE DEF a, b
  <2>3. CreateMatch(a, b) = a /\ Match(a, b) = a
    BY <2>2 DEF CreateMatch, Match
  <2> QED
    BY <1>2, <1>3, <2>3 DEF a, b
<1> QED
  BY <1>1, <1>4, <1>5

WonFrom(l, row, up) ==
  /\ up \in [0 .. Width(l + 1) - 1 -> Node]
  /\ \A q \in 0 .. Entrants[l + 1] - 1 : up[q] = Match(row[2 * q], row[2 * q + 1])
  /\ \A q \in Entrants[l + 1] .. Width(l + 1) - 1 : up[q] = PadNode

LEMMA WinnersRow ==
  ASSUME NEW l \in 0 .. Depth - 1, NEW row, RowOK(l, row), NEW up, WonFrom(l, row, up)
  PROVE  RowOK(l + 1, up)
<1> USE DEF WonFrom
<1>1. \A q \in 0 .. Entrants[l + 1] - 1 :
        /\ up[q].tn \in Times /\ up[q].model \in Children
        /\ \E s \in {2 * q, 2 * q + 1} : s \in 0 .. Entrants[l] - 1 /\ up[q] = row[s]
  BY MatchOrder
<1>2. ASSUME NEW q \in 0 .. Entrants[l + 1] - 1,
             NEW r \in 0 .. Entrants[l + 1] - 1, q < r
      PROVE  up[q].model < up[r].model
  <2>1. PICK s \in {2 * q, 2 * q + 1} : s \in 0 .. Entrants[l] - 1 /\ up[q] = row[s]
    BY <1>1
  <2>2. PICK v \in {2 * r, 2 * r + 1} : v \in 0 .. Entrants[l] - 1 /\ up[r] = row[v]
    BY <1>1
  <2>3. s < v
    BY <1>2, Shape
  <2> QED
    BY <2>1, <2>2, <2>3 DEF RowOK
<1> QED
  BY <1>1, <1>2 DEF RowOK

-----------------------------------------------------------------------------
(* A match: the node that update() promotes is the winner of the pair, and *)
(* when it stops the parent already was.                                   *)
LEMMA ReplayPlaysMatch ==
  ASSUME TypeOK, HeapInv, Replay
  PROVE  /\ pc = "update"
         /\ \/ \E w \in 0 .. Width(level) - 1 :
                 /\ Promote(w)
                 /\ heap[level][w] = Match(heap[level][2 * (p \div 2)],
                                           heap[level][2 * (p \div 2) + 1])
            \/ /\ LosesAgain
               /\ Parent = Match(heap[level][2 * (p \div 2)],
                                 heap[level][2 * (p \div 2) + 1])
<1> DEFINE k == p \div 2
<1>1. pc = "update"
  BY ReplayStep
<1>2. /\ level \in 0 .. Depth - 1 /\ k \in 0 .. Entrants[level + 1] - 1
      /\ p \in 0 .. Width(level) - 1 /\ Rival \in 0 .. Width(level) - 1
      /\ \/ p = 2 * k /\ Rival = 2 * k + 1 /\ Lower = p
         \/ p = 2 * k + 1 /\ Rival = 2 * k /\ Lower = Rival
  BY <1>1, PairOf
<1>3. RowOK(level, heap[level])
  BY <1>1, <1>2 DEF HeapInv, Rows, Built
<1>4. Mine.tn \in Int /\ Other.tn \in Int
  <2>1. Mine \in Node /\ Other \in Node
    BY <1>2, <1>3 DEF RowOK, Mine, Other
  <2> QED
    BY <2>1 DEF Node
<1> DEFINE m == Match(heap[level][2 * k], heap[level][2 * k + 1])
<1>5. \/ p = 2 * k /\ m = IF Mine.tn <= Other.tn THEN Mine ELSE Other
      \/ p = 2 * k + 1 /\ m = IF Other.tn <= Mine.tn THEN Other ELSE Mine
  BY <1>2 DEF Match, Mine, Other
<1> HIDE DEF k, m
<1>6. CASE Wins
  <2>1. m = heap[level][p]
    BY <1>4, <1>5, <1>6 DEF Wins, Mine
  <2> QED
    BY <1>1, <1>2, <1>6, <2>1 DEF Wins, k, m
<1>7. CASE Ties
  <2>1. m = heap[level][Lower]
    <3>1. Mine.tn <= Other.tn /\ Other.tn <= Mine.tn
      BY <1>4, <1>7 DEF Ties
    <3>2. (p = 2 * k /\ m = Mine) \/ (p = 2 * k + 1 /\ m = Other)
      BY <1>5, <3>1
    <3>3. k \in Nat
      BY <1>2, Shape
    <3> QED
      BY <1>2, <3>2, <3>3 DEF Mine, Other
  <2> QED
    BY <1>1, <1>2, <1>7, <2>1 DEF Ties, k, m
<1>8. CASE LosesToNewWinner
  <2>1. m = heap[level][Rival]
    BY <1>4, <1>5, <1>8 DEF LosesToNewWinner, Other
  <2> QED
    BY <1>1, <1>2, <1>8, <2>1 DEF LosesToNewWinner, k, m
<1>9. CASE LosesAgain
  <2>1. m = Other
    BY <1>4, <1>5, <1>9 DEF LosesAgain
  <2>2. Rival < Entrants[level]
    <3>1. CASE Rival >= Entrants[level]
      <4>1. Other = PadNode
        BY <1>2, <1>3, <3>1, Shape DEF RowOK, Other
      <4>2. Other.tn = PadTime
        BY <4>1 DEF PadNode
      <4>3. Mine.tn <= PadTime
        <5>1. Mine \in Node
          BY <1>2, <1>3 DEF RowOK, Mine
        <5>2. Mine.tn \in Times \cup {PadTime}
          BY <5>1 DEF Node
        <5> QED
          BY <5>2, PadIsLast
      <4> QED
        BY <1>4, <1>9, <4>2, <4>3 DEF LosesAgain
    <3> QED
      BY <1>2, <3>1, Shape
  <2>3. Parent = Other
    BY <1>9, <2>2 DEF LosesAgain, HeapInv, EarlyExit
  <2> QED
    BY <1>1, <1>9, <2>1, <2>3 DEF k, m
<1> QED
  BY <1>6, <1>7, <1>8, <1>9 DEF Replay

(* The row of a match and the row above it, once the match is played. *)
LEMMA PlayedRow ==
  ASSUME TypeOK, HeapInv, pc = "update",
         NEW w \in 0 .. Width(level) - 1, Promote(w),
         heap[level][w] = Match(heap[level][2 * (p \div 2)],
                                heap[level][2 * (p \div 2) + 1])
  PROVE  /\ RowOK(level + 1, heap'[level + 1])
         /\ \A q \in 0 .. Entrants[level + 1] - 1 :
              heap'[level + 1][q] = Match(heap'[level][2 * q], heap'[level][2 * q + 1])
<1>1. /\ level \in 0 .. Depth - 1 /\ level + 1 \in 0 .. Depth
      /\ p \div 2 \in 0 .. Width(level + 1) - 1
  BY PairOf
<1>2. RowOK(level, heap[level]) /\ RowOK(level + 1, heap[level + 1])
  BY <1>1 DEF HeapInv, Rows, Built
<1>3. heap'[level] = heap[level]
  <2>1. \A l \in 0 .. Depth : l # level + 1 => heap'[l] = heap[l]
    BY PromoteEffect
  <2>2. level \in 0 .. Depth /\ level # level + 1
    BY <1>1
  <2> QED
    BY <2>1, <2>2
<1>4. \A q \in 0 .. Entrants[level + 1] - 1 :
        heap'[level + 1][q] = Match(heap[level][2 * q], heap[level][2 * q + 1])
  <2> SUFFICES ASSUME NEW q \in 0 .. Entrants[level + 1] - 1
               PROVE  heap'[level + 1][q] = Match(heap[level][2 * q], heap[level][2 * q + 1])
    OBVIOUS
  <2>1. CASE q = p \div 2
    BY <2>1, PromoteEffect
  <2>2. CASE q # p \div 2
    <3>1. q \in 0 .. Width(level + 1) - 1
      BY <1>1, Shape
    <3>2. heap'[level + 1][q] = heap[level + 1][q]
      BY <2>2, <3>1, PromoteEffect
    <3> QED
      BY <1>1, <2>2, <3>2 DEF HeapInv, Matches, Built, Deciding
  <2> QED
    BY <2>1, <2>2
<1>5. \A q \in Entrants[level + 1] .. Width(level + 1) - 1 :
        heap'[level + 1][q] = PadNode
  <2>1. \A q \in Entrants[level + 1] .. Width(level + 1) - 1 :
          /\ q \in 0 .. Width(level + 1) - 1 /\ q # p \div 2
          /\ heap[level + 1][q] = PadNode
    <3>1. Entrants[level + 1] \in Nat /\ p \div 2 \in 0 .. Entrants[level + 1] - 1
          /\ Width(level + 1) \in Nat
      BY <1>1, Shape, PairOf
    <3>2. \A q \in Entrants[level + 1] .. Width(level + 1) - 1 :
            /\ q \in 0 .. Width(level + 1) - 1 /\ q # p \div 2
      BY <3>1
    <3> QED
      BY <1>2, <3>2 DEF RowOK
  <2> QED
    BY <2>1, PromoteEffect
<1>6. heap'[level + 1] \in [0 .. Width(level + 1) - 1 -> Node]
  BY PromoteEffect
<1>7. RowOK(level + 1, heap'[level + 1])
  <2>1. WonFrom(level, heap[level], heap'[level + 1])
    BY <1>4, <1>5, <1>6 DEF WonFrom
  <2> QED
    BY <1>1, <1>2, <2>1, WinnersRow, Zenon
<1> QED
  BY <1>3, <1>4, <1>7

-----------------------------------------------------------------------------
(* HeapInv holds always. *)
LEMMA InitHeapInv == Init => HeapInv
BY DEF Init, HeapInv, Rows, Leaves, Matches, EarlyExit, Built

LEMMA CreateRowKeeps ==
  ASSUME TypeOK, HeapInv, CreateRow
  PROVE  HeapInv'
<1>1. level \in 0 .. Depth /\ pc = "create" /\ pc' # "update"
  BY DEF TypeOK, CreateRow
<1> DEFINE row == [q \in 0 .. Width(level) - 1 |->
       IF q >= Entrants[level] THEN PadNode
       ELSE IF level = 0 THEN [model |-> q, tn |-> tn[q]]
       ELSE CreateMatch(heap[level - 1][2 * q], heap[level - 1][2 * q + 1])]
<1>2. /\ heap'[level] = row
      /\ \A l \in 0 .. Depth : l # level => heap'[l] = heap[l]
      /\ \A l \in 0 .. Depth : Built(l)' => l <= level
      /\ \A l \in 0 .. Depth : l < level => Built(l)
  BY <1>1 DEF TypeOK, CreateRow, Built
<1>3. CASE level = 0
  <2>1. \A q \in 0 .. Width(0) - 1 :
          row[q] = IF q >= Entrants[0] THEN PadNode ELSE [model |-> q, tn |-> tn[q]]
    BY <1>3
  <2>2. /\ Entrants[0] = Size /\ Entrants[0] \in Nat
        /\ Width(0) \in Nat /\ Entrants[0] <= Width(0)
    BY Shape
  <2>3. \A q \in 0 .. Entrants[0] - 1 :
          /\ q \in 0 .. Width(0) - 1 /\ q \in Nat /\ ~(q >= Entrants[0])
          /\ q \in Children /\ tn[q] \in Times
    BY <2>2 DEF TypeOK, Children
  <2>4. DOMAIN row = 0 .. Width(0) - 1 /\ row = [q \in DOMAIN row |-> row[q]]
    BY <1>3
  <2> HIDE DEF row
  <2>5. \A q \in 0 .. Entrants[0] - 1 : row[q] = [model |-> q, tn |-> tn[q]]
    BY <2>1, <2>3
  <2>6. \A q \in Entrants[0] .. Width(0) - 1 : row[q] = PadNode
    <3>1. \A q \in Entrants[0] .. Width(0) - 1 :
            q \in 0 .. Width(0) - 1 /\ q >= Entrants[0]
      BY <2>2
    <3> QED
      BY <2>1, <3>1
  <2>7. row \in [0 .. Width(0) - 1 -> Node]
    <3>1. ASSUME NEW q \in 0 .. Width(0) - 1
          PROVE  row[q] \in Node
      <4>1. CASE q \in 0 .. Entrants[0] - 1
        <5>1. q \in Nat /\ tn[q] \in Times
          BY <2>3, <4>1
        <5>2. row[q] = [model |-> q, tn |-> tn[q]]
          BY <2>5, <4>1
        <5> QED
          BY <5>1, <5>2 DEF Node
      <4>2. CASE q \in Entrants[0] .. Width(0) - 1
        BY <2>6, <4>2 DEF Node, PadNode
      <4> QED
        BY <2>2, <4>1, <4>2
    <3> QED
      BY <2>4, <3>1
  <2>8. RowOK(0, row)
    <3>1. ASSUME NEW q \in 0 .. Entrants[0] - 1
          PROVE  row[q].model = q /\ row[q].tn = tn[q]
      <4>1. row[q] = [model |-> q, tn |-> tn[q]]
        BY <2>5
      <4> QED
        BY <4>1
    <3>2. \A q, r \in 0 .. Entrants[0] - 1 : q < r => row[q].model < row[r].model
      BY <3>1
    <3>3. \A q \in 0 .. Entrants[0] - 1 : row[q].tn \in Times /\ row[q].model \in Children
      BY <2>3, <3>1
    <3> QED
      BY <2>6, <2>7, <3>2, <3>3 DEF RowOK
  <2>9. ASSUME NEW c \in Children
        PROVE  row[c].model = c
    <3>1. c \in 0 .. Entrants[0] - 1
      BY <2>2 DEF Children
    <3>2. row[c] = [model |-> c, tn |-> tn[c]]
      BY <2>5, <3>1
    <3> QED
      BY <3>2
  <2> QED
    BY <1>1, <1>2, <1>3, <2>8, <2>9
    DEF HeapInv, Rows, Leaves, Matches, EarlyExit
<1>4. CASE level # 0
  <2> DEFINE l == level - 1
  <2>1. l \in 0 .. Depth - 1 /\ l + 1 = level /\ l \in 0 .. Depth /\ Built(l)
    BY <1>1, <1>2, <1>4
  <2>2. RowOK(l, heap[l])
    BY <2>1 DEF HeapInv, Rows
  <2>3. \A q \in 0 .. Width(level) - 1 :
          row[q] = IF q >= Entrants[level] THEN PadNode
                   ELSE CreateMatch(heap[l][2 * q], heap[l][2 * q + 1])
    BY <1>4
  <2>4. Entrants[level] \in Nat /\ Width(level) \in Nat /\ Entrants[level] <= Width(level)
    BY <1>1, Shape
  <2>5. DOMAIN row = 0 .. Width(level) - 1 /\ row = [q \in DOMAIN row |-> row[q]]
    OBVIOUS
  <2> HIDE DEF row, l
  <2>6. \A q \in 0 .. Entrants[level] - 1 :
          /\ row[q] = Match(heap[l][2 * q], heap[l][2 * q + 1])
          /\ row[q] \in Node
    <3>1. \A q \in 0 .. Entrants[level] - 1 :
            q \in 0 .. Width(level) - 1 /\ ~(q >= Entrants[level])
      BY <2>4
    <3> QED
      BY <2>1, <2>2, <2>3, <3>1, MatchOrder
  <2>7. \A q \in Entrants[level] .. Width(level) - 1 : row[q] = PadNode
    BY <2>3, <2>4
  <2>8. row \in [0 .. Width(level) - 1 -> Node]
    <3>1. \A q \in 0 .. Width(level) - 1 : row[q] \in Node
      BY <2>4, <2>6, <2>7 DEF Node, PadNode
    <3> QED
      BY <2>5, <3>1
  <2>9. RowOK(level, row)
    <3>1. WonFrom(l, heap[l], row)
      BY <2>1, <2>6, <2>7, <2>8 DEF WonFrom
    <3>2. RowOK(l + 1, row)
      BY <2>1, <2>2, <3>1, WinnersRow, Zenon
    <3> QED
      BY <2>1, <3>2
  <2>10. Rows'
    BY <1>1, <1>2, <2>9 DEF HeapInv, Rows
  <2>11. Leaves'
    BY <1>1, <1>2, <1>4, <2>1 DEF HeapInv, Leaves
  <2>12. Matches'
    <3> SUFFICES ASSUME NEW j \in 0 .. Depth - 1,
                        NEW q \in 0 .. Entrants[j + 1] - 1, Built(j + 1)'
                 PROVE  heap'[j + 1][q] = Match(heap'[j][2 * q], heap'[j][2 * q + 1])
      BY DEF Matches
    <3>1. j \in 0 .. Depth /\ j + 1 \in 0 .. Depth /\ j # level /\ j + 1 <= level
      BY <1>1, <1>2
    <3>2. CASE j + 1 = level
      BY <1>2, <2>1, <2>6, <3>1, <3>2
    <3>3. CASE j + 1 # level
      <4>1. Built(j + 1) /\ heap'[j + 1] = heap[j + 1] /\ heap'[j] = heap[j]
        BY <1>1, <1>2, <3>1, <3>3
      <4> QED
        BY <1>1, <4>1 DEF HeapInv, Matches, Deciding
    <3> QED
      BY <3>2, <3>3
  <2> QED
    BY <1>1, <2>10, <2>11, <2>12 DEF HeapInv, EarlyExit
<1> QED
  BY <1>3, <1>4

LEMMA UpdateKeeps ==
  ASSUME TypeOK, HeapInv, NEW c \in Children, Update(c)
  PROVE  HeapInv'
<1>1. /\ pc = "idle" /\ \A l \in 0 .. Depth : Built(l) /\ Built(l)'
      /\ 0 \in 0 .. Depth /\ level' = 0 /\ p' = c
      /\ pc' = IF Depth > 0 THEN "update" ELSE "idle"
  BY DEF Update, Built
<1>2. RowOK(0, heap[0])
  BY <1>1 DEF HeapInv, Rows
<1>3. /\ c \in 0 .. Entrants[0] - 1 /\ c \in 0 .. Width(0) - 1 /\ c \in Nat
      /\ tn[c] \in Times
  BY Shape DEF TypeOK, Children
<1>4. /\ \A l \in 0 .. Depth : l # 0 => heap'[l] = heap[l]
      /\ heap'[0] = [heap[0] EXCEPT ![c].tn = tn[c]]
  BY <1>1 DEF TypeOK, Update
<1>5. /\ \A q \in 0 .. Width(0) - 1 : heap'[0][q].model = heap[0][q].model
      /\ \A q \in 0 .. Width(0) - 1 : q # c => heap'[0][q] = heap[0][q]
      /\ heap'[0][c].tn = tn[c]
      /\ heap'[0] \in [0 .. Width(0) - 1 -> Node]
  <2>1. heap[0] \in [0 .. Width(0) - 1 -> Node]
    BY <1>2 DEF RowOK
  <2> DEFINE n == [heap[0][c] EXCEPT !.tn = tn[c]]
  <2>2. heap[0][c] \in Node
    BY <1>3, <2>1
  <2>3. n \in Node /\ n.model = heap[0][c].model /\ n.tn = tn[c]
    BY <1>3, <2>2 DEF Node
  <2>4. heap'[0] = [heap[0] EXCEPT ![c] = n]
    BY <1>4
  <2> HIDE DEF n
  <2> QED
    BY <1>3, <2>1, <2>3, <2>4
<1>6. RowOK(0, heap'[0])
  <2>1. \A q \in 0 .. Entrants[0] - 1 : q \in 0 .. Width(0) - 1
    BY Shape
  <2>2. \A q \in Entrants[0] .. Width(0) - 1 : q \in 0 .. Width(0) - 1 /\ q # c
    BY <1>3, Shape
  <2> QED
    BY <1>2, <1>3, <1>5, <2>1, <2>2 DEF RowOK
<1>7. Rows'
  BY <1>1, <1>4, <1>6 DEF HeapInv, Rows
<1>8. Leaves'
  <2>1. \A d \in Children : d \in 0 .. Width(0) - 1
    BY Shape DEF Children
  <2> QED
    BY <1>1, <1>5, <2>1 DEF HeapInv, Leaves
<1>9. Matches'
  <2> SUFFICES ASSUME NEW l \in 0 .. Depth - 1, NEW q \in 0 .. Entrants[l + 1] - 1,
                      ~Deciding(l, q)'
               PROVE  heap'[l + 1][q] = Match(heap'[l][2 * q], heap'[l][2 * q + 1])
    BY DEF Matches
  <2>1. l \in 0 .. Depth /\ l + 1 \in 0 .. Depth /\ l + 1 # 0
        /\ Width(l) = 2 * Entrants[l + 1] /\ Entrants[l + 1] \in Nat
    BY Shape
  <2>2. heap[l + 1][q] = Match(heap[l][2 * q], heap[l][2 * q + 1])
    BY <1>1, <2>1 DEF HeapInv, Matches, Deciding
  <2>3. CASE l = 0
    <3>1. q # c \div 2
      BY <1>1, <2>3 DEF Deciding
    <3>2. /\ 2 * q # c /\ 2 * q + 1 # c /\ 2 * q \in 0 .. Width(0) - 1
          /\ 2 * q + 1 \in 0 .. Width(0) - 1
      BY <1>3, <2>1, <2>3, <3>1
    <3> QED
      BY <1>4, <1>5, <2>1, <2>2, <2>3, <3>2
  <2>4. CASE l # 0
    BY <1>4, <2>1, <2>2, <2>4
  <2> QED
    BY <2>3, <2>4
<1>10. EarlyExit'
  <2> SUFFICES ASSUME pc' = "update", Rival' < Entrants[0],
                      Other'.model = Parent'.model
               PROVE  Other' = Parent'
    BY <1>1 DEF EarlyExit
  <2>1. Depth > 0 /\ 0 \in 0 .. Depth - 1 /\ 1 \in 0 .. Depth
    BY <1>1
  <2> DEFINE k == c \div 2
  <2>2. /\ k \in Nat /\ k \in 0 .. Entrants[1] - 1
        /\ \/ c = 2 * k /\ Rival' = 2 * k + 1
           \/ c = 2 * k + 1 /\ Rival' = 2 * k
    <3>1. Width(0) = 2 * Entrants[1] /\ Entrants[1] \in Nat
      BY <2>1, Shape
    <3>2. Rival' = IF c % 2 = 0 THEN c + 1 ELSE c - 1
      BY <1>1 DEF Rival
    <3> HIDE DEF Rival
    <3> QED
      BY <1>3, <3>1, <3>2
  <2> HIDE DEF k
  <2>3. /\ Rival' \in 0 .. Entrants[0] - 1 /\ Rival' \in 0 .. Width(0) - 1
        /\ Rival' # c
    <3>1. /\ Entrants[0] \in Nat /\ Width(0) \in Nat /\ Entrants[0] <= Width(0)
          /\ Rival' < Entrants[0]
      BY <2>1, Shape
    <3>2. Rival' \in Nat /\ Rival' # c
      BY <2>2
    <3> QED
      BY <3>1, <3>2
  <2>4. Other' = heap[0][Rival'] /\ Parent' = heap[1][k]
    BY <1>1, <1>4, <1>5, <2>1, <2>3 DEF Other, Parent, k
  <2>5. heap[1][k] = Match(heap[0][2 * k], heap[0][2 * k + 1])
    <3>1. heap[0 + 1][k] = Match(heap[0][2 * k], heap[0][2 * k + 1])
      BY <1>1, <2>1, <2>2 DEF HeapInv, Matches, Deciding
    <3> QED
      BY <3>1
  <2>6. heap[1][k] \in {heap[0][c], heap[0][Rival']}
    BY <2>2, <2>5 DEF Match
  <2>7. heap[0][c].model # heap[0][Rival'].model
    <3>1. c < Rival' \/ Rival' < c
      BY <2>3, <1>3
    <3>2. heap[0][c].model \in Nat /\ heap[0][Rival'].model \in Nat
      BY <1>2, <1>3, <2>3 DEF RowOK, Children
    <3> QED
      BY <1>2, <1>3, <2>3, <3>1, <3>2 DEF RowOK
  <2> QED
    BY <2>4, <2>6, <2>7
<1> QED
  BY <1>7, <1>8, <1>9, <1>10 DEF HeapInv

LEMMA LosesAgainKeeps ==
  ASSUME TypeOK, HeapInv, LosesAgain,
         Parent = Match(heap[level][2 * (p \div 2)], heap[level][2 * (p \div 2) + 1])
  PROVE  HeapInv'
<1>1. /\ pc = "update" /\ pc' = "idle" /\ heap' = heap /\ level' = level
      /\ \A l \in 0 .. Depth : Built(l) /\ Built(l)'
  BY DEF LosesAgain, Built
<1>2. Rows' /\ Leaves' /\ EarlyExit'
  BY <1>1 DEF HeapInv, Rows, Leaves, EarlyExit, Built
<1>3. Matches'
  <2> SUFFICES ASSUME NEW l \in 0 .. Depth - 1, NEW q \in 0 .. Entrants[l + 1] - 1
               PROVE  heap[l + 1][q] = Match(heap[l][2 * q], heap[l][2 * q + 1])
    BY <1>1 DEF Matches
  <2>1. l + 1 \in 0 .. Depth
    OBVIOUS
  <2>2. CASE Deciding(l, q)
    BY <2>2 DEF Deciding, Parent
  <2>3. CASE ~Deciding(l, q)
    BY <1>1, <2>1, <2>3 DEF HeapInv, Matches
  <2> QED
    BY <2>2, <2>3
<1> QED
  BY <1>2, <1>3 DEF HeapInv

LEMMA PromoteKeeps ==
  ASSUME TypeOK, HeapInv, pc = "update",
         NEW w \in 0 .. Width(level) - 1, Promote(w),
         heap[level][w] = Match(heap[level][2 * (p \div 2)],
                                heap[level][2 * (p \div 2) + 1])
  PROVE  HeapInv'
<1> DEFINE k == p \div 2
<1>1. /\ level \in 0 .. Depth - 1 /\ level \in 0 .. Depth /\ level + 1 \in 0 .. Depth
      /\ level # level + 1 /\ level \in Nat /\ level + 1 # 0
      /\ k \in 0 .. Entrants[level + 1] - 1
      /\ k \in 0 .. Width(level + 1) - 1
  BY PairOf
<1>2. /\ \A l \in 0 .. Depth : l # level + 1 => heap'[l] = heap[l]
      /\ \A q \in 0 .. Width(level + 1) - 1 :
           q # k => heap'[level + 1][q] = heap[level + 1][q]
      /\ level' = level + 1 /\ p' = k
      /\ pc' = IF level + 1 < Depth THEN "update" ELSE "idle"
  BY PromoteEffect
<1>3. /\ RowOK(level + 1, heap'[level + 1])
      /\ \A q \in 0 .. Entrants[level + 1] - 1 :
           heap'[level + 1][q] = Match(heap'[level][2 * q], heap'[level][2 * q + 1])
  BY PlayedRow
<1>4. \A l \in 0 .. Depth : Built(l) /\ Built(l)'
  BY <1>2 DEF Built
<1> HIDE DEF k
<1>5. Rows'
  <2> SUFFICES ASSUME NEW l \in 0 .. Depth
               PROVE  RowOK(l, heap'[l])
    BY DEF Rows
  <2>1. CASE l = level + 1
    BY <1>3, <2>1
  <2>2. CASE l # level + 1
    BY <1>2, <1>4, <2>2 DEF HeapInv, Rows
  <2> QED
    BY <2>1, <2>2
<1>6. Leaves'
  <2>1. 0 \in 0 .. Depth /\ 0 # level + 1
    BY <1>1
  <2> QED
    BY <1>2, <1>4, <2>1 DEF HeapInv, Leaves
<1>7. Matches'
  <2> SUFFICES ASSUME NEW l \in 0 .. Depth - 1, NEW q \in 0 .. Entrants[l + 1] - 1,
                      ~Deciding(l, q)'
               PROVE  heap'[l + 1][q] = Match(heap'[l][2 * q], heap'[l][2 * q + 1])
    BY DEF Matches
  <2>1. l \in 0 .. Depth /\ l + 1 \in 0 .. Depth
    OBVIOUS
  <2>2. CASE l = level
    BY <1>3, <2>2
  <2>3. CASE l # level
    <3>1. l + 1 # level + 1
      BY <1>1, <2>3
    <3>2. heap'[l + 1] = heap[l + 1]
      BY <1>2, <2>1, <3>1
    <3>3. heap[l + 1][q] = Match(heap[l][2 * q], heap[l][2 * q + 1])
      BY <1>4, <2>1, <2>3 DEF HeapInv, Matches, Deciding
    <3>4. CASE l # level + 1
      BY <1>2, <2>1, <3>2, <3>3, <3>4
    <3>5. CASE l = level + 1
      <4>1. pc' = "update"
        BY <1>1, <1>2, <3>5
      <4>2. q # k \div 2
        BY <1>2, <3>5, <4>1 DEF Deciding
      <4>3. /\ 2 * q # k /\ 2 * q + 1 # k
            /\ 2 * q \in 0 .. Width(level + 1) - 1
            /\ 2 * q + 1 \in 0 .. Width(level + 1) - 1
        <5>1. Width(level + 1) = 2 * Entrants[l + 1] /\ Entrants[l + 1] \in Nat
          BY <3>5, Shape
        <5>2. k \in Nat
          BY <1>1
        <5> QED
          BY <4>2, <5>1, <5>2
      <4> QED
        BY <1>2, <3>2, <3>3, <3>5, <4>3
    <3> QED
      BY <3>4, <3>5
  <2> QED
    BY <2>2, <2>3
<1>8. EarlyExit'
  <2> SUFFICES ASSUME pc' = "update", Rival' < Entrants[level + 1],
                      Other'.model = Parent'.model
               PROVE  Other' = Parent'
    BY <1>2 DEF EarlyExit
  <2> DEFINE j == k \div 2
             row == heap[level + 1]
  <2>1. /\ level + 1 \in 0 .. Depth - 1 /\ level + 2 \in 0 .. Depth
        /\ level + 2 # level + 1 /\ (level + 1) + 1 = level + 2 /\ level + 1 # level
    BY <1>1, <1>2
  <2>2. /\ Entrants[level + 1] \in Nat /\ Entrants[level + 2] \in Nat
        /\ Width(level + 1) = 2 * Entrants[level + 2]
        /\ Entrants[level + 1] <= Width(level + 1)
    <3>1. /\ Width(level + 1) = 2 * Entrants[(level + 1) + 1]
          /\ Entrants[(level + 1) + 1] \in Nat
          /\ Entrants[level + 1] \in Nat
          /\ Entrants[level + 1] <= Width(level + 1)
      BY <2>1, Shape
    <3> QED
      BY <2>1, <3>1
  <2>3. /\ j \in Nat /\ j \in 0 .. Entrants[level + 2] - 1 /\ k \in Nat
        /\ \/ k = 2 * j /\ Rival' = 2 * j + 1
           \/ k = 2 * j + 1 /\ Rival' = 2 * j
    <3>1. Rival' = IF k % 2 = 0 THEN k + 1 ELSE k - 1
      BY <1>2 DEF Rival
    <3> HIDE DEF Rival
    <3> QED
      BY <1>1, <2>2, <3>1
  <2>4. /\ Rival' \in 0 .. Entrants[level + 1] - 1
        /\ Rival' \in 0 .. Width(level + 1) - 1 /\ Rival' # k
    <3>1. Rival' \in Nat /\ Rival' # k
      BY <2>3
    <3> QED
      BY <2>2, <3>1
  <2>5. Other' = row[Rival'] /\ Parent' = heap[level + 2][j]
    <3>1. heap'[level + 2] = heap[level + 2]
      BY <1>2, <2>1
    <3>2. heap'[level + 1][Rival'] = row[Rival']
      BY <1>2, <2>4
    <3> QED
      BY <1>2, <2>1, <3>1, <3>2 DEF Other, Parent
  <2>6. heap[level + 2][j] = Match(row[2 * j], row[2 * j + 1])
    <3>1. heap[(level + 1) + 1][j] = Match(row[2 * j], row[2 * j + 1])
      BY <1>4, <2>1, <2>3 DEF HeapInv, Matches, Deciding
    <3> QED
      BY <2>1, <3>1
  <2> HIDE DEF j, row
  <2>7. heap[level + 2][j] \in {row[k], row[Rival']}
    BY <2>3, <2>6 DEF Match
  <2>8. row[k].model # row[Rival'].model
    <3>1. RowOK(level + 1, row)
      BY <1>1, <1>4 DEF HeapInv, Rows, row
    <3>2. k < Rival' \/ Rival' < k
      BY <2>3, <2>4
    <3>3. row[k].model \in Nat /\ row[Rival'].model \in Nat
      BY <1>1, <2>4, <3>1 DEF RowOK, Children
    <3> QED
      BY <1>1, <2>4, <3>1, <3>2, <3>3 DEF RowOK
  <2> QED
    BY <2>5, <2>7, <2>8
<1> QED
  BY <1>5, <1>6, <1>7, <1>8 DEF HeapInv

LEMMA HeapInvStep == TypeOK /\ HeapInv /\ [Next]_vars => HeapInv'
<1> SUFFICES ASSUME TypeOK, HeapInv, [Next]_vars
             PROVE  HeapInv'
  OBVIOUS
<1>1. CASE CreateRow
  BY <1>1, CreateRowKeeps
<1>2. ASSUME NEW c \in Children, ChildMoves(c)
      PROVE  HeapInv'
  BY <1>2 DEF ChildMoves, HeapInv, Rows, Leaves, Matches, EarlyExit, Built, Deciding,
              Rival, Other, Parent
<1>3. ASSUME NEW c \in Children, Update(c)
      PROVE  HeapInv'
  BY <1>3, UpdateKeeps
<1>4. CASE Replay
  BY <1>4, ReplayPlaysMatch, PromoteKeeps, LosesAgainKeeps
<1>5. CASE UNCHANGED vars
  BY <1>5 DEF vars, HeapInv, Rows, Leaves, Matches, EarlyExit, Built, Deciding,
              Rival, Other, Parent
<1> QED
  BY <1>1, <1>2, <1>3, <1>4, <1>5 DEF Next

(* The invariant of the tournament: outside the match under way every node *)
(* repeats the winner of its pair.                                         *)
THEOREM HeapInvariant == Spec => []HeapInv
<1>1. Init => HeapInv
  BY InitHeapInv
<1>2. TypeOK /\ HeapInv /\ [Next]_vars => HeapInv'
  BY HeapInvStep
<1> QED
  BY <1>1, <1>2, TypeCorrect, PTL DEF Spec

-----------------------------------------------------------------------------
(* The answer of next().  Every child is preceded by a node of every row,  *)
(* and every node is the leaf of its model; the last row has one node.     *)
Beats(n, c) == n.tn < heap[0][c].tn \/ (n.tn = heap[0][c].tn /\ n.model <= c)

Climbed(l) ==
  /\ \A c \in Children : \E q \in 0 .. Entrants[l] - 1 : Beats(heap[l][q], c)
  /\ \A q \in 0 .. Entrants[l] - 1 : heap[l][q] = heap[0][heap[l][q].model]

(* The winner of a match beats whatever its contenders beat. *)
LEMMA WinnerBeats ==
  ASSUME NEW l \in 0 .. Depth - 1, RowOK(0, heap[0]), RowOK(l, heap[l]),
         NEW q \in 0 .. Entrants[l] - 1, NEW c \in Children,
         Beats(heap[l][q], c)
  PROVE  /\ q \div 2 \in 0 .. Entrants[l + 1] - 1
         /\ Beats(Match(heap[l][2 * (q \div 2)], heap[l][2 * (q \div 2) + 1]), c)
<1> DEFINE k == q \div 2
           a == heap[l][2 * k]
           b == heap[l][2 * k + 1]
           t == heap[0][c].tn
<1>1. /\ Width(l) = 2 * Entrants[l + 1] /\ Entrants[l] <= Width(l)
      /\ Entrants[l] \in Nat /\ Entrants[l + 1] \in Nat
  BY Shape
<1>2. k \in Nat /\ (q = 2 * k \/ q = 2 * k + 1) /\ k \in 0 .. Entrants[l + 1] - 1
  BY <1>1
<1>3. t \in Int
  <2>1. c \in 0 .. Entrants[0] - 1
    BY Shape DEF Children
  <2>2. t \in Times
    BY <2>1 DEF RowOK
  <2> QED
    BY <2>2
<1> HIDE DEF k
<1>4. 2 * k \in 0 .. Width(l) - 1 /\ 2 * k + 1 \in 0 .. Width(l) - 1
  BY <1>1, <1>2
<1>5. a.tn \in Int /\ b.tn \in Int /\ a.model \in Int /\ b.model \in Int
  <2>1. a \in Node /\ b \in Node
    BY <1>4 DEF RowOK
  <2> HIDE DEF a, b
  <2>2. /\ a.tn \in Times \cup {PadTime} /\ b.tn \in Times \cup {PadTime}
        /\ a.model \in Nat /\ b.model \in Nat
    BY <2>1 DEF Node
  <2>3. a.tn \in Int /\ b.tn \in Int
    BY <2>2, PadIsLast, Zenon
  <2>4. a.model \in Int /\ b.model \in Int
    BY <2>2
  <2> QED
    BY <2>3, <2>4
<1>6. CASE q = 2 * k
  <2>1. heap[l][q] = a
    BY <1>6
  <2> HIDE DEF a, b, t
  <2>2. a.tn < t \/ (a.tn = t /\ a.model <= c)
    BY <2>1 DEF Beats, t
  <2>3. Match(a, b) = a \/ (Match(a, b) = b /\ b.tn < a.tn)
    BY <1>5 DEF Match
  <2>4. c \in Int
    BY DEF Children
  <2>5. CASE Match(a, b) = a
    BY <2>2, <2>5, <1>2 DEF Beats, t, k, a, b
  <2>6. CASE Match(a, b) = b /\ b.tn < a.tn
    <3>1. b.tn < t
      BY <1>3, <1>5, <2>2, <2>6
    <3> QED
      BY <3>1, <2>6, <1>2 DEF Beats, t, k, a, b
  <2> QED
    BY <2>3, <2>5, <2>6
<1>7. CASE q = 2 * k + 1
  <2>1. heap[l][q] = b
    BY <1>7
  <2>2. a.model < b.model
    <3>1. /\ 2 * k \in 0 .. Entrants[l] - 1 /\ 2 * k + 1 \in 0 .. Entrants[l] - 1
          /\ 2 * k < 2 * k + 1
      BY <1>1, <1>2, <1>7
    <3> QED
      BY <3>1 DEF RowOK
  <2> HIDE DEF a, b, t
  <2>3. b.tn < t \/ (b.tn = t /\ b.model <= c)
    BY <2>1 DEF Beats, t
  <2>4. (Match(a, b) = a /\ a.tn <= b.tn) \/ Match(a, b) = b
    BY <1>5 DEF Match
  <2>5. c \in Int
    BY DEF Children
  <2>6. CASE Match(a, b) = a /\ a.tn <= b.tn
    <3>1. a.tn < t \/ (a.tn = t /\ a.model <= c)
      BY <1>3, <1>5, <2>2, <2>3, <2>5, <2>6
    <3> QED
      BY <3>1, <2>6, <1>2 DEF Beats, t, k, a, b
  <2>7. CASE Match(a, b) = b
    BY <2>3, <2>7, <1>2 DEF Beats, t, k, a, b
  <2> QED
    BY <2>4, <2>6, <2>7
<1> QED
  BY <1>2, <1>6, <1>7

LEMMA AllRowsClimbed ==
  ASSUME TypeOK, HeapInv, pc = "idle"
  PROVE  \A l \in 0 .. Depth : Climbed(l)
<1>1. /\ \A l \in 0 .. Depth : RowOK(l, heap[l])
      /\ \A c \in Children : heap[0][c].model = c
      /\ \A l \in 0 .. Depth - 1 : \A q \in 0 .. Entrants[l + 1] - 1 :
           heap[l + 1][q] = Match(heap[l][2 * q], heap[l][2 * q + 1])
  BY DEF HeapInv, Rows, Leaves, Matches, Built, Deciding
<1>2. 0 \in 0 .. Depth
  OBVIOUS
<1> DEFINE T == {l \in Nat : l <= Depth => Climbed(l)}
<1>3. 0 \in T
  <2>1. 0 .. Entrants[0] - 1 = Children
    BY Shape DEF Children
  <2>2. \A c \in Children : c <= c
    BY DEF Children
  <2> QED
    BY <1>1, <2>1, <2>2 DEF Climbed, Beats
<1>4. ASSUME NEW l \in Nat, l \in T
      PROVE  l + 1 \in T
  <2> SUFFICES ASSUME l + 1 <= Depth
               PROVE  Climbed(l + 1)
    OBVIOUS
  <2>1. l \in 0 .. Depth - 1 /\ l \in 0 .. Depth /\ Climbed(l)
    BY <1>4
  <2> HIDE DEF T
  <2>2. RowOK(0, heap[0]) /\ RowOK(l, heap[l])
    BY <1>1, <1>2, <2>1
  <2>3. ASSUME NEW c \in Children
        PROVE  \E q \in 0 .. Entrants[l + 1] - 1 : Beats(heap[l + 1][q], c)
    <3>1. PICK q \in 0 .. Entrants[l] - 1 : Beats(heap[l][q], c)
      BY <2>1 DEF Climbed
    <3>2. /\ q \div 2 \in 0 .. Entrants[l + 1] - 1
          /\ Beats(Match(heap[l][2 * (q \div 2)], heap[l][2 * (q \div 2) + 1]), c)
      BY <2>1, <2>2, <3>1, WinnerBeats
    <3> QED
      BY <1>1, <2>1, <3>2
  <2>4. ASSUME NEW q \in 0 .. Entrants[l + 1] - 1
        PROVE  heap[l + 1][q] = heap[0][heap[l + 1][q].model]
    <3>1. heap[l + 1][q] = Match(heap[l][2 * q], heap[l][2 * q + 1])
      BY <1>1, <2>1
    <3>2. PICK s \in {2 * q, 2 * q + 1} :
            s \in 0 .. Entrants[l] - 1 /\ heap[l + 1][q] = heap[l][s]
      BY <2>1, <2>2, <3>1, MatchOrder
    <3> QED
      BY <2>1, <3>2 DEF Climbed
  <2> QED
    BY <2>3, <2>4 DEF Climbed
<1>5. Nat \subseteq T
  <2> HIDE DEF T
  <2> QED
    BY <1>3, <1>4, InductiveSet
<1> QED
  BY <1>5

LEMMA InvNextIsFirst == TypeOK /\ HeapInv => NextIsFirst
<1> SUFFICES ASSUME TypeOK, HeapInv, pc = "idle", NEW d \in Children
             PROVE  /\ next \in Children
                    /\ \/ heap[0][next].tn < heap[0][d].tn
                       \/ heap[0][next].tn = heap[0][d].tn /\ next <= d
  BY DEF NextIsFirst
<1>1. Climbed(Depth) /\ Entrants[Depth] = 1
  BY AllRowsClimbed, Shape
<1>2. 0 .. Entrants[Depth] - 1 = {0}
  BY <1>1
<1>3. Beats(heap[Depth][0], d) /\ heap[Depth][0] = heap[0][next]
  BY <1>1, <1>2 DEF Climbed, next
<1>4. next \in Children
  <2>1. RowOK(Depth, heap[Depth])
    BY DEF HeapInv, Rows, Built
  <2> QED
    BY <1>2, <2>1 DEF RowOK, next
<1> QED
  BY <1>3, <1>4 DEF Beats, next

(* next() names the child with the smallest recorded time, the first one   *)
(* on a tie, for every number of children.                                 *)
THEOREM NextIsFirstAlways == Spec => []NextIsFirst
BY HeapInvariant, TypeCorrect, InvNextIsFirst, PTL

-----------------------------------------------------------------------------
(* The heap implements MinChild. *)
LEMMA FirstExists ==
  ASSUME NEW k, \A c \in Children : k[c] \in Int
  PROVE  \E c \in Children : \A d \in Children :
           k[c] < k[d] \/ (k[c] = k[d] /\ c <= d)
<1> DEFINE T == {n \in Nat : n < Size =>
                   \E c \in 0 .. n : \A d \in 0 .. n :
                     k[c] < k[d] \/ (k[c] = k[d] /\ c <= d)}
<1>1. 0 \in T
  OBVIOUS
<1>2. ASSUME NEW n \in Nat, n \in T
      PROVE  n + 1 \in T
  <2> SUFFICES ASSUME n + 1 < Size
               PROVE  \E c \in 0 .. n + 1 : \A d \in 0 .. n + 1 :
                        k[c] < k[d] \/ (k[c] = k[d] /\ c <= d)
    OBVIOUS
  <2>1. PICK c \in 0 .. n : \A d \in 0 .. n : k[c] < k[d] \/ (k[c] = k[d] /\ c <= d)
    BY <1>2
  <2>2. \A d \in 0 .. n + 1 : k[d] \in Int /\ (d \in 0 .. n \/ d = n + 1)
    BY DEF Children
  <2> HIDE DEF T
  <2>3. CASE k[c] <= k[n + 1]
    BY <2>1, <2>2, <2>3
  <2>4. CASE ~(k[c] <= k[n + 1])
    <3>1. k[n + 1] \in Int /\ k[c] \in Int /\ k[n + 1] < k[c]
      BY <2>2, <2>4
    <3>2. \A d \in 0 .. n : k[n + 1] < k[d]
      BY <2>1, <2>2, <3>1
    <3> QED
      BY <2>2, <3>1, <3>2
  <2> QED
    BY <2>3, <2>4
<1>3. Nat \subseteq T
  <2> HIDE DEF T
  <2> QED
    BY <1>1, <1>2, InductiveSet
<1>4. Size - 1 \in T /\ Size - 1 < Size
  BY <1>3
<1> QED
  BY <1>4 DEF Children

LEMMA FirstUnique ==
  ASSUME NEW k, \A c \in Children : k[c] \in Int,
         NEW e \in Children,
         \A d \in Children : k[e] < k[d] \/ (k[e] = k[d] /\ e <= d)
  PROVE  First(k) = e
<1> DEFINE P(c) == \A d \in Children : k[c] < k[d] \/ (k[c] = k[d] /\ c <= d)
<1>1. \E c \in Children : P(c)
  OBVIOUS
<1>2. First(k) \in Children /\ P(First(k))
  BY <1>1, Zenon DEF First
<1>3. /\ k[First(k)] \in Int /\ k[e] \in Int
      /\ k[First(k)] < k[e] \/ (k[First(k)] = k[e] /\ First(k) <= e)
      /\ k[e] < k[First(k)] \/ (k[e] = k[First(k)] /\ e <= First(k))
  BY <1>2
<1>4. First(k) \in Int /\ e \in Int
  BY <1>2 DEF Children
<1> QED
  BY <1>3, <1>4

(* While create() is running the leaves it has built hold the times. *)
LeavesRecorded ==
  (pc = "create" /\ level > 0) => \A c \in Children : heap[0][c].tn = tn[c]

LEMMA LeavesRecordedStep ==
  TypeOK /\ HeapInv /\ LeavesRecorded /\ [Next]_vars => LeavesRecorded'
<1> SUFFICES ASSUME TypeOK, LeavesRecorded, [Next]_vars, pc' = "create", level' > 0,
                    NEW c \in Children
             PROVE  heap'[0][c].tn = tn'[c]
  BY DEF LeavesRecorded
<1>1. CASE CreateRow
  <2>1. level \in 0 .. Depth /\ 0 \in 0 .. Depth /\ tn' = tn /\ pc = "create"
    BY <1>1 DEF TypeOK, CreateRow
  <2>2. CASE level = 0
    <3>1. c \in 0 .. Width(0) - 1 /\ ~(c >= Entrants[0])
      BY Shape DEF Children
    <3>2. heap'[0][c] = [model |-> c, tn |-> tn[c]]
      BY <1>1, <2>1, <2>2, <3>1 DEF CreateRow, TypeOK
    <3> QED
      BY <2>1, <3>2
  <2>3. CASE level # 0
    <3>1. heap'[0] = heap[0]
      BY <1>1, <2>1, <2>3 DEF CreateRow, TypeOK
    <3> QED
      BY <2>1, <2>3, <3>1 DEF LeavesRecorded
  <2> QED
    BY <2>2, <2>3
<1>2. CASE UNCHANGED vars
  BY <1>2 DEF vars, LeavesRecorded
<1>3. CASE \/ \E d \in Children : ChildMoves(d) \/ Update(d)
           \/ Replay
  <2>1. pc' # "create"
    <3>1. CASE Replay
      BY <3>1, ReplayStep DEF Promote, LosesAgain
    <3>2. CASE \E d \in Children : ChildMoves(d) \/ Update(d)
      BY <3>2 DEF ChildMoves, Update
    <3> QED
      BY <1>3, <3>1, <3>2
  <2> QED
    BY <2>1
<1> QED
  BY <1>1, <1>2, <1>3 DEF Next

(* The values that the mapping gives to the variables of MinChild. *)
KeyMap  == [c \in Children |-> IF pc = "create" THEN tn[c] ELSE heap[0][c].tn]
NextMap == IF pc = "create" THEN First(tn) ELSE next
BusyMap == pc = "update"

IsFirstOf(k, e) == \A d \in Children : k[e] < k[d] \/ (k[e] = k[d] /\ e <= d)

MappedFirst ==
  pc # "update" => NextMap \in Children /\ IsFirstOf(KeyMap, NextMap)

LEMMA InvMappedFirst == TypeOK /\ HeapInv => MappedFirst
<1> SUFFICES ASSUME TypeOK, HeapInv, pc # "update"
             PROVE  NextMap \in Children /\ IsFirstOf(KeyMap, NextMap)
  BY DEF MappedFirst
<1>1. CASE pc = "create"
  <2>1. KeyMap = tn
    BY <1>1 DEF KeyMap, TypeOK
  <2>2. \A c \in Children : tn[c] \in Int
    BY DEF TypeOK
  <2>3. PICK e \in Children : IsFirstOf(tn, e)
    BY <2>2, FirstExists DEF IsFirstOf
  <2>4. First(tn) = e
    BY <2>2, <2>3, FirstUnique DEF IsFirstOf
  <2> QED
    BY <1>1, <2>1, <2>3, <2>4 DEF NextMap
<1>2. CASE pc = "idle"
  <2>1. NextMap = next /\ \A d \in Children : KeyMap[d] = heap[0][d].tn
    BY <1>2 DEF NextMap, KeyMap
  <2>2. NextIsFirst
    BY InvNextIsFirst
  <2>3. next \in Children
    <3>1. 0 \in Children
      BY DEF Children
    <3> QED
      BY <1>2, <2>2, <3>1 DEF NextIsFirst
  <2> QED
    BY <1>2, <2>1, <2>2, <2>3 DEF NextIsFirst, IsFirstOf
<1> QED
  BY <1>1, <1>2 DEF TypeOK

LEMMA CreateIsStutter ==
  ASSUME TypeOK, HeapInv, LeavesRecorded, MappedFirst, MappedFirst', CreateRow
  PROVE  UNCHANGED <<tn, KeyMap, NextMap, BusyMap>>
<1>1. /\ pc = "create" /\ pc' \in {"create", "idle"} /\ tn' = tn
      /\ level \in 0 .. Depth /\ 0 \in 0 .. Depth
  BY DEF TypeOK, CreateRow
<1>2. ASSUME NEW c \in Children, pc' = "idle"
      PROVE  heap'[0][c].tn = tn[c]
  <2>1. CASE level = 0
    <3>1. c \in 0 .. Width(0) - 1 /\ ~(c >= Entrants[0])
      BY Shape DEF Children
    <3>2. heap'[0][c] = [model |-> c, tn |-> tn[c]]
      BY <1>1, <2>1, <3>1 DEF CreateRow, TypeOK
    <3> QED
      BY <3>2
  <2>2. CASE level # 0
    <3>1. heap'[0] = heap[0]
      BY <1>1, <2>2 DEF CreateRow, TypeOK
    <3> QED
      BY <1>1, <2>2, <3>1 DEF LeavesRecorded
  <2> QED
    BY <2>1, <2>2
<1>3. KeyMap = tn /\ KeyMap' = tn
  BY <1>1, <1>2 DEF KeyMap, TypeOK
<1>4. \A c \in Children : tn[c] \in Int
  BY DEF TypeOK
<1>5. First(tn) = NextMap /\ First(tn) = NextMap'
  BY <1>1, <1>3, <1>4, FirstUnique DEF MappedFirst, IsFirstOf
<1> QED
  BY <1>1, <1>3, <1>5 DEF BusyMap

LEMMA MappedStep ==
  ASSUME TypeOK, HeapInv, LeavesRecorded, MappedFirst, TypeOK', MappedFirst',
         [Next]_vars
  PROVE  [Abstract!MinNext]_(Abstract!minVars)
<1> USE DEF Abstract!minVars, Abstract!Children
<1>1. CASE CreateRow
  <2>1. UNCHANGED <<tn, KeyMap, NextMap, BusyMap>>
    BY <1>1, CreateIsStutter
  <2> QED
    BY <2>1 DEF KeyMap, NextMap, BusyMap, Children
<1>2. ASSUME NEW c \in Children, ChildMoves(c)
      PROVE  Abstract!MinNext
  <2>1. /\ pc = "idle" /\ UNCHANGED <<KeyMap, NextMap, BusyMap>>
        /\ \E v \in Times : tn' = [tn EXCEPT ![c] = v]
    BY <1>2 DEF ChildMoves, KeyMap, NextMap, BusyMap, next
  <2>2. Abstract!ChildMoves(c)
    BY <2>1 DEF Abstract!ChildMoves, KeyMap, NextMap, BusyMap, Children
  <2> QED
    BY <2>2 DEF Abstract!MinNext, Children
<1>3. ASSUME NEW c \in Children, Update(c)
      PROVE  Abstract!MinNext
  <2>1. /\ pc = "idle" /\ tn' = tn /\ pc' \in {"idle", "update"}
        /\ heap' = [heap EXCEPT ![0][c].tn = tn[c]]
        /\ (pc' = "update") <=> Depth > 0
    BY <1>3 DEF Update
  <2>2. KeyMap' = [KeyMap EXCEPT ![c] = tn[c]]
    <3>1. 0 \in 0 .. Depth /\ heap[0] \in [0 .. Width(0) - 1 -> Node]
      BY <2>1 DEF TypeOK
    <3>2. \A d \in Children : d \in 0 .. Width(0) - 1
      BY Shape DEF Children
    <3>3. /\ heap'[0] = [heap[0] EXCEPT ![c].tn = tn[c]]
          /\ \A d \in Children : heap[0][d] \in Node
      BY <2>1, <3>1, <3>2 DEF TypeOK
    <3>4. \A d \in Children : heap'[0][d].tn = IF d = c THEN tn[c] ELSE heap[0][d].tn
      BY <3>1, <3>2, <3>3 DEF Node
    <3> QED
      BY <2>1, <3>4 DEF KeyMap
  <2>3. CASE Depth > 0
    <3>1. heap'[Depth] = heap[Depth]
      BY <2>1, <2>3 DEF TypeOK
    <3>2. NextMap' = NextMap /\ ~BusyMap /\ BusyMap' = TRUE
      BY <2>1, <2>3, <3>1 DEF NextMap, BusyMap, next
    <3>3. Abstract!Record(c)
      BY <2>1, <2>2, <3>2 DEF Abstract!Record, KeyMap, NextMap, BusyMap, Children
    <3> QED
      BY <3>3 DEF Abstract!MinNext, Children
  <2>4. CASE ~(Depth > 0)
    <3>1. ~BusyMap /\ BusyMap' = BusyMap /\ pc' # "update"
      BY <2>1, <2>4 DEF BusyMap
    <3>2. NextMap' \in Children /\ IsFirstOf(KeyMap', NextMap')
      BY <3>1 DEF MappedFirst
    <3>3. Abstract!RecordOnly(c)
      BY <2>1, <2>2, <3>1, <3>2
      DEF Abstract!RecordOnly, Abstract!IsFirst, Abstract!Precedes, IsFirstOf,
          KeyMap, NextMap, BusyMap, Children
    <3> QED
      BY <3>3 DEF Abstract!MinNext, Children
  <2> QED
    BY <2>3, <2>4
<1>4. CASE Replay
  <2>1. pc = "update" /\ tn' = tn /\ level \in 0 .. Depth - 1
        /\ 0 \in 0 .. Depth /\ Depth \in 0 .. Depth
    BY <1>4, ReplayStep, PairOf DEF Promote, LosesAgain
  <2>2. heap'[0] = heap[0]
        /\ (pc' = "update" => heap'[Depth] = heap[Depth]) /\ pc' \in {"idle", "update"}
    <3>1. CASE \E w \in {p, Rival} : Promote(w)
      <4>1. PICK w \in 0 .. Width(level) - 1 : Promote(w)
        BY <2>1, <3>1, PairOf
      <4>2. /\ 0 # level + 1 /\ (level + 1 < Depth => Depth # level + 1)
        BY <2>1
      <4> QED
        BY <2>1, <4>1, <4>2, PromoteEffect
    <3>2. CASE LosesAgain
      BY <3>2 DEF LosesAgain
    <3> QED
      BY <1>4, <3>1, <3>2, ReplayStep
  <2>3. KeyMap' = KeyMap /\ BusyMap = TRUE
    BY <2>1, <2>2 DEF KeyMap, BusyMap
  <2>4. CASE pc' = "update"
    <3>1. UNCHANGED <<tn, KeyMap, NextMap, BusyMap>>
      BY <2>1, <2>2, <2>3, <2>4 DEF NextMap, BusyMap, next
    <3> QED
      BY <3>1 DEF KeyMap, NextMap, BusyMap, Children
  <2>5. CASE pc' = "idle"
    <3>1. BusyMap' = FALSE /\ NextMap' \in Children /\ IsFirstOf(KeyMap', NextMap')
      BY <2>5 DEF MappedFirst, BusyMap
    <3>2. Abstract!Settle
      BY <2>1, <2>3, <3>1
      DEF Abstract!Settle, Abstract!IsFirst, Abstract!Precedes, IsFirstOf,
          KeyMap, NextMap, BusyMap, Children
    <3> QED
      BY <3>2 DEF Abstract!MinNext
  <2> QED
    BY <2>2, <2>4, <2>5
<1>5. CASE UNCHANGED vars
  <2>1. UNCHANGED <<tn, KeyMap, NextMap, BusyMap>>
    BY <1>5 DEF vars, KeyMap, NextMap, BusyMap, next
  <2> QED
    BY <2>1 DEF KeyMap, NextMap, BusyMap, Children
<1> QED
  BY <1>1, <1>2, <1>3, <1>4, <1>5 DEF Next

(* The tournament tree implements the abstract choice of the next child:   *)
(* create() answers like a search of the minimum, update(c) records one    *)
(* time and returns with the right answer for the times recorded.          *)
THEOREM Refinement == Spec => ImplementsMinChild
<1>1. Init => LeavesRecorded
  BY DEF Init, LeavesRecorded
<1>2. TypeOK /\ HeapInv /\ LeavesRecorded /\ [Next]_vars => LeavesRecorded'
  BY LeavesRecordedStep
<1>3. Init /\ MappedFirst => Abstract!MinInit
  <2> SUFFICES ASSUME Init, MappedFirst
               PROVE  Abstract!MinInit
    OBVIOUS
  <2>1. KeyMap = tn /\ NextMap \in Children /\ IsFirstOf(KeyMap, NextMap)
        /\ BusyMap = FALSE /\ tn \in [Children -> Times]
    BY DEF Init, KeyMap, BusyMap, MappedFirst
  <2> QED
    BY <2>1 DEF Abstract!MinInit, Abstract!IsFirst, Abstract!Precedes,
                Abstract!Children, IsFirstOf, KeyMap, NextMap, BusyMap, Children
<1>4. TypeOK /\ HeapInv => MappedFirst
  BY InvMappedFirst
<1>5. /\ TypeOK /\ HeapInv /\ LeavesRecorded /\ MappedFirst
      /\ TypeOK' /\ MappedFirst' /\ [Next]_vars
      => [Abstract!MinNext]_(Abstract!minVars)
  BY MappedStep
<1> QED
  BY <1>1, <1>2, <1>3, <1>4, <1>5, TypeCorrect, HeapInvariant, PTL
  DEF Spec, ImplementsMinChild, Abstract!MinSpec

=============================================================================
