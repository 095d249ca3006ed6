--------------------------- MODULE PetriNet_proofs ---------------------------
(***************************************************************************)
(* The blocks of atomics/petri play the token game, for every net, every   *)
(* order of its models and all their delays.  What makes it hard is the    *)
(* call in the middle of dint: it moves transitionChild of the coupling    *)
(* before the heap knows of the place, so that the heap is left with a     *)
(* time that is over.  KeysRight says when this happens, and why it does   *)
(* no harm: the model that the heap has wrong comes after one of its own   *)
(* places, which is about to announce its tokens to it and so puts the     *)
(* time right.  From this NextIsEarliest follows, and from it, since       *)
(* nothing else can happen at the time of an announcement that is pending, *)
(* the other properties.                                                   *)
(***************************************************************************)
EXTENDS PetriNet, SequenceTheorems, WellFoundedInduction, TLAPS

-----------------------------------------------------------------------------
(* Natural numbers. *)

(* Every non-empty set of natural numbers has a least element. *)
LEMMA LeastNatural ==
  ASSUME NEW T \in SUBSET Nat, T # {}
  PROVE  \E x \in T : \A y \in T : x <= y
<1>1. PICK x \in T : \A y \in T : ~(<<y, x>> \in OpToRel(<, Nat))
  BY WFMin, NatLessThanWellFounded, Zenon
<1>2. \A y \in T : y < x => <<y, x>> \in OpToRel(<, Nat)
  BY DEF OpToRel
<1>3. \A y \in T : ~(y < x)
  BY <1>1, <1>2, Zenon
<1> QED
  BY <1>3

(* Induction: a set that holds 0 and the successor of each of its natural  *)
(* numbers holds them all.                                                 *)
LEMMA InductiveSet ==
  ASSUME NEW T, 0 \in T, \A n \in Nat : n \in T => n + 1 \in T
  PROVE  Nat \subseteq T
<1> SUFFICES ASSUME Nat \ T # {}
             PROVE  FALSE
  OBVIOUS
<1>1. PICK x \in Nat \ T : \A y \in Nat \ T : x <= y
  BY LeastNatural
<1> QED
  BY <1>1

(* Recursion: a start and a step define a function on the natural numbers. *)
Recurs(f, S, start, G) ==
  f \in [Nat -> S] /\ f[0] = start /\ \A n \in Nat : f[n + 1] = G[n][f[n]]

LEMMA NatRecursion ==
  ASSUME NEW S, NEW start \in S, NEW G \in [Nat -> [S -> S]]
  PROVE  \E f : Recurs(f, S, start, G)
<1> DEFINE UpTo(n, f) == /\ f \in [0 .. n -> S] /\ f[0] = start
                         /\ \A i \in 0 .. n : i # n => f[i + 1] = G[i][f[i]]
<1>1. \A n \in Nat : \E f : UpTo(n, f)
  <2> DEFINE T == {n \in Nat : \E f : UpTo(n, f)}
  <2>1. 0 \in T
    <3>1. UpTo(0, [i \in 0 .. 0 |-> start])
      OBVIOUS
    <3> QED
      BY <3>1
  <2>2. ASSUME NEW n \in Nat, n \in T
        PROVE  n + 1 \in T
    <3>1. PICK f : UpTo(n, f)
      BY <2>2
    <3> DEFINE v == G[n][f[n]]
               g == [i \in 0 .. n + 1 |-> IF i = n + 1 THEN v ELSE f[i]]
    <3>2. f[n] \in S
      BY <3>1
    <3>3. v \in S
      BY <3>2
    <3> HIDE DEF v
    <3>4. g \in [0 .. n + 1 -> S] /\ g[0] = start
      BY <3>1, <3>3
    <3>5. ASSUME NEW i \in 0 .. n + 1, i # n + 1
          PROVE  g[i + 1] = G[i][g[i]]
      <4>1. i \in 0 .. n /\ g[i] = f[i]
        BY <3>5
      <4>2. CASE i = n
        BY <4>1, <4>2 DEF v
      <4>3. CASE i # n
        <5>1. f[i + 1] = G[i][f[i]] /\ i + 1 \in 0 .. n
          BY <3>1, <4>1, <4>3
        <5>2. g[i + 1] = f[i + 1]
          BY <5>1
        <5> QED
          BY <4>1, <5>1, <5>2
      <4> QED
        BY <4>2, <4>3
    <3>6. UpTo(n + 1, g)
      BY <3>4, <3>5
    <3> HIDE DEF g, UpTo
    <3> QED
      BY <3>6
  <2>3. Nat \subseteq T
    <3> HIDE DEF T
    <3> QED
      BY <2>1, <2>2, InductiveSet
  <2> QED
    BY <2>3
<1>2. ASSUME NEW m \in Nat, NEW n \in Nat, m <= n,
             NEW f, NEW g, UpTo(m, f), UpTo(n, g)
      PROVE  f[m] = g[m]
  <2> DEFINE T == {i \in Nat : i <= m => f[i] = g[i]}
  <2>1. 0 \in T
    BY <1>2
  <2>2. ASSUME NEW i \in Nat, i \in T
        PROVE  i + 1 \in T
    <3> SUFFICES ASSUME i + 1 <= m
                 PROVE  f[i + 1] = g[i + 1]
      OBVIOUS
    <3>1. f[i] = g[i] /\ i \in 0 .. m /\ i # m /\ i \in 0 .. n /\ i # n
      BY <1>2, <2>2
    <3> QED
      BY <3>1, <1>2
  <2>3. Nat \subseteq T
    <3> HIDE DEF T
    <3> QED
      BY <2>1, <2>2, InductiveSet
  <2> QED
    BY <2>3
<1> DEFINE Ch(n) == CHOOSE f : UpTo(n, f)
           F     == [n \in Nat |-> Ch(n)[n]]
<1>3. \A n \in Nat : UpTo(n, Ch(n))
  BY <1>1, Zenon
<1> HIDE DEF Ch
<1>4. F \in [Nat -> S]
  BY <1>3
<1>5. F[0] = start
  BY <1>3
<1>6. ASSUME NEW n \in Nat
      PROVE  F[n + 1] = G[n][F[n]]
  <2>1. UpTo(n, Ch(n)) /\ UpTo(n + 1, Ch(n + 1)) /\ n <= n + 1 /\ n + 1 \in Nat
    <3> HIDE DEF UpTo
    <3> QED
      BY <1>3
  <2>2. Ch(n)[n] = Ch(n + 1)[n]
    <3> HIDE DEF UpTo
    <3> QED
      BY <2>1, <1>2
  <2>3. Ch(n + 1)[n + 1] = G[n][Ch(n + 1)[n]]
    BY <2>1
  <2> QED
    BY <2>1, <2>2, <2>3
<1> HIDE DEF F
<1>7. Recurs(F, S, start, G)
  BY <1>4, <1>5, <1>6 DEF Recurs
<1> QED
  BY <1>7

-----------------------------------------------------------------------------
(* What a token, or a transition, can have to wait for. *)
Waits == 0 .. INF - 1

(* The types of what the blocks keep, and of what the engine keeps.        *)
MarkingOK ==
  /\ tokens \in [Places -> Nat]
  /\ DOMAIN list = Places /\ \A p \in Places : list[p] \in Seq(Waits)
  /\ flag \in [Places -> {0, 1, 4}]
  /\ enabled \in [Inner -> BOOLEAN] /\ working \in [Inner -> BOOLEAN]
  /\ DOMAIN heard = Inner /\ \A x \in Inner : heard[x] \subseteq Pres(x)
  /\ DOMAIN told = Inner /\ \A x \in Inner : told[x] \in [Pres(x) -> Nat]

TypeOK ==
  /\ order \in Orders /\ delay \in [Nodes \ Triggered -> Waits] /\ now \in 0 .. Tf
  /\ sigma \in [Nodes -> 0 .. INF] /\ tl \in [Nodes -> 0 .. Tf]
  /\ key \in [DOMAIN order -> Nat] /\ tc = First(key)
  /\ MarkingOK

(* No model is late; a place that has an announcement to make is due now.  *)
OnTime  == \A n \in Nodes : tl[n] <= now /\ now <= Tn(n)
Pending == \A p \in Places : flag[p] = 4 => sigma[p] = 0 /\ tl[p] = now

(* The heap has the time of the i-th model wrong: it has come to rest, but *)
(* is recorded as due, after a place of its own that is to announce.       *)
Stale(i) ==
  /\ order[i] \in Inner /\ sigma[order[i]] = INF /\ key[i] = now
  /\ \E j \in DOMAIN order : j < i /\ order[j] \in Pres(order[i]) /\ flag[order[j]] = 4
KeysRight == \A i \in DOMAIN order : key[i] = Tn(order[i]) \/ Stale(i)

(* A transition that has taken its tokens is the next to be called.        *)
Firing == \A x \in Inner :
  working[x] => order[tc] = x /\ ~enabled[x] /\ sigma[x] = 0 /\ tl[x] = now

(* The inductive invariant. *)
NetInv == TypeOK /\ OnTime /\ Pending /\ KeysRight /\ Firing

(* A place has nothing to announce, now or when its transition has fired:  *)
(* then its transitions know its tokens, and whether they can fire.        *)
Settled(p) == flag[p] # 4 /\ \A w \in Inner : working[w] => p \notin Pres(w)
Ready(x)   == heard[x] = Pres(x) /\ \A p \in Pres(x) : Weight[x][p] <= told[x][p]

ToldRight == \A x \in Inner : \A p \in Pres(x) :
  Settled(p) => IF p \in heard[x] THEN told[x][p] = tokens[p] ELSE tokens[p] = 0
EnabledRight == \A x \in Inner :
  (\A p \in Pres(x) : Settled(p)) => (enabled[x] <=> Ready(x))

-----------------------------------------------------------------------------
(* What the assumptions give. *)
LEMMA Kinds ==
  /\ Places \subseteq Nodes /\ Inner \subseteq Nodes /\ Sources \subseteq Nodes
  /\ Triggered \subseteq Nodes /\ Transitions \subseteq Nodes
  /\ \A p \in Places : p \notin Inner /\ p \notin Sources /\ p \notin Triggered
  /\ \A x \in Inner : x \notin Sources /\ x \notin Triggered
  /\ \A x \in Sources : x \notin Triggered
BY NetAssumption, Zenon DEF Nodes, Transitions

LEMMA Numbers ==
  INF \in Nat /\ Tf \in Nat /\ Tf < INF /\ Delays \subseteq 0 .. INF - 1 /\ Marks \subseteq Nat
BY NetAssumption

(* The input places of a transition, and those that it names. *)
LEMMA Inputs ==
  ASSUME NEW x \in Inner
  PROVE  /\ Pres(x) \subseteq Places /\ Pres(x) # {}
         /\ Pre[x] \in Seq(Places) /\ Len(Pre[x]) \in Nat
         /\ DOMAIN Pre[x] = 1 .. Len(Pre[x])
         /\ \A i \in 1 .. Len(Pre[x]) : Pre[x][i] \in Pres(x)
         /\ \A p \in Pres(x) : \E i \in 1 .. Len(Pre[x]) : Pre[x][i] = p
         /\ \A p \in Places : Weight[x][p] \in Nat
         /\ \A p \in Places : p \in Pres(x) <=> Weight[x][p] > 0
<1>1. Pre[x] \in Seq(Places)
  BY NetAssumption, Zenon
<1>2. /\ Pre[x] # <<>>
      /\ {Pre[x][i] : i \in DOMAIN Pre[x]} = Pres(x)
      /\ \A p \in Places : Weight[x][p] \in Nat
  BY NetAssumption, Zenon DEF Pres
<1>3. Len(Pre[x]) \in Nat /\ DOMAIN Pre[x] = 1 .. Len(Pre[x])
  BY <1>1
<1>4. Len(Pre[x]) # 0
  BY <1>1, <1>2
<1>5. \A i \in 1 .. Len(Pre[x]) : Pre[x][i] \in Pres(x)
  BY <1>2, <1>3, Zenon
<1>6. \A p \in Pres(x) : \E i \in 1 .. Len(Pre[x]) : Pre[x][i] = p
  BY <1>2, <1>3, Zenon
<1>7. Pres(x) # {}
  <2>1. 1 \in 1 .. Len(Pre[x])
    BY <1>3, <1>4
  <2> QED
    BY <2>1, <1>5, Zenon
<1>8. /\ Pres(x) \subseteq Places
      /\ \A p \in Places : p \in Pres(x) <=> Weight[x][p] > 0
  BY Zenon DEF Pres
<1> QED
  BY <1>1, <1>2, <1>3, <1>5, <1>6, <1>7, <1>8, Zenon

LEMMA OrderFacts ==
  ASSUME order \in Orders
  PROVE  /\ Len(order) \in Nat /\ DOMAIN order = 1 .. Len(order) /\ DOMAIN order # {}
         /\ \A i \in DOMAIN order : order[i] \in Nodes
         /\ \A n \in Nodes : \E i \in DOMAIN order : order[i] = n
         /\ \A i, j \in DOMAIN order : order[i] = order[j] => i = j
<1>1. order \in Seq(Nodes)
  BY NetAssumption, Zenon
<1>2. /\ {order[i] : i \in DOMAIN order} = Nodes
      /\ \A i, j \in DOMAIN order : order[i] = order[j] => i = j
  BY NetAssumption, Zenon
<1>3. Len(order) \in Nat /\ DOMAIN order = 1 .. Len(order)
  BY <1>1
<1>4. /\ \A i \in DOMAIN order : order[i] \in Nodes
      /\ \A n \in Nodes : \E i \in DOMAIN order : order[i] = n
  BY <1>2, Zenon
<1>5. Nodes # {}
  BY NetAssumption, Zenon DEF Nodes
<1>6. DOMAIN order # {}
  BY <1>4, <1>5, Zenon
<1> QED
  BY <1>2, <1>3, <1>4, <1>6, Zenon

LEMMA AtFacts ==
  ASSUME order \in Orders, NEW n \in Nodes
  PROVE  At(n) \in DOMAIN order /\ order[At(n)] = n
<1>1. \E i \in DOMAIN order : order[i] = n
  BY OrderFacts, Zenon
<1> QED
  BY <1>1, Zenon DEF At

(* The answer of the heap. *)
LEMMA FirstFacts ==
  ASSUME NEW D \in SUBSET Nat, D # {}, NEW k \in [D -> Nat]
  PROVE  /\ First(k) \in D
         /\ \A j \in D : k[First(k)] < k[j] \/ (k[First(k)] = k[j] /\ First(k) <= j)
<1>1. DOMAIN k = D
  OBVIOUS
<1>2. PICK i \in D : \A j \in D : k[i] < k[j] \/ (k[i] = k[j] /\ i <= j)
  <2> DEFINE T == {k[d] : d \in D}
  <2>1. T \in SUBSET Nat /\ T # {}
    OBVIOUS
  <2>2. PICK t \in T : \A u \in T : t <= u
    BY <2>1, LeastNatural
  <2> DEFINE U == {d \in D : k[d] = t}
  <2>3. U \in SUBSET Nat /\ U # {}
    BY <2>2
  <2>4. PICK i \in U : \A j \in U : i <= j
    BY <2>3, LeastNatural
  <2>5. \A j \in D : k[j] \in T /\ k[j] \in Nat /\ j \in Nat
    OBVIOUS
  <2>6. i \in D /\ k[i] = t
    BY <2>4
  <2>7. ASSUME NEW j \in D
        PROVE  k[i] < k[j] \/ (k[i] = k[j] /\ i <= j)
    <3>1. t <= k[j] /\ t \in Nat
      BY <2>1, <2>2, <2>5
    <3>2. k[j] = t => i <= j
      BY <2>4
    <3> QED
      BY <3>1, <3>2, <2>5, <2>6
  <2> QED
    BY <2>6, <2>7
<1> DEFINE P(c) == \A j \in D : k[c] < k[j] \/ (k[c] = k[j] /\ c <= j)
<1>3. \E c \in D : P(c)
  BY <1>2
<1>4. First(k) = CHOOSE c \in D : P(c)
  BY <1>1 DEF First
<1>5. First(k) \in D /\ P(First(k))
  <2> HIDE DEF P
  <2> QED
    BY <1>3, <1>4, Zenon
<1> QED
  BY <1>5

-----------------------------------------------------------------------------
(* Times and their sums. *)
LEMMA PlusFacts ==
  ASSUME NEW x \in Nat, NEW s \in 0 .. INF
  PROVE  /\ Plus(x, s) \in Nat /\ Plus(x, 0) = x
         /\ x <= Tf => x <= Plus(x, s)
         /\ s = INF => Plus(x, s) = INF
BY Numbers DEF Plus

LEMMA TnType ==
  ASSUME TypeOK
  PROVE  \A n \in Nodes : /\ Tn(n) \in Nat /\ sigma[n] \in 0 .. INF
                          /\ tl[n] \in Nat /\ tl[n] <= Tf
BY PlusFacts, Numbers DEF TypeOK, Tn

(* The heap answers with a model of which it knows the time, and nothing   *)
(* is due before it, whatever the heap does not know.                      *)
LEMMA Current ==
  ASSUME NetInv
  PROVE  /\ tc \in DOMAIN order /\ order[tc] \in Nodes /\ ~Stale(tc)
         /\ key[tc] = Tn(order[tc]) /\ now <= Tn(order[tc]) /\ Tn(order[tc]) \in Nat
         /\ now \in Nat
         /\ \A i \in DOMAIN order : key[i] \in Nat /\ Tn(order[tc]) <= key[i]
         /\ \A i \in DOMAIN order : key[i] = Tn(order[tc]) => tc <= i
         /\ \A n \in Nodes : Tn(order[tc]) <= Tn(n)
         /\ \A p \in Places : flag[p] = 4 => Tn(order[tc]) = now
<1>1. TypeOK /\ order \in Orders /\ key \in [DOMAIN order -> Nat] /\ tc = First(key)
  BY Zenon DEF NetInv, TypeOK
<1>2. DOMAIN order \in SUBSET Nat /\ DOMAIN order # {}
  BY <1>1, OrderFacts
<1>3. /\ tc \in DOMAIN order
      /\ \A i \in DOMAIN order : key[tc] < key[i] \/ (key[tc] = key[i] /\ tc <= i)
  BY <1>1, <1>2, FirstFacts, Zenon
<1>4. \A i \in DOMAIN order : key[i] \in Nat /\ order[i] \in Nodes /\ i \in Nat
  BY <1>1, <1>2, OrderFacts
<1>5. \A p \in Places : flag[p] = 4 => Tn(p) = now
  <2>1. now \in Nat
    BY <1>1 DEF TypeOK
  <2>2. ASSUME NEW p \in Places, flag[p] = 4
        PROVE  Tn(p) = now
    <3>1. sigma[p] = 0 /\ tl[p] = now
      BY <2>2, Zenon DEF NetInv, Pending
    <3> QED
      BY <2>1, <3>1, Numbers DEF Tn, Plus
  <2> QED
    BY <2>2
<1>6. \A i \in DOMAIN order : key[i] = Tn(order[i]) \/ Stale(i)
  BY Zenon DEF NetInv, KeysRight
<1>7. ~Stale(tc)
  <2> SUFFICES ASSUME Stale(tc)
               PROVE  FALSE
    OBVIOUS
  <2>1. PICK j \in DOMAIN order : j < tc /\ order[j] \in Pres(order[tc]) /\ flag[order[j]] = 4
    BY Zenon DEF Stale
  <2>2. order[tc] \in Inner /\ key[tc] = now
    BY Zenon DEF Stale
  <2>3. order[j] \in Places
    BY <2>1, <2>2, Inputs, Zenon
  <2>4. ~Stale(j)
    BY <2>3, Kinds, Zenon DEF Stale
  <2>5. key[j] = now
    BY <1>5, <1>6, <2>1, <2>3, <2>4, Zenon
  <2> QED
    BY <1>3, <1>4, <2>1, <2>2, <2>5
<1>8. key[tc] = Tn(order[tc])
  BY <1>3, <1>6, <1>7, Zenon
<1>9. \A i \in DOMAIN order : Tn(order[tc]) <= key[i]
  BY <1>3, <1>4, <1>8
<1>10. now \in Nat /\ \A n \in Nodes : Tn(n) \in Nat /\ now <= Tn(n)
  BY <1>1, TnType DEF TypeOK, NetInv, OnTime
<1>11. ASSUME NEW n \in Nodes
       PROVE  Tn(order[tc]) <= Tn(n)
  <2>1. PICK i \in DOMAIN order : order[i] = n
    BY <1>1, OrderFacts, Zenon
  <2>2. CASE key[i] = Tn(order[i])
    BY <1>9, <2>1, <2>2
  <2>3. CASE Stale(i)
    <3>1. key[i] = now
      BY <2>3, Zenon DEF Stale
    <3>2. Tn(order[tc]) <= now
      BY <1>9, <3>1
    <3> QED
      BY <1>3, <1>4, <1>10, <3>2
  <2> QED
    BY <1>6, <2>2, <2>3
<1>12. ASSUME NEW p \in Places, flag[p] = 4
       PROVE  Tn(order[tc]) = now
  <2>1. Tn(order[tc]) <= Tn(p) /\ Tn(p) = now
    BY <1>5, <1>11, <1>12, Kinds
  <2> QED
    BY <1>3, <1>4, <1>10, <2>1
<1> QED
  BY <1>3, <1>4, <1>7, <1>8, <1>9, <1>10, <1>11, <1>12

(* The end of a step: whoever received something has its new time in the   *)
(* heap, and a time that the heap still does not know is one whose place   *)
(* is still to announce its tokens.                                        *)
LEMMA EndStepKept ==
  ASSUME NetInv, NEW n \in Nodes, NEW R \in SUBSET Nodes, Imminent(n), EndStep(n, R),
         sigma' \in [Nodes -> 0 .. INF],
         \A m \in Nodes : m \notin R \cup {n} => sigma'[m] = sigma[m],
         \A x \in Inner : x \notin R \cup {n} =>
           \A p \in Pres(x) : flag[p] = 4 => flag'[p] = 4,
         \A p \in Places : flag'[p] = 4 =>
           sigma'[p] = 0 /\ (p \in R \cup {n} \/ flag[p] = 4)
  PROVE  /\ order' = order /\ delay' = delay /\ now' \in 0 .. Tf
         /\ tl' \in [Nodes -> 0 .. Tf] /\ key' \in [DOMAIN order' -> Nat] /\ tc' = First(key')
         /\ OnTime' /\ Pending' /\ KeysRight'
<1> DEFINE S == R \cup {n}
<1>1. TypeOK /\ order \in Orders
  BY Zenon DEF NetInv, TypeOK
<1>2. /\ tc \in DOMAIN order /\ order[tc] = n /\ now' = Tn(n) /\ Tn(n) <= Tf
      /\ now' \in Nat /\ now \in Nat /\ now <= now'
      /\ \A m \in Nodes : now' <= Tn(m)
      /\ \A p \in Places : flag[p] = 4 => now' = now
  BY Current, Zenon DEF Imminent
<1>3. now' \in 0 .. Tf
  BY <1>2, Numbers
<1>4. order' = order /\ delay' = delay
  BY DEF EndStep, model
<1>5. /\ tl' = [m \in Nodes |-> IF m \in S THEN now' ELSE tl[m]]
      /\ key' = [i \in DOMAIN order |-> IF order[i] \in S THEN Tn(order[i])' ELSE key[i]]
      /\ tc' = First(key')
  BY Zenon DEF EndStep
<1>6. \A m \in Nodes : tl[m] \in 0 .. Tf
  BY <1>1 DEF TypeOK
<1>7. \A m \in Nodes : tl'[m] = IF m \in S THEN now' ELSE tl[m]
  BY <1>5, Zenon
<1>8. tl' \in [Nodes -> 0 .. Tf]
  BY <1>3, <1>5, <1>6
<1>9. \A m \in Nodes : Tn(m)' = Plus(tl'[m], sigma'[m])
  BY Zenon DEF Tn
<1>10. \A m \in Nodes : /\ tl'[m] \in Nat /\ tl'[m] <= Tf /\ sigma'[m] \in 0 .. INF
                        /\ Tn(m)' \in Nat /\ tl'[m] <= Tn(m)'
  BY <1>8, <1>9, PlusFacts, Numbers
<1>11. \A m \in Nodes : m \notin S => tl'[m] = tl[m] /\ sigma'[m] = sigma[m] /\ Tn(m)' = Tn(m)
  <2> SUFFICES ASSUME NEW m \in Nodes, m \notin S
               PROVE  tl'[m] = tl[m] /\ sigma'[m] = sigma[m] /\ Tn(m)' = Tn(m)
    BY Zenon
  <2>1. tl'[m] = tl[m] /\ sigma'[m] = sigma[m]
    BY <1>7, Zenon
  <2> QED
    BY <1>9, <2>1, Zenon DEF Tn
<1> HIDE DEF S
<1>12. OnTime'
  <2> SUFFICES ASSUME NEW m \in Nodes
               PROVE  tl'[m] <= now' /\ now' <= Tn(m)'
    BY Zenon DEF OnTime
  <2>1. CASE m \in S
    <3>1. tl'[m] = now'
      BY <1>7, <2>1, Zenon
    <3> QED
      BY <1>2, <1>10, <3>1
  <2>2. CASE m \notin S
    <3>1. tl'[m] = tl[m] /\ Tn(m)' = Tn(m)
      BY <1>11, <2>2, Zenon
    <3>2. tl[m] <= now /\ tl[m] \in Nat
      BY <1>1, TnType DEF NetInv, OnTime
    <3> QED
      BY <1>2, <3>1, <3>2
  <2> QED
    BY <2>1, <2>2
<1>13. Pending'
  <2> SUFFICES ASSUME NEW p \in Places, flag'[p] = 4
               PROVE  sigma'[p] = 0 /\ tl'[p] = now'
    BY Zenon DEF Pending
  <2>1. sigma'[p] = 0 /\ (p \in S \/ flag[p] = 4) /\ p \in Nodes
    BY Kinds, Zenon DEF S
  <2>2. CASE p \in S
    BY <1>7, <2>1, <2>2, Zenon
  <2>3. CASE p \notin S
    <3>1. tl'[p] = tl[p] /\ tl[p] = now /\ now' = now
      BY <1>2, <1>11, <2>1, <2>3, Zenon DEF NetInv, Pending
    <3> QED
      BY <2>1, <3>1, Zenon
  <2> QED
    BY <2>2, <2>3
<1>14. \A i \in DOMAIN order : order[i] \in Nodes
  BY <1>1, OrderFacts, Zenon
<1>15. \A i \in DOMAIN order :
         key'[i] = IF order[i] \in S THEN Tn(order[i])' ELSE key[i]
  BY <1>5, Zenon DEF S
<1>16. key' \in [DOMAIN order' -> Nat]
  <2>1. \A i \in DOMAIN order : key'[i] \in Nat
    <3>1. \A i \in DOMAIN order : key[i] \in Nat
      BY Current, Zenon
    <3>2. \A i \in DOMAIN order : Tn(order[i])' \in Nat
      BY <1>4, <1>10, <1>14, Zenon
    <3> QED
      BY <1>15, <3>1, <3>2, Zenon
  <2> QED
    BY <1>4, <1>5, <2>1
<1>17. KeysRight'
  <2> SUFFICES ASSUME NEW i \in DOMAIN order
               PROVE  key'[i] = Tn(order[i])' \/ Stale(i)'
    BY <1>4, Zenon DEF KeysRight
  <2>1. CASE order[i] \in S
    BY <1>15, <2>1, Zenon
  <2>2. CASE order[i] \notin S
    <3>1. /\ key'[i] = key[i] /\ sigma'[order[i]] = sigma[order[i]]
          /\ Tn(order[i])' = Tn(order[i])
      <4>1. Tn(order[i])' = Plus(tl'[order[i]], sigma'[order[i]])
        BY <1>4, Zenon DEF Tn
      <4>2. tl'[order[i]] = tl[order[i]] /\ sigma'[order[i]] = sigma[order[i]]
        BY <1>11, <1>14, <2>2, Zenon
      <4> QED
        BY <1>15, <2>2, <4>1, <4>2, Zenon DEF Tn
    <3>2. CASE key[i] = Tn(order[i])
      BY <3>1, <3>2, Zenon
    <3>3. CASE Stale(i)
      <4>1. order[i] \in Inner /\ sigma[order[i]] = INF /\ key[i] = now
        BY <3>3, Zenon DEF Stale
      <4>2. PICK j \in DOMAIN order : j < i /\ order[j] \in Pres(order[i]) /\ flag[order[j]] = 4
        BY <3>3, Zenon DEF Stale
      <4>3. order[j] \in Places
        BY <4>1, <4>2, Inputs, Zenon
      <4>4. now' = now
        BY <1>2, <4>2, <4>3, Zenon
      <4>5. flag'[order[j]] = 4
        BY <2>2, <4>1, <4>2, Zenon DEF S
      <4>6. Pres(order[i])' = Pres(order[i])
        BY <1>4, Zenon DEF Pres
      <4> QED
        BY <1>4, <3>1, <4>1, <4>2, <4>4, <4>5, <4>6, Zenon DEF Stale
    <3> QED
      BY <3>2, <3>3, Zenon DEF NetInv, KeysRight
  <2> QED
    BY <2>1, <2>2
<1> QED
  BY <1>3, <1>4, <1>5, <1>8, <1>12, <1>13, <1>16, <1>17

-----------------------------------------------------------------------------
(* What the list of a place becomes. *)
LEMMA AgedType ==
  ASSUME NEW l \in Seq(Waits), NEW t \in Nat
  PROVE  Aged(l, t) \in Seq(Waits) /\ Len(Aged(l, t)) = Len(l)
<1>1. \A i \in 1 .. Len(l) : l[i] \in Waits
  OBVIOUS
<1>2. DOMAIN l = 1 .. Len(l) /\ Len(l) \in Nat
  OBVIOUS
<1>3. Aged(l, t) = [i \in 1 .. Len(l) |-> IF l[i] >= t THEN l[i] - t ELSE 0]
  BY <1>2, Zenon DEF Aged
<1>4. \A i \in 1 .. Len(l) : (IF l[i] >= t THEN l[i] - t ELSE 0) \in Waits
  BY <1>1, Numbers DEF Waits
<1>5. Aged(l, t) \in [1 .. Len(l) -> Waits]
  BY <1>3, <1>4
<1> QED
  BY <1>2, <1>5

LEMMA RipeType ==
  ASSUME NEW l \in Seq(Waits)
  PROVE  Ripe(l) \in 0 .. Len(l)
<1>1. Len(l) \in Nat /\ \A i \in 1 .. Len(l) : l[i] \in Int
  <2>1. \A i \in 1 .. Len(l) : l[i] \in Waits
    OBVIOUS
  <2> QED
    BY <2>1, Numbers DEF Waits
<1> DEFINE T == {n \in 0 .. Len(l) : n < Len(l) => l[n + 1] > 0}
<1>2. PICK n \in T : \A m \in T : n <= m
  <2>1. T \in SUBSET Nat /\ Len(l) \in T
    BY <1>1
  <2> HIDE DEF T
  <2> QED
    BY <2>1, LeastNatural
<1>3. n \in 0 .. Len(l) /\ (n < Len(l) => l[n + 1] > 0)
  BY <1>2
<1>4. ASSUME NEW i \in 1 .. n
      PROVE  l[i] <= 0
  <2>1. i - 1 \in 0 .. Len(l) /\ i - 1 < Len(l) /\ i - 1 < n /\ (i - 1) + 1 = i /\ l[i] \in Int
    BY <1>1, <1>3
  <2>2. i - 1 \notin T
    BY <1>2, <1>3, <2>1
  <2> QED
    BY <2>1, <2>2
<1> DEFINE P(m) == /\ \A i \in 1 .. m : l[i] <= 0
                   /\ m < Len(l) => l[m + 1] > 0
<1>5. \E m \in 0 .. Len(l) : P(m)
  BY <1>3, <1>4
<1>6. (CHOOSE m \in 0 .. Len(l) : P(m)) \in 0 .. Len(l)
  <2> HIDE DEF P
  <2> QED
    BY <1>5, Zenon
<1>7. Len(l) = 1 => 1 \in 0 .. Len(l)
  BY <1>1
<1> QED
  BY <1>6, <1>7, Zenon DEF Ripe

(* Only the model that the step calls can be firing. *)
LEMMA Resting ==
  ASSUME NetInv, NEW n \in Nodes, Imminent(n)
  PROVE  \A x \in Inner : working[x] => x = n /\ ~enabled[x]
BY Zenon DEF NetInv, Firing, Imminent

LEMMA NetInvFrom ==
  ASSUME MarkingOK', sigma' \in [Nodes -> 0 .. INF], OnTime', Pending', KeysRight', Firing',
         order' \in Orders, delay' \in [Nodes \ Triggered -> Waits], now' \in 0 .. Tf,
         tl' \in [Nodes -> 0 .. Tf], key' \in [DOMAIN order' -> Nat], tc' = First(key')
  PROVE  NetInv'
<1>1. TypeOK'
  BY Zenon DEF TypeOK
<1> QED
  BY <1>1, Zenon DEF NetInv

(* The actions, one by one: a place whose tokens become available, *)
LEMMA MatureKept ==
  ASSUME NetInv, NEW p \in Places, Mature(p)
  PROVE  NetInv'
<1>1. TypeOK /\ MarkingOK /\ Pending
  BY Zenon DEF NetInv, TypeOK
<1>2. p \in Nodes /\ Imminent(p) /\ EndStep(p, {}) /\ UNCHANGED trans
  BY Kinds, Zenon DEF Mature
<1> DEFINE t    == IF list[p] = <<>> THEN INF ELSE list[p][1]
           aged == Aged(list[p], t)
           ripe == Ripe(aged)
<1>3. /\ tokens' = [tokens EXCEPT ![p] = tokens[p] + ripe]
      /\ list' = [list EXCEPT ![p] = SubSeq(aged, ripe + 1, Len(aged))]
      /\ flag' = [flag EXCEPT ![p] = 4] /\ sigma' = [sigma EXCEPT ![p] = 0]
  BY Zenon DEF Mature
<1>4. list[p] \in Seq(Waits)
  BY <1>1 DEF MarkingOK
<1>5. t \in Nat
  <2>1. list[p] # <<>> => list[p][1] \in Waits
    BY <1>4
  <2> QED
    BY <2>1, Numbers DEF Waits
<1>6. aged \in Seq(Waits)
  BY <1>4, <1>5, AgedType
<1>7. ripe \in 0 .. Len(aged)
  BY <1>6, RipeType
<1> HIDE DEF aged, ripe, t
<1>8. SubSeq(aged, ripe + 1, Len(aged)) \in Seq(Waits)
  <2>1. Len(aged) \in Nat
    BY <1>6
  <2>2. ripe + 1 \in 1 .. Len(aged) + 1
    BY <1>7, <2>1
  <2>3. \A i \in ripe + 1 .. Len(aged) : aged[i] \in Waits
    BY <1>6, <1>7, <2>1
  <2> QED
    BY <1>6, <2>1, <2>2, <2>3, SubSeqProperties
<1>9. MarkingOK'
  <2>1. tokens' \in [Places -> Nat]
    BY <1>1, <1>3, <1>6, <1>7 DEF MarkingOK
  <2>2. DOMAIN list' = Places /\ \A q \in Places : list'[q] \in Seq(Waits)
    BY <1>1, <1>3, <1>8, Zenon DEF MarkingOK
  <2>3. flag' \in [Places -> {0, 1, 4}]
    BY <1>1, <1>3 DEF MarkingOK
  <2>4. enabled' = enabled /\ working' = working /\ heard' = heard /\ told' = told
    BY <1>2, Zenon DEF trans
  <2> QED
    BY <1>1, <2>1, <2>2, <2>3, <2>4, Zenon DEF MarkingOK
<1>10. sigma' \in [Nodes -> 0 .. INF] /\ sigma'[p] = 0
       /\ \A m \in Nodes : m # p => sigma'[m] = sigma[m]
  BY <1>1, <1>2, <1>3, Numbers DEF TypeOK
<1>11. \A q \in Places : q # p => flag'[q] = flag[q]
  BY <1>1, <1>3 DEF MarkingOK
<1>12. \A q \in Places : flag[q] = 4 => flag'[q] = 4
  BY <1>1, <1>3 DEF MarkingOK
<1>13. \A q \in Places : flag'[q] = 4 => sigma'[q] = 0 /\ (q \in {} \cup {p} \/ flag[q] = 4)
  BY <1>1, <1>10, <1>11, Kinds, Zenon DEF Pending
<1>14. \A x \in Inner : \A q \in Pres(x) : flag[q] = 4 => flag'[q] = 4
  BY <1>12, Inputs, Zenon
<1>15. /\ order' = order /\ delay' = delay /\ now' \in 0 .. Tf
       /\ tl' \in [Nodes -> 0 .. Tf] /\ key' \in [DOMAIN order' -> Nat] /\ tc' = First(key')
       /\ OnTime' /\ Pending' /\ KeysRight'
  <2>1. \A m \in Nodes : m \notin {} \cup {p} => sigma'[m] = sigma[m]
    BY <1>10, Zenon
  <2>2. {} \in SUBSET Nodes
    OBVIOUS
  <2> QED
    BY <1>2, <1>10, <1>13, <1>14, <2>1, <2>2, EndStepKept, Zenon
<1>16. Firing'
  <2>1. \A x \in Inner : ~working'[x]
    BY <1>2, Resting, Kinds, Zenon DEF trans
  <2> QED
    BY <2>1, Zenon DEF Firing
<1> QED
  BY <1>1, <1>9, <1>10, <1>15, <1>16, NetInvFrom, Zenon DEF TypeOK

(* a place that announces its tokens, *)
LEMMA AnnounceKept ==
  ASSUME NetInv, NEW p \in Places, Announce(p)
  PROVE  NetInv'
<1> DEFINE to == {x \in Inner : p \in Pres(x)}
<1>1. TypeOK /\ MarkingOK /\ Pending
  BY Zenon DEF NetInv, TypeOK
<1>2. p \in Nodes /\ Imminent(p) /\ flag[p] = 4 /\ EndStep(p, to)
      /\ UNCHANGED <<tokens, list, working>>
  BY Kinds, Zenon DEF Announce
<1>3. /\ heard' = [x \in Inner |-> IF x \in to THEN heard[x] \cup {p} ELSE heard[x]]
      /\ told'  = [x \in Inner |-> IF x \in to THEN [told[x] EXCEPT ![p] = tokens[p]] ELSE told[x]]
      /\ enabled' = [x \in Inner |-> IF x \in to THEN Active(x) ELSE enabled[x]]
      /\ flag' = [flag EXCEPT ![p] = IF list[p] = <<>> THEN 0 ELSE 1]
      /\ sigma' = [n \in Nodes |->
           IF n \in to THEN NewSigma(n)
           ELSE IF n # p THEN sigma[n]
           ELSE IF list[p] = <<>> THEN INF ELSE list[p][1]]
  BY Zenon DEF Announce
<1>4. to \subseteq Inner /\ to \in SUBSET Nodes /\ \A x \in to : p \in Pres(x)
  BY Kinds, Zenon
<1>5. \A x \in Inner : p \in Pres(x) => x \in to
  BY Zenon
<1> HIDE DEF to
<1>6. /\ now' \in Nat /\ \A n \in Nodes : now' <= Tn(n) /\ Tn(n) \in Nat /\ tl[n] \in Nat
                                         /\ tl[n] <= now /\ sigma[n] \in 0 .. INF
      /\ now \in Nat /\ now' = now
  <2>1. now' = Tn(p) /\ order[tc] = p
    BY <1>2, Zenon DEF Imminent
  <2>2. \A n \in Nodes : tl[n] <= now
    BY Zenon DEF NetInv, OnTime
  <2> QED
    BY <1>1, <1>2, <2>1, <2>2, Current, TnType, Zenon
<1>7. ASSUME NEW x \in to
      PROVE  NewSigma(x) \in 0 .. INF
  <2>1. x \in Nodes \ Triggered /\ x \in Nodes
    BY <1>4, Kinds, Zenon
  <2>2. delay[x] \in 0 .. INF
    <3>1. delay[x] \in Waits
      BY <1>1, <2>1 DEF TypeOK
    <3> QED
      BY <3>1, Numbers DEF Waits
  <2>3. Minus(sigma[x], now' - tl[x]) \in 0 .. INF
    <3>1. now' <= Plus(tl[x], sigma[x]) /\ tl[x] <= now' /\ tl[x] \in Nat /\ now' \in Nat
          /\ sigma[x] \in 0 .. INF
      BY <1>6, <2>1 DEF Tn
    <3> QED
      BY <3>1, Numbers DEF Plus, Minus
  <2>4. INF \in 0 .. INF
    BY Numbers
  <2> QED
    BY <2>2, <2>3, <2>4, Zenon DEF NewSigma
<1>8. list[p] \in Seq(Waits) /\ (list[p] # <<>> => list[p][1] \in Waits)
  BY <1>1 DEF MarkingOK
<1>9. sigma' \in [Nodes -> 0 .. INF]
      /\ \A m \in Nodes : m \notin to \cup {p} => sigma'[m] = sigma[m]
  <2>1. (IF list[p] = <<>> THEN INF ELSE list[p][1]) \in 0 .. INF
    BY <1>8, Numbers DEF Waits
  <2>2. \A n \in Nodes : (IF n \in to THEN NewSigma(n)
           ELSE IF n # p THEN sigma[n]
           ELSE IF list[p] = <<>> THEN INF ELSE list[p][1]) \in 0 .. INF
    BY <1>6, <1>7, <2>1, Zenon
  <2> QED
    BY <1>3, <2>2
<1>10. flag' \in [Places -> {0, 1, 4}] /\ flag'[p] # 4
       /\ \A q \in Places : q # p => flag'[q] = flag[q]
  BY <1>1, <1>3 DEF MarkingOK
<1>11. MarkingOK'
  <2>1. enabled' \in [Inner -> BOOLEAN]
    <3>1. \A x \in Inner : (IF x \in to THEN Active(x) ELSE enabled[x]) \in BOOLEAN
      <4>1. \A x \in Inner : enabled[x] \in BOOLEAN
        BY <1>1 DEF MarkingOK
      <4>2. \A x \in Inner : Active(x) \in BOOLEAN
        BY DEF Active
      <4> QED
        BY <4>1, <4>2
    <3> QED
      BY <1>3, <3>1
  <2>2. DOMAIN heard' = Inner /\ \A x \in Inner : heard'[x] \subseteq Pres(x)
    BY <1>1, <1>3, <1>4, Zenon DEF MarkingOK
  <2>3. DOMAIN told' = Inner /\ \A x \in Inner : told'[x] \in [Pres(x) -> Nat]
    <3>1. DOMAIN told' = Inner
      BY <1>3, Zenon
    <3>2. ASSUME NEW x \in Inner
          PROVE  told'[x] \in [Pres(x) -> Nat]
      <4>1. told[x] \in [Pres(x) -> Nat] /\ tokens[p] \in Nat
        BY <1>1 DEF MarkingOK
      <4>2. CASE x \in to
        <5>1. told'[x] = [told[x] EXCEPT ![p] = tokens[p]] /\ p \in Pres(x)
          BY <1>3, <1>4, <4>2, Zenon
        <5> QED
          BY <4>1, <5>1
      <4>3. CASE x \notin to
        BY <1>3, <4>1, <4>3, Zenon
      <4> QED
        BY <4>2, <4>3
    <3> QED
      BY <3>1, <3>2
  <2> QED
    BY <1>1, <1>2, <1>10, <2>1, <2>2, <2>3, Zenon DEF MarkingOK
<1>12. \A q \in Places : flag'[q] = 4 => sigma'[q] = 0 /\ (q \in to \cup {p} \/ flag[q] = 4)
  <2> SUFFICES ASSUME NEW q \in Places, flag'[q] = 4
               PROVE  sigma'[q] = 0 /\ flag[q] = 4
    BY Zenon
  <2>1. q # p /\ flag[q] = 4 /\ q \in Nodes /\ q \notin to
    BY <1>4, <1>10, Kinds, Zenon
  <2>2. sigma'[q] = sigma[q] /\ sigma[q] = 0
    BY <1>1, <1>9, <2>1, Zenon DEF Pending
  <2> QED
    BY <2>1, <2>2, Zenon
<1>13. \A x \in Inner : x \notin to \cup {p} =>
         \A q \in Pres(x) : flag[q] = 4 => flag'[q] = 4
  BY <1>5, <1>10, Inputs, Zenon
<1>14. /\ order' = order /\ delay' = delay /\ now' \in 0 .. Tf
       /\ tl' \in [Nodes -> 0 .. Tf] /\ key' \in [DOMAIN order' -> Nat] /\ tc' = First(key')
       /\ OnTime' /\ Pending' /\ KeysRight'
  BY <1>2, <1>4, <1>9, <1>12, <1>13, EndStepKept, Zenon
<1>15. Firing'
  <2>1. \A x \in Inner : ~working'[x]
    BY <1>2, Resting, Kinds, Zenon
  <2> QED
    BY <2>1, Zenon DEF Firing
<1> QED
  BY <1>1, <1>9, <1>11, <1>14, <1>15, NetInvFrom, Zenon DEF TypeOK

(* a transition that takes its tokens, or finds that another one has them, *)
LEMMA StartKept ==
  ASSUME NetInv, NEW x \in Inner, Start(x)
  PROVE  NetInv'
<1>1. TypeOK /\ MarkingOK /\ Pending
  BY Zenon DEF NetInv, TypeOK
<1>2. x \in Nodes /\ Imminent(x) /\ enabled[x] /\ EndStep(x, {})
      /\ UNCHANGED <<list, flag, heard, told>> /\ enabled' = [enabled EXCEPT ![x] = FALSE]
  BY Kinds, Zenon DEF Start
<1> DEFINE has == \A p \in Pres(x) : Weight[x][p] <= tokens[p]
<1>3. \/ /\ has
         /\ tokens' = [p \in Places |-> tokens[p] - Weight[x][p]]
         /\ working' = [working EXCEPT ![x] = TRUE] /\ sigma' = [sigma EXCEPT ![x] = 0]
      \/ sigma' = [sigma EXCEPT ![x] = INF] /\ tokens' = tokens /\ working' = working
  BY Zenon DEF Start
<1>4. PICK s \in {0, INF} : sigma' = [sigma EXCEPT ![x] = s]
  BY <1>3, Zenon
<1>5. sigma' \in [Nodes -> 0 .. INF] /\ \A m \in Nodes : m \notin {} \cup {x} => sigma'[m] = sigma[m]
  BY <1>1, <1>2, <1>4, Numbers DEF TypeOK
<1>6. \A q \in Places : flag'[q] = 4 => sigma'[q] = 0 /\ (q \in {} \cup {x} \/ flag[q] = 4)
  BY <1>1, <1>2, <1>5, Kinds, Zenon DEF Pending
<1>7. /\ order' = order /\ delay' = delay /\ now' \in 0 .. Tf
      /\ tl' \in [Nodes -> 0 .. Tf] /\ key' \in [DOMAIN order' -> Nat] /\ tc' = First(key')
      /\ OnTime' /\ Pending' /\ KeysRight'
  <2>1. {} \in SUBSET Nodes
    OBVIOUS
  <2>2. \A y \in Inner : y \notin {} \cup {x} =>
           \A p \in Pres(y) : flag[p] = 4 => flag'[p] = 4
    BY <1>2, Zenon
  <2> QED
    BY <1>2, <1>5, <1>6, <2>1, <2>2, EndStepKept, Zenon
<1>8. tokens' \in [Places -> Nat]
  <2>1. CASE tokens' = [p \in Places |-> tokens[p] - Weight[x][p]] /\ has
    <3>1. ASSUME NEW p \in Places
          PROVE  tokens[p] - Weight[x][p] \in Nat
      <4>1. Weight[x][p] \in Nat /\ (p \in Pres(x) <=> Weight[x][p] > 0) /\ tokens[p] \in Nat
        BY <1>1, Inputs DEF MarkingOK
      <4>2. p \in Pres(x) => Weight[x][p] <= tokens[p]
        BY <2>1, Zenon
      <4> QED
        BY <4>1, <4>2
    <3> QED
      BY <2>1, <3>1
  <2>2. CASE tokens' = tokens
    BY <1>1, <2>2, Zenon DEF MarkingOK
  <2> QED
    BY <1>3, <2>1, <2>2, Zenon
<1>9. enabled' \in [Inner -> BOOLEAN] /\ working' \in [Inner -> BOOLEAN]
      /\ ~enabled'[x] /\ \A y \in Inner : y # x => ~working'[y]
  <2>1. enabled \in [Inner -> BOOLEAN] /\ working \in [Inner -> BOOLEAN]
    BY <1>1, Zenon DEF MarkingOK
  <2>2. \A y \in Inner : ~working[y]
    BY <1>2, Resting, Zenon
  <2>3. enabled' \in [Inner -> BOOLEAN] /\ ~enabled'[x]
    BY <1>2, <2>1
  <2>4. CASE working' = working
    BY <2>1, <2>2, <2>3, <2>4, Zenon
  <2>5. CASE working' = [working EXCEPT ![x] = TRUE]
    <3>1. working' \in [Inner -> BOOLEAN]
      BY <2>1, <2>5
    <3>2. \A y \in Inner : y # x => working'[y] = working[y]
      BY <2>1, <2>5
    <3> QED
      BY <2>2, <2>3, <3>1, <3>2, Zenon
  <2> QED
    BY <1>3, <2>4, <2>5, Zenon
<1>10. MarkingOK'
  BY <1>1, <1>2, <1>8, <1>9, Zenon DEF MarkingOK
<1>11. Firing'
  <2> SUFFICES ASSUME working'[x]
               PROVE  order'[tc'] = x /\ sigma'[x] = 0 /\ tl'[x] = now'
    BY <1>9, Zenon DEF Firing
  <2>1. ~working[x]
    BY <1>2, Resting, Zenon
  <2>2. sigma' = [sigma EXCEPT ![x] = 0]
    BY <1>3, <2>1, Zenon
  <2>3. sigma'[x] = 0
    BY <1>1, <1>2, <2>2 DEF TypeOK
  <2>4. tl'[x] = now' /\ key' = [i \in DOMAIN order |-> IF order[i] \in {} \cup {x} THEN Tn(order[i])' ELSE key[i]]
    BY <1>2, Zenon DEF EndStep
  <2>5. tc \in DOMAIN order /\ order[tc] = x /\ now' = Tn(x) /\ key[tc] = Tn(order[tc]) /\ tc = First(key)
    BY <1>1, <1>2, Current, Zenon DEF Imminent, TypeOK
  <2>6. ASSUME NEW i \in DOMAIN order
        PROVE  key'[i] = key[i]
    <3>1. CASE order[i] = x
      <4>1. i = tc
        BY <1>1, <2>5, <3>1, OrderFacts, Zenon DEF TypeOK
      <4>2. key'[i] = Tn(order[i])'
        BY <2>4, <3>1, Zenon
      <4>3. Tn(order[i])' = Plus(now', 0)
        BY <1>7, <2>3, <2>4, <3>1, Zenon DEF Tn
      <4>4. now' \in Nat
        BY <1>7
      <4>5. Plus(now', 0) = now'
        BY <4>4, PlusFacts, Numbers
      <4> QED
        BY <2>5, <4>1, <4>2, <4>3, <4>5, Zenon
    <3>2. CASE order[i] # x
      BY <2>4, <3>2, Zenon
    <3> QED
      BY <3>1, <3>2
  <2>7. key' = key
    <3>1. key \in [DOMAIN order -> Nat] /\ key' \in [DOMAIN order -> Nat]
      BY <1>1, <1>7, Zenon DEF TypeOK
    <3> QED
      BY <2>6, <3>1
  <2>8. tc' = tc
    BY <1>7, <2>5, <2>7, Zenon
  <2> QED
    BY <1>7, <2>3, <2>4, <2>5, <2>8, Zenon
<1> QED
  BY <1>1, <1>5, <1>7, <1>10, <1>11, NetInvFrom, Zenon DEF TypeOK

-----------------------------------------------------------------------------
(* Tokens that come to a place: it keeps what it has yet to announce, and  *)
(* its list has one more for each of them.                                 *)
LEMMA Clock ==
  ASSUME NetInv, NEW x \in Nodes, Imminent(x)
  PROVE  /\ now \in Nat /\ now' \in Nat /\ now <= now' /\ now' <= Tf /\ now' = Tn(x)
         /\ \A n \in Nodes : /\ now' <= Plus(tl[n], sigma[n]) /\ tl[n] \in Nat /\ tl[n] <= now
                             /\ sigma[n] \in 0 .. INF
         /\ \A p \in Places : flag[p] = 4 => now' = now /\ sigma[p] = 0 /\ tl[p] = now
         /\ \A n \in Nodes \ Triggered : delay[n] \in Waits
<1>1. TypeOK /\ Pending
  BY Zenon DEF NetInv
<1>2. order[tc] = x /\ now' = Tn(x) /\ Tn(x) <= Tf
  BY Zenon DEF Imminent
<1>3. \A n \in Nodes : tl[n] <= now
  BY Zenon DEF NetInv, OnTime
<1>4. \A p \in Places : flag[p] = 4 => sigma[p] = 0 /\ tl[p] = now
  BY <1>1, Zenon DEF Pending
<1>5. \A n \in Nodes \ Triggered : delay[n] \in Waits
  BY <1>1 DEF TypeOK
<1>6. \A n \in Nodes : tl[n] \in Nat /\ sigma[n] \in 0 .. INF
  BY <1>1, TnType, Zenon
<1>7. /\ now \in Nat /\ now' \in Nat /\ now <= now'
      /\ \A n \in Nodes : now' <= Tn(n)
      /\ \A p \in Places : flag[p] = 4 => now' = now
  BY <1>2, Current, Zenon
<1> QED
  BY <1>2, <1>3, <1>4, <1>5, <1>6, <1>7, Zenon DEF Tn

LEMMA GivenFacts ==
  ASSUME NetInv, NEW x \in Transitions, Imminent(x)
  PROVE  /\ Given(x) \subseteq Nodes
         /\ \A n \in Given(x) : SigmaWith(n) \in 0 .. INF
         /\ \A p \in Places : flag[p] = 4 => ~(sigma[p] > delay[p]) /\ SigmaWith(p) = 0
         /\ \A p \in Places : /\ Arcs[x][p] \in Nat /\ (p \notin Given(x) => Arcs[x][p] = 0)
                              /\ ListWith(p, x) \in Seq(Waits)
                              /\ Len(ListWith(p, x)) = Len(list[p]) + Arcs[x][p]
         /\ \A p \in Places : /\ Aged(list[p], now' - tl[p]) \in Seq(Waits)
                              /\ Len(Aged(list[p], now' - tl[p])) = Len(list[p])
<1>1. x \in Nodes
  BY Kinds, Zenon
<1>2. /\ now \in Nat /\ now' \in Nat /\ now <= now'
      /\ \A n \in Nodes : /\ now' <= Plus(tl[n], sigma[n]) /\ tl[n] \in Nat /\ tl[n] <= now
                          /\ sigma[n] \in 0 .. INF
      /\ \A p \in Places : flag[p] = 4 => now' = now /\ sigma[p] = 0 /\ tl[p] = now
      /\ \A n \in Nodes \ Triggered : delay[n] \in Waits
  BY <1>1, Clock, Zenon
<1>3. Given(x) \subseteq Nodes /\ \A n \in Given(x) : n \in Places \/ n \in Triggered
  BY Kinds, Zenon DEF Given
<1>4. \A p \in Places : p \in Nodes /\ p \in Nodes \ Triggered
  BY Kinds, Zenon
<1>5. ASSUME NEW p \in Places
      PROVE  /\ SigmaWith(p) \in 0 .. INF
             /\ flag[p] = 4 => ~(sigma[p] > delay[p]) /\ SigmaWith(p) = 0
  <2>1. SigmaWith(p) = IF sigma[p] > delay[p] THEN delay[p] ELSE Minus(sigma[p], now' - tl[p])
    BY Kinds, Zenon DEF SigmaWith
  <2>2. delay[p] \in 0 .. INF
    BY <1>2, <1>4, Numbers DEF Waits
  <2>3. now' <= Plus(tl[p], sigma[p]) /\ tl[p] \in Nat /\ tl[p] <= now' /\ sigma[p] \in 0 .. INF
    BY <1>2, <1>4
  <2>4. Minus(sigma[p], now' - tl[p]) \in 0 .. INF
    BY <1>2, <2>3, Numbers DEF Plus, Minus
  <2>5. SigmaWith(p) \in 0 .. INF
    BY <2>1, <2>2, <2>4, Zenon
  <2>6. ASSUME flag[p] = 4
        PROVE  ~(sigma[p] > delay[p]) /\ SigmaWith(p) = 0
    <3>1. now' = now /\ sigma[p] = 0 /\ tl[p] = now
      BY <1>2, <2>6, Zenon
    <3>2. ~(sigma[p] > delay[p])
      BY <2>2, <3>1, Numbers
    <3>3. Minus(sigma[p], now' - tl[p]) = 0
      BY <1>2, <3>1, Numbers DEF Minus
    <3> QED
      BY <2>1, <3>2, <3>3, Zenon
  <2> QED
    BY <2>5, <2>6
<1>6. ASSUME NEW n \in Given(x)
      PROVE  SigmaWith(n) \in 0 .. INF
  <2>1. CASE n \in Places
    BY <1>5, <2>1
  <2>2. CASE n \in Triggered
    <3>1. SigmaWith(n) = 0
      BY <2>2, Zenon DEF SigmaWith
    <3> QED
      BY <3>1, Numbers
  <2> QED
    BY <1>3, <2>1, <2>2
<1>7. ASSUME NEW p \in Places
      PROVE  /\ Arcs[x][p] \in Nat /\ (p \notin Given(x) => Arcs[x][p] = 0)
             /\ Aged(list[p], now' - tl[p]) \in Seq(Waits)
             /\ Len(Aged(list[p], now' - tl[p])) = Len(list[p])
             /\ ListWith(p, x) \in Seq(Waits)
             /\ Len(ListWith(p, x)) = Len(list[p]) + Arcs[x][p]
  <2>1. Arcs[x][p] \in Nat
    <3>1. Arcs[x] \in [Places \cup Triggered -> Nat]
      BY NetAssumption, Zenon
    <3> QED
      BY <3>1
  <2>2. p \notin Given(x) => Arcs[x][p] = 0
    <3>1. p \notin Given(x) => ~(Arcs[x][p] > 0)
      BY Zenon DEF Given
    <3> QED
      BY <2>1, <3>1
  <2>3. list[p] \in Seq(Waits) /\ now' - tl[p] \in Nat
    <3>1. list[p] \in Seq(Waits)
      BY Zenon DEF NetInv, TypeOK, MarkingOK
    <3>2. tl[p] \in Nat /\ tl[p] <= now
      BY <1>2, <1>4, Zenon
    <3> QED
      BY <1>2, <3>1, <3>2
  <2>4. Aged(list[p], now' - tl[p]) \in Seq(Waits) /\ Len(Aged(list[p], now' - tl[p])) = Len(list[p])
    BY <2>3, AgedType
  <2> DEFINE more == [i \in 1 .. Arcs[x][p] |-> delay[p]]
  <2>5. more \in Seq(Waits) /\ Len(more) = Arcs[x][p]
    <3>1. delay[p] \in Waits
      BY <1>2, <1>4, Zenon
    <3>2. more \in [1 .. Arcs[x][p] -> Waits]
      BY <3>1
    <3> QED
      BY <2>1, <3>2
  <2>6. ListWith(p, x) = Aged(list[p], now' - tl[p]) \o more
    BY Zenon DEF ListWith
  <2> HIDE DEF more
  <2>7. \A a, b \in Seq(Waits) : a \o b \in Seq(Waits) /\ Len(a \o b) = Len(a) + Len(b)
    OBVIOUS
  <2> QED
    BY <2>1, <2>2, <2>4, <2>5, <2>6, <2>7, Zenon
<1> QED
  BY <1>3, <1>5, <1>6, <1>7

(* a source, or a triggered transition, *)
LEMMA EmitKept ==
  ASSUME NetInv, NEW x \in Sources \cup Triggered, Emit(x)
  PROVE  NetInv'
<1>1. TypeOK /\ MarkingOK /\ Pending
  BY Zenon DEF NetInv, TypeOK
<1>2. /\ x \in Nodes /\ x \in Transitions /\ Imminent(x) /\ EndStep(x, Given(x))
      /\ UNCHANGED <<tokens, trans>>
      /\ list' = [p \in Places |-> IF p \in Given(x) THEN ListWith(p, x) ELSE list[p]]
      /\ flag' = [p \in Places |-> IF p \in Given(x) /\ sigma[p] > delay[p] THEN 1 ELSE flag[p]]
      /\ sigma' = [n \in Nodes |->
           IF n = x THEN IF x \in Sources THEN delay[x] ELSE INF
           ELSE IF n \in Given(x) THEN SigmaWith(n) ELSE sigma[n]]
  BY Kinds, Zenon DEF Emit, Transitions
<1>3. /\ Given(x) \in SUBSET Nodes
      /\ \A n \in Given(x) : SigmaWith(n) \in 0 .. INF
      /\ \A p \in Places : flag[p] = 4 => ~(sigma[p] > delay[p]) /\ SigmaWith(p) = 0
      /\ \A p \in Places : ListWith(p, x) \in Seq(Waits)
  BY <1>2, GivenFacts, Zenon
<1>4. sigma' \in [Nodes -> 0 .. INF]
  <2>1. (IF x \in Sources THEN delay[x] ELSE INF) \in 0 .. INF
    <3>1. CASE x \in Sources
      <4>1. x \in Nodes \ Triggered
        BY <3>1, Kinds, Zenon
      <4>2. delay[x] \in Waits
        BY <1>2, <4>1, Clock, Zenon
      <4> QED
        BY <3>1, <4>2, Numbers DEF Waits
    <3>2. CASE x \notin Sources
      BY <3>2, Numbers
    <3> QED
      BY <3>1, <3>2
  <2>2. \A n \in Nodes : sigma[n] \in 0 .. INF
    BY <1>1, TnType, Zenon
  <2>3. \A n \in Nodes : (IF n = x THEN IF x \in Sources THEN delay[x] ELSE INF
           ELSE IF n \in Given(x) THEN SigmaWith(n) ELSE sigma[n]) \in 0 .. INF
    BY <1>3, <2>1, <2>2, Zenon
  <2> QED
    BY <1>2, <2>3
<1>5. \A m \in Nodes : m \notin Given(x) \cup {x} => sigma'[m] = sigma[m]
  BY <1>2, Zenon
<1>6. \A p \in Places : /\ flag[p] = 4 => flag'[p] = 4
                        /\ flag'[p] = 4 => flag[p] = 4 /\ sigma'[p] = 0
  <2> SUFFICES ASSUME NEW p \in Places
               PROVE  /\ flag[p] = 4 => flag'[p] = 4
                      /\ flag'[p] = 4 => flag[p] = 4 /\ sigma'[p] = 0
    BY Zenon
  <2>1. flag'[p] = IF p \in Given(x) /\ sigma[p] > delay[p] THEN 1 ELSE flag[p]
    BY <1>2, Zenon
  <2>2. flag[p] = 4 => flag'[p] = 4
    BY <1>3, <2>1, Zenon
  <2>3. flag'[p] = 4 => flag[p] = 4
    BY <2>1
  <2>4. flag[p] = 4 => sigma'[p] = 0
    <3>1. p \in Nodes /\ p # x
      BY Kinds, Zenon
    <3>2. sigma'[p] = IF p \in Given(x) THEN SigmaWith(p) ELSE sigma[p]
      BY <1>2, <3>1, Zenon
    <3>3. flag[p] = 4 => sigma[p] = 0
      BY <1>1, Zenon DEF Pending
    <3> QED
      BY <1>3, <3>2, <3>3, Zenon
  <2> QED
    BY <2>2, <2>3, <2>4, Zenon
<1>7. /\ order' = order /\ delay' = delay /\ now' \in 0 .. Tf
      /\ tl' \in [Nodes -> 0 .. Tf] /\ key' \in [DOMAIN order' -> Nat] /\ tc' = First(key')
      /\ OnTime' /\ Pending' /\ KeysRight'
  <2>1. \A y \in Inner : y \notin Given(x) \cup {x} =>
           \A p \in Pres(y) : flag[p] = 4 => flag'[p] = 4
    <3>1. \A y \in Inner : \A p \in Pres(y) : p \in Places
      BY Zenon DEF Pres
    <3>2. \A p \in Places : flag[p] = 4 => flag'[p] = 4
      BY <1>6
    <3> QED
      BY <3>1, <3>2, Zenon
  <2>2. \A p \in Places : flag'[p] = 4 => sigma'[p] = 0 /\ (p \in Given(x) \cup {x} \/ flag[p] = 4)
    BY <1>6, Zenon
  <2> QED
    BY <1>2, <1>3, <1>4, <1>5, <2>1, <2>2, EndStepKept, Zenon
<1>8. MarkingOK'
  <2>1. tokens' = tokens /\ enabled' = enabled /\ working' = working /\ heard' = heard /\ told' = told
    BY <1>2, Zenon DEF trans
  <2>2. DOMAIN list' = Places /\ \A p \in Places : list'[p] \in Seq(Waits)
    BY <1>1, <1>2, <1>3, Zenon DEF MarkingOK
  <2>3. flag' \in [Places -> {0, 1, 4}]
    BY <1>1, <1>2 DEF MarkingOK
  <2> QED
    BY <1>1, <2>1, <2>2, <2>3, Zenon DEF MarkingOK
<1>9. Firing'
  <2>1. \A y \in Inner : ~working'[y]
    BY <1>2, Resting, Kinds, Zenon DEF trans
  <2> QED
    BY <2>1, Zenon DEF Firing
<1> QED
  BY <1>1, <1>4, <1>7, <1>8, <1>9, NetInvFrom, Zenon DEF TypeOK

-----------------------------------------------------------------------------
(* The calls in the middle of dint: what the coupling knows after each.    *)
Known == [key : [DOMAIN order -> Nat], tc : DOMAIN order, tn : Nat]

(* The heap after lambda: it has the times of those that received a token. *)
AfterLambda(x, heap) ==
  /\ heap \in [DOMAIN order -> Nat]
  /\ \A i \in DOMAIN order :
       heap[i] = IF order[i] \in Given(x) THEN Plus(now', SigmaWith(order[i])) ELSE key[i]

LEMMA AskType ==
  ASSUME NetInv, NEW x \in Inner, Imminent(x), NEW i \in 1 .. Len(Pre[x]), NEW h \in Known
  PROVE  /\ Ask(x, i, h) \in Known
         /\ \A j \in DOMAIN order :
              Ask(x, i, h).key[j] = IF j = At(Pre[x][i]) THEN now' ELSE h.key[j]
         /\ At(Pre[x][i]) \in DOMAIN order /\ order[At(Pre[x][i])] = Pre[x][i]
<1> DEFINE k == At(Pre[x][i])
           again == h.tn > now' \/ k = h.tc \/ (h.tn = now' /\ k < h.tc)
           first == IF again THEN First(h.key) ELSE h.tc
           tn == IF again THEN TnAsked(x, i, order[first]) ELSE h.tn
<1>1. Ask(x, i, h) = [key |-> [h.key EXCEPT ![k] = now'], tc |-> first, tn |-> tn]
  BY Zenon DEF Ask
<1>2. order \in Orders
  BY Zenon DEF NetInv, TypeOK
<1>3. k \in DOMAIN order /\ order[k] = Pre[x][i]
  <2>1. Pre[x][i] \in Nodes
    BY Inputs, Kinds
  <2> QED
    BY <1>2, <2>1, AtFacts, Zenon
<1>4. h.key \in [DOMAIN order -> Nat] /\ h.tc \in DOMAIN order /\ h.tn \in Nat
  BY DEF Known
<1>5. First(h.key) \in DOMAIN order
  <2>1. DOMAIN order \in SUBSET Nat /\ DOMAIN order # {}
    BY <1>2, OrderFacts
  <2> QED
    BY <1>4, <2>1, FirstFacts, Zenon
<1>6. x \in Nodes /\ x \in Transitions
  BY Kinds, Zenon DEF Transitions
<1>7. now' \in Nat
  BY <1>6, Clock, Zenon
<1>8. \A n \in Nodes : TnAsked(x, i, n) \in Nat
  <2>1. \A n \in Nodes : Tn(n) \in Nat
    BY TnType, Zenon DEF NetInv
  <2>2. \A n \in Given(x) : Plus(now', SigmaWith(n)) \in Nat
    <3>1. \A n \in Given(x) : SigmaWith(n) \in 0 .. INF
      BY <1>6, GivenFacts, Zenon
    <3> QED
      BY <1>7, <3>1, PlusFacts, Zenon
  <2> QED
    BY <1>7, <2>1, <2>2, Zenon DEF TnAsked
<1>9. first \in DOMAIN order
  BY <1>4, <1>5, Zenon
<1>10. tn \in Nat
  <2>1. order[first] \in Nodes
    BY <1>2, <1>9, OrderFacts, Zenon
  <2> QED
    BY <1>4, <1>8, <2>1, Zenon
<1> HIDE DEF k, again, first, tn
<1>11. [h.key EXCEPT ![k] = now'] \in [DOMAIN order -> Nat]
  BY <1>3, <1>4, <1>7
<1>12. \A j \in DOMAIN order : Ask(x, i, h).key[j] = IF j = k THEN now' ELSE h.key[j]
  <2>1. Ask(x, i, h).key = [h.key EXCEPT ![k] = now']
    BY <1>1
  <2> QED
    BY <1>3, <1>4, <2>1
<1>13. Ask(x, i, h) \in Known
  <2> DEFINE g == [h.key EXCEPT ![k] = now']
  <2>1. g \in [DOMAIN order -> Nat]
    BY <1>11
  <2> HIDE DEF g
  <2>2. [key |-> g, tc |-> first, tn |-> tn] \in Known
    BY <1>9, <1>10, <2>1 DEF Known
  <2> QED
    BY <1>1, <2>2 DEF g
<1> QED
  BY <1>3, <1>12, <1>13 DEF k

(* The calls are a function on the places of x that have been called. *)
Calls(x, heap, f) ==
  /\ \A i \in 0 .. Len(Pre[x]) : f[i] \in Known
  /\ f[0] = [key |-> heap, tc |-> tc, tn |-> now']
  /\ \A i \in 1 .. Len(Pre[x]) : f[i] = Ask(x, i, f[i - 1])
  /\ Asked(x, heap) = f[Len(Pre[x])]

LEMMA AskedCalls ==
  ASSUME NetInv, NEW x \in Inner, Imminent(x), NEW heap \in [DOMAIN order -> Nat]
  PROVE  \E f : Calls(x, heap, f)
<1> DEFINE m == Len(Pre[x])
           start == [key |-> heap, tc |-> tc, tn |-> now']
           Eq(f) == f = [i \in 0 .. m |-> IF i = 0 THEN start ELSE Ask(x, i, f[i - 1])]
           G == [i \in Nat |-> [h \in Known |-> IF i + 1 \in 1 .. m THEN Ask(x, i + 1, h) ELSE h]]
<1>1. m \in Nat
  BY Inputs, Zenon
<1>2. start \in Known
  <2>1. x \in Nodes
    BY Kinds, Zenon
  <2>2. tc \in DOMAIN order /\ now' \in Nat
    BY <2>1, Current, Clock, Zenon
  <2> QED
    BY <2>2 DEF Known
<1>3. \A i \in 1 .. m : \A h \in Known : Ask(x, i, h) \in Known
  BY AskType, Zenon
<1> HIDE DEF m, start
<1>4. G \in [Nat -> [Known -> Known]]
  <2>1. \A i \in Nat : \A h \in Known :
          (IF i + 1 \in 1 .. m THEN Ask(x, i + 1, h) ELSE h) \in Known
    BY <1>3, Zenon
  <2> QED
    BY <2>1
<1>5. PICK F : Recurs(F, Known, start, G)
  <2> HIDE DEF G
  <2> QED
    BY <1>2, <1>4, NatRecursion, Zenon
<1>6. F \in [Nat -> Known] /\ F[0] = start /\ \A i \in Nat : F[i + 1] = G[i][F[i]]
  BY <1>5, Zenon DEF Recurs
<1>7. \A i \in 1 .. m : F[i] = Ask(x, i, F[i - 1])
  <2> SUFFICES ASSUME NEW i \in 1 .. m
               PROVE  F[i] = Ask(x, i, F[i - 1])
    OBVIOUS
  <2>1. i - 1 \in Nat /\ (i - 1) + 1 = i
    BY <1>1
  <2>2. F[i] = G[i - 1][F[i - 1]] /\ F[i - 1] \in Known
    BY <1>6, <2>1
  <2>3. \A j \in Nat : \A h \in Known :
          G[j][h] = IF j + 1 \in 1 .. m THEN Ask(x, j + 1, h) ELSE h
    BY Zenon
  <2>4. G[i - 1][F[i - 1]] = IF (i - 1) + 1 \in 1 .. m THEN Ask(x, (i - 1) + 1, F[i - 1]) ELSE F[i - 1]
    BY <2>1, <2>2, <2>3, Zenon
  <2> QED
    BY <2>1, <2>2, <2>4, Zenon
<1> DEFINE g == [i \in 0 .. m |-> F[i]]
<1>8. Eq(g)
  <2>1. \A i \in 0 .. m : F[i] = IF i = 0 THEN start ELSE Ask(x, i, g[i - 1])
    <3> SUFFICES ASSUME NEW i \in 0 .. m, i # 0
                 PROVE  F[i] = Ask(x, i, g[i - 1])
      BY <1>6, Zenon
    <3>1. i \in 1 .. m /\ i - 1 \in 0 .. m
      BY <1>1
    <3>2. g[i - 1] = F[i - 1]
      BY <3>1, Zenon
    <3> QED
      BY <1>7, <3>1, <3>2, Zenon
  <2> QED
    BY <2>1, Zenon
<1> DEFINE f == CHOOSE f : Eq(f)
<1>9. Asked(x, heap) = f[m]
  BY Zenon DEF Asked, m, start
<1>10. Eq(f)
  <2> HIDE DEF Eq, g
  <2> QED
    BY <1>8, Zenon
<1> HIDE DEF f
<1>11. \A i \in 0 .. m : f[i] = IF i = 0 THEN start ELSE Ask(x, i, f[i - 1])
  BY <1>10, Zenon
<1>12. f[0] = start /\ \A i \in 1 .. m : f[i] = Ask(x, i, f[i - 1])
  <2>1. 0 \in 0 .. m /\ \A i \in 1 .. m : i \in 0 .. m /\ i # 0
    BY <1>1
  <2> QED
    BY <1>11, <2>1, Zenon
<1>13. \A i \in 0 .. m : f[i] \in Known
  <2> DEFINE T == {i \in Nat : i \in 0 .. m => f[i] \in Known}
  <2>1. 0 \in T
    BY <1>2, <1>12
  <2>2. ASSUME NEW i \in Nat, i \in T
        PROVE  i + 1 \in T
    <3> SUFFICES ASSUME i + 1 \in 0 .. m
                 PROVE  f[i + 1] \in Known
      OBVIOUS
    <3>1. i \in 0 .. m /\ i + 1 \in 1 .. m /\ (i + 1) - 1 = i
      BY <1>1
    <3>2. f[i] \in Known
      BY <2>2, <3>1
    <3>3. f[i + 1] = Ask(x, i + 1, f[(i + 1) - 1])
      BY <1>12, <3>1, Zenon
    <3> QED
      BY <1>3, <3>1, <3>2, <3>3, Zenon
  <2>3. Nat \subseteq T
    <3> HIDE DEF T
    <3> QED
      BY <2>1, <2>2, InductiveSet
  <2> QED
    BY <2>3
<1>14. Calls(x, heap, f)
  BY <1>9, <1>12, <1>13, Zenon DEF Calls, m, start
<1> QED
  BY <1>14, Zenon

(* transitionChild stays with x, or has been moved to a model before it    *)
(* because one of its places comes before it; the clock stays as it is.    *)
Called(x, i) == {At(Pre[x][l]) : l \in 1 .. i}
Midway(x, heap, i, h) ==
  /\ h \in Known /\ h.tn = now'
  /\ \A j \in DOMAIN order : h.key[j] = IF j \in Called(x, i) THEN now' ELSE heap[j]
  /\ h.tc = tc \/ (h.tc < tc /\ \E j \in Called(x, i) : j < tc)

LEMMA AfterLambdaFacts ==
  ASSUME NetInv, NEW x \in Inner, Imminent(x), NEW heap, AfterLambda(x, heap)
  PROVE  /\ \A i \in DOMAIN order : heap[i] \in Nat /\ now' <= heap[i]
         /\ heap[tc] = now'
         /\ \A p \in Places : flag[p] = 4 => heap[At(p)] = now'
<1>1. x \in Nodes /\ x \in Transitions /\ x \notin Places /\ x \notin Triggered
  BY Kinds, Zenon DEF Transitions
<1>2. /\ now' = Tn(x) /\ order[tc] = x /\ tc \in DOMAIN order /\ key[tc] = Tn(order[tc])
      /\ now' \in Nat
      /\ \A i \in DOMAIN order : key[i] \in Nat /\ Tn(order[tc]) <= key[i]
      /\ \A p \in Places : flag[p] = 4 => Tn(order[tc]) = now
  BY <1>1, Current, Clock, Zenon DEF Imminent
<1>3. \A n \in Given(x) : SigmaWith(n) \in 0 .. INF
  BY <1>1, GivenFacts, Zenon
<1>4. \A n \in Given(x) : Plus(now', SigmaWith(n)) \in Nat /\ now' <= Plus(now', SigmaWith(n))
  BY <1>1, <1>2, <1>3, Clock, PlusFacts, Zenon
<1>5. \A i \in DOMAIN order : heap[i] \in Nat /\ now' <= heap[i]
  BY <1>2, <1>4, Zenon DEF AfterLambda
<1>6. heap[tc] = now'
  <2>1. x \notin Given(x)
    BY <1>1, Zenon DEF Given
  <2> QED
    BY <1>2, <2>1, Zenon DEF AfterLambda
<1>7. ASSUME NEW p \in Places, flag[p] = 4
      PROVE  heap[At(p)] = now'
  <2>1. order \in Orders /\ p \in Nodes
    BY Kinds, Zenon DEF NetInv, TypeOK
  <2>2. At(p) \in DOMAIN order /\ order[At(p)] = p
    BY <2>1, AtFacts, Zenon
  <2>3. CASE p \in Given(x)
    <3>1. heap[At(p)] = Plus(now', SigmaWith(p))
      BY <2>2, <2>3, Zenon DEF AfterLambda
    <3>2. SigmaWith(p) = 0
      BY <1>1, <1>7, GivenFacts, Zenon
    <3>3. Plus(now', 0) = now'
      BY <1>2, Numbers, PlusFacts
    <3> QED
      BY <3>1, <3>2, <3>3, Zenon
  <2>4. CASE p \notin Given(x)
    <3>1. heap[At(p)] = key[At(p)]
      BY <2>2, <2>4, Zenon DEF AfterLambda
    <3>2. ~Stale(At(p))
      BY <2>2, Kinds, Zenon DEF Stale
    <3>3. key[At(p)] = Tn(p)
      BY <2>2, <3>2, Zenon DEF NetInv, KeysRight
    <3>4. now' = now /\ sigma[p] = 0 /\ tl[p] = now
      BY <1>1, <1>7, Clock, Zenon
    <3>5. Tn(p) = Plus(now', 0)
      BY <3>4, Zenon DEF Tn
    <3>6. Plus(now', 0) = now'
      BY <1>2, Numbers, PlusFacts
    <3> QED
      BY <3>1, <3>3, <3>5, <3>6, Zenon
  <2> QED
    BY <2>3, <2>4
<1> QED
  BY <1>5, <1>6, <1>7

LEMMA MidwayStep ==
  ASSUME NetInv, NEW x \in Inner, Imminent(x), NEW heap, AfterLambda(x, heap),
         NEW i \in 0 .. Len(Pre[x]) - 1, NEW h, Midway(x, heap, i, h)
  PROVE  Midway(x, heap, i + 1, Ask(x, i + 1, h))
<1> DEFINE k == At(Pre[x][i + 1])
           again == h.tn > now' \/ k = h.tc \/ (h.tn = now' /\ k < h.tc)
           first == IF again THEN First(h.key) ELSE h.tc
<1>1. /\ h \in Known /\ h.tn = now'
      /\ \A j \in DOMAIN order : h.key[j] = IF j \in Called(x, i) THEN now' ELSE heap[j]
      /\ h.tc = tc \/ (h.tc < tc /\ \E j \in Called(x, i) : j < tc)
  BY Zenon DEF Midway
<1>2. order \in Orders
  BY Zenon DEF NetInv, TypeOK
<1>3. Len(Pre[x]) \in Nat /\ i + 1 \in 1 .. Len(Pre[x]) /\ i \in Nat
  BY Inputs
<1>4. \A l \in 1 .. Len(Pre[x]) :
        /\ Pre[x][l] \in Pres(x) /\ Pre[x][l] \in Places
        /\ At(Pre[x][l]) \in DOMAIN order /\ order[At(Pre[x][l])] = Pre[x][l]
  <2>1. \A l \in 1 .. Len(Pre[x]) : Pre[x][l] \in Pres(x)
    BY Inputs, Zenon
  <2>2. \A p \in Pres(x) : p \in Places /\ p \in Nodes
    BY Kinds, Zenon DEF Pres
  <2> QED
    BY <1>2, <2>1, <2>2, AtFacts, Zenon
<1>5. /\ x \in Nodes /\ x \in Transitions /\ x \notin Places /\ order[tc] = x /\ tc \in DOMAIN order
      /\ now' \in Nat /\ now' = Tn(x) /\ key[tc] = Tn(order[tc])
      /\ \A p \in Places : flag[p] = 4 => now' = now
  BY Kinds, Current, Clock, Zenon DEF Transitions, Imminent
<1>6. /\ k \in DOMAIN order /\ order[k] = Pre[x][i + 1] /\ k # tc
      /\ Ask(x, i + 1, h) \in Known
      /\ \A j \in DOMAIN order : Ask(x, i + 1, h).key[j] = IF j = k THEN now' ELSE h.key[j]
  <2>1. k \in DOMAIN order /\ order[k] = Pre[x][i + 1] /\ order[k] \in Places
    BY <1>3, <1>4, Zenon
  <2>2. k # tc
    BY <1>5, <2>1, Zenon
  <2>3. \A l \in 1 .. Len(Pre[x]) :
          /\ Ask(x, l, h) \in Known
          /\ \A j \in DOMAIN order :
               Ask(x, l, h).key[j] = IF j = At(Pre[x][l]) THEN now' ELSE h.key[j]
    BY <1>1, AskType, ZenonT(30)
  <2> QED
    BY <1>3, <2>1, <2>2, <2>3, Zenon
<1>7. h.key \in [DOMAIN order -> Nat] /\ h.tc \in DOMAIN order
  BY <1>1 DEF Known
<1>8. DOMAIN order \in SUBSET Nat /\ DOMAIN order # {} /\ DOMAIN order = 1 .. Len(order)
  BY <1>2, OrderFacts
<1> DEFINE f1 == First(h.key)
<1>9. /\ f1 \in DOMAIN order
      /\ \A j \in DOMAIN order : h.key[f1] < h.key[j] \/ (h.key[f1] = h.key[j] /\ f1 <= j)
  BY <1>7, <1>8, FirstFacts, Zenon
<1>10. \A j \in DOMAIN order : h.key[j] \in Nat /\ now' <= h.key[j]
  BY <1>1, <1>5, AfterLambdaFacts
<1>11. h.key[tc] = now'
  BY <1>1, <1>5, AfterLambdaFacts, Zenon
<1> HIDE DEF k
<1>12. h.key[f1] = now' /\ f1 <= tc
  <2> HIDE DEF f1
  <2>1. h.key[f1] <= h.key[tc] /\ h.key[f1] \in Nat /\ now' <= h.key[f1]
    BY <1>5, <1>7, <1>9, <1>10
  <2>2. h.key[f1] = now'
    BY <1>5, <1>11, <2>1
  <2> QED
    BY <1>5, <1>9, <1>11, <2>2
<1>13. TnAsked(x, i + 1, order[f1]) = now'
  <2> HIDE DEF f1
  <2>1. CASE order[f1] = x
    BY <2>1, Zenon DEF TnAsked
  <2>2. CASE f1 \in Called(x, i)
    <3>1. PICK l \in 1 .. i : f1 = At(Pre[x][l])
      BY <2>2, Zenon DEF Called
    <3>2. l \in 1 .. Len(Pre[x]) /\ l \in 1 .. i + 1
      BY <1>3, <3>1
    <3>3. order[f1] = Pre[x][l]
      BY <1>4, <3>1, <3>2, Zenon
    <3> QED
      BY <3>2, <3>3, Zenon DEF TnAsked
  <2>3. CASE order[f1] # x /\ f1 \notin Called(x, i)
    <3>1. heap[f1] = now'
      BY <1>1, <1>9, <1>12, <2>3, Zenon
    <3>2. heap[f1] = IF order[f1] \in Given(x) THEN Plus(now', SigmaWith(order[f1])) ELSE key[f1]
      BY <1>9, Zenon DEF AfterLambda
    <3>3. CASE order[f1] \in Given(x)
      BY <3>1, <3>2, <3>3, Zenon DEF TnAsked
    <3>4. CASE order[f1] \notin Given(x)
      <4>1. key[f1] = now'
        BY <3>1, <3>2, <3>4, Zenon
      <4>2. ~Stale(f1)
        <5> SUFFICES ASSUME Stale(f1)
                     PROVE  FALSE
          OBVIOUS
        <5>1. PICK j \in DOMAIN order : j < f1 /\ order[j] \in Pres(order[f1]) /\ flag[order[j]] = 4
          BY Zenon DEF Stale
        <5>2. order[j] \in Places
          BY <5>1, Zenon DEF Pres
        <5>3. At(order[j]) = j
          <6>1. order[j] \in Nodes
            BY <5>2, Kinds, Zenon
          <6>2. At(order[j]) \in DOMAIN order /\ order[At(order[j])] = order[j]
            BY <1>2, <6>1, AtFacts, Zenon
          <6> QED
            BY <1>2, <5>1, <6>2, OrderFacts, Zenon
        <5>4. heap[j] = now'
          BY <5>1, <5>2, <5>3, AfterLambdaFacts, Zenon
        <5>5. h.key[j] = now'
          BY <1>1, <5>1, <5>4, Zenon
        <5>6. j \in Nat /\ f1 \in Nat
          BY <1>8, <1>9, <5>1
        <5> QED
          BY <1>9, <1>12, <5>1, <5>5, <5>6, <1>5
      <4>3. Tn(order[f1]) = now'
        BY <1>9, <4>1, <4>2, Zenon DEF NetInv, KeysRight
      <4> QED
        BY <3>4, <4>3, Zenon DEF TnAsked
    <3> QED
      BY <3>3, <3>4
  <2> QED
    BY <2>1, <2>2, <2>3
<1>14. Called(x, i + 1) = Called(x, i) \cup {k}
  <2>1. 1 .. i + 1 = (1 .. i) \cup {i + 1}
    BY <1>3
  <2> QED
    BY <2>1, Zenon DEF Called, k
<1>15. \A j \in DOMAIN order : Ask(x, i + 1, h).key[j] = IF j \in Called(x, i + 1) THEN now' ELSE heap[j]
  <2> SUFFICES ASSUME NEW j \in DOMAIN order
               PROVE  Ask(x, i + 1, h).key[j] = IF j \in Called(x, i + 1) THEN now' ELSE heap[j]
    BY Zenon
  <2>1. CASE j = k
    <3>1. Ask(x, i + 1, h).key[j] = now'
      BY <1>6, <2>1, Zenon
    <3> QED
      BY <1>14, <2>1, <3>1, Zenon
  <2>2. CASE j # k
    <3>1. Ask(x, i + 1, h).key[j] = h.key[j]
      BY <1>6, <2>2, Zenon
    <3>2. j \in Called(x, i + 1) <=> j \in Called(x, i)
      BY <1>14, <2>2, Zenon
    <3> QED
      BY <1>1, <3>1, <3>2, Zenon
  <2> QED
    BY <2>1, <2>2
<1>16. /\ Ask(x, i + 1, h).tc = first
       /\ Ask(x, i + 1, h).tn = IF again THEN TnAsked(x, i + 1, order[first]) ELSE h.tn
  BY DEF Ask, k
<1>17. CASE again
  <2>1. first = f1
    BY <1>17, Zenon
  <2>2. Ask(x, i + 1, h).tn = now' /\ Ask(x, i + 1, h).tc = f1
    BY <1>13, <1>16, <1>17, <2>1, Zenon
  <2>3. k < tc
    <3>1. k \in Nat /\ tc \in Nat /\ h.tc \in Nat /\ h.tc <= tc
      <4>1. k \in Nat /\ tc \in Nat /\ h.tc \in Nat
        BY <1>5, <1>6, <1>7, <1>8
      <4> QED
        BY <1>1, <4>1
    <3>2. k = h.tc \/ k < h.tc
      BY <1>1, <1>5, <1>17
    <3> QED
      BY <1>6, <3>1, <3>2
  <2>4. f1 = tc \/ (f1 < tc /\ \E j \in Called(x, i + 1) : j < tc)
    <3>1. f1 = tc \/ f1 < tc
      BY <1>5, <1>8, <1>9, <1>12
    <3>2. k \in Called(x, i + 1)
      BY <1>14, Zenon
    <3> QED
      BY <2>3, <3>1, <3>2, Zenon
  <2> QED
    BY <1>6, <1>15, <2>2, <2>4, Zenon DEF Midway
<1>18. CASE ~again
  <2>1. Ask(x, i + 1, h).tn = now' /\ Ask(x, i + 1, h).tc = h.tc
    BY <1>1, <1>16, <1>18, Zenon
  <2>2. h.tc = tc \/ (h.tc < tc /\ \E j \in Called(x, i + 1) : j < tc)
    BY <1>1, <1>14, Zenon
  <2> QED
    BY <1>6, <1>15, <2>1, <2>2, Zenon DEF Midway
<1> QED
  BY <1>17, <1>18

LEMMA AskedRight ==
  ASSUME NetInv, NEW x \in Inner, Imminent(x), NEW heap, AfterLambda(x, heap)
  PROVE  /\ Midway(x, heap, Len(Pre[x]), Asked(x, heap))
         /\ \A j \in DOMAIN order : j \in Called(x, Len(Pre[x])) <=> order[j] \in Pres(x)
<1> DEFINE m == Len(Pre[x])
<1>1. m \in Nat
  BY Inputs, Zenon
<1>2. heap \in [DOMAIN order -> Nat]
  BY Zenon DEF AfterLambda
<1>3. PICK f : Calls(x, heap, f)
  BY <1>2, AskedCalls, Zenon
<1>4. /\ \A i \in 0 .. m : f[i] \in Known
      /\ f[0] = [key |-> heap, tc |-> tc, tn |-> now']
      /\ \A i \in 1 .. m : f[i] = Ask(x, i, f[i - 1])
      /\ Asked(x, heap) = f[m]
  BY <1>3, Zenon DEF Calls
<1> DEFINE T == {i \in Nat : i <= m => Midway(x, heap, i, f[i])}
<1>5. 0 \in T
  <2>1. f[0] \in Known
    BY <1>1, <1>4
  <2>2. f[0].tn = now' /\ f[0].key = heap /\ f[0].tc = tc
    BY <1>4
  <2>3. Called(x, 0) = {}
    BY DEF Called
  <2>4. Midway(x, heap, 0, f[0])
    BY <2>1, <2>2, <2>3, Zenon DEF Midway
  <2> QED
    BY <2>4
<1>6. ASSUME NEW i \in Nat, i \in T
      PROVE  i + 1 \in T
  <2> SUFFICES ASSUME i + 1 <= m
               PROVE  Midway(x, heap, i + 1, f[i + 1])
    OBVIOUS
  <2>1. i <= m /\ i \in 0 .. m - 1 /\ i + 1 \in 1 .. m /\ (i + 1) - 1 = i
    BY <1>1
  <2>2. Midway(x, heap, i, f[i])
    BY <1>6, <2>1
  <2>3. Midway(x, heap, i + 1, Ask(x, i + 1, f[i]))
    BY <2>1, <2>2, MidwayStep, Zenon
  <2>4. f[i + 1] = Ask(x, i + 1, f[(i + 1) - 1])
    BY <1>4, <2>1, Zenon
  <2> QED
    BY <2>1, <2>3, <2>4, Zenon
<1>7. Nat \subseteq T
  <2> HIDE DEF T
  <2> QED
    BY <1>5, <1>6, InductiveSet
<1>8. Midway(x, heap, m, f[m])
  BY <1>1, <1>7
<1>9. ASSUME NEW j \in DOMAIN order
      PROVE  j \in Called(x, m) <=> order[j] \in Pres(x)
  <2>1. order \in Orders
    BY Zenon DEF NetInv, TypeOK
  <2>2. \A l \in 1 .. m : Pre[x][l] \in Pres(x) /\ At(Pre[x][l]) \in DOMAIN order
                          /\ order[At(Pre[x][l])] = Pre[x][l]
    <3>1. \A l \in 1 .. m : Pre[x][l] \in Pres(x)
      BY Inputs, Zenon
    <3>2. \A p \in Pres(x) : p \in Nodes
      BY Kinds, Zenon DEF Pres
    <3> QED
      BY <2>1, <3>1, <3>2, AtFacts, Zenon
  <2>3. ASSUME j \in Called(x, m)
        PROVE  order[j] \in Pres(x)
    BY <2>2, <2>3, Zenon DEF Called
  <2>4. ASSUME order[j] \in Pres(x)
        PROVE  j \in Called(x, m)
    <3>1. PICK l \in 1 .. m : Pre[x][l] = order[j]
      BY <2>4, Inputs, Zenon
    <3>2. At(Pre[x][l]) = j
      BY <2>1, <2>2, <3>1, OrderFacts, Zenon
    <3> QED
      BY <3>2, Zenon DEF Called
  <2> QED
    BY <2>3, <2>4
<1> QED
  BY <1>4, <1>8, <1>9, Zenon

(* and a transition that sends its tokens and calls its places. *)
LEMMA FinishKept ==
  ASSUME NetInv, NEW x \in Inner, Finish(x)
  PROVE  NetInv'
<1> DEFINE heap == [i \in DOMAIN order |->
                      IF order[i] \in Given(x) THEN Plus(now', SigmaWith(order[i])) ELSE key[i]]
           last == Asked(x, heap)
           n    == order[last.tc]
           S    == {x} \cup Given(x) \cup Pres(x)
<1>1. TypeOK /\ MarkingOK /\ Pending /\ order \in Orders
  BY Zenon DEF NetInv, TypeOK
<1>2. /\ x \in Nodes /\ x \in Transitions /\ x \notin Places /\ x \notin Triggered
      /\ Imminent(x) /\ ~enabled[x]
      /\ UNCHANGED <<model, tokens, enabled, heard, told>>
      /\ working' = [working EXCEPT ![x] = FALSE] /\ tc' = First(key')
  BY Kinds, Zenon DEF Finish, Transitions
<1>3. /\ list' = [p \in Places |->
           IF p \in Given(x) THEN ListWith(p, x)
           ELSE IF p \in Pres(x) THEN Aged(list[p], now' - tl[p]) ELSE list[p]]
      /\ flag' = [p \in Places |->
           IF p \in Pres(x) THEN 4
           ELSE IF p \in Given(x) /\ sigma[p] > delay[p] THEN 1 ELSE flag[p]]
      /\ sigma' = [m \in Nodes |->
           IF m = x THEN INF
           ELSE IF m \in Pres(x) THEN 0
           ELSE IF m \in Given(x) THEN SigmaWith(m) ELSE sigma[m]]
      /\ tl' = [m \in Nodes |-> IF m = x \/ m \in Given(x) \cup Pres(x) THEN now' ELSE tl[m]]
      /\ key' = [last.key EXCEPT ![last.tc] = Plus(tl'[n], sigma'[n])]
  BY Zenon DEF Finish
<1>4. order' = order /\ delay' = delay
  BY <1>2, Zenon DEF model
<1>5. /\ \A m \in Given(x) : SigmaWith(m) \in 0 .. INF /\ m \in Nodes
      /\ \A p \in Places : flag[p] = 4 => ~(sigma[p] > delay[p]) /\ SigmaWith(p) = 0
      /\ \A p \in Places : ListWith(p, x) \in Seq(Waits)
      /\ \A p \in Places : Aged(list[p], now' - tl[p]) \in Seq(Waits)
  BY <1>2, GivenFacts, Zenon
<1>6. /\ now \in Nat /\ now' \in Nat /\ now <= now' /\ now' <= Tf
      /\ \A m \in Nodes : /\ now' <= Plus(tl[m], sigma[m]) /\ tl[m] \in Nat /\ tl[m] <= now
                          /\ sigma[m] \in 0 .. INF
      /\ \A p \in Places : flag[p] = 4 => now' = now /\ sigma[p] = 0 /\ tl[p] = now
  BY <1>2, Clock, Zenon
<1>7. \A p \in Pres(x) : p \in Places /\ p \in Nodes /\ p # x
  BY <1>2, Kinds, Zenon DEF Pres
<1>8. x \notin Given(x) /\ x \notin Pres(x)
  BY <1>2, Zenon DEF Given, Pres
<1>9. /\ sigma'[x] = INF /\ \A m \in Pres(x) : sigma'[m] = 0
      /\ \A m \in Given(x) : m \notin Pres(x) => sigma'[m] = SigmaWith(m)
      /\ \A m \in Nodes : m \notin S => sigma'[m] = sigma[m] /\ tl'[m] = tl[m]
      /\ \A m \in S : tl'[m] = now' /\ m \in Nodes
  BY <1>2, <1>3, <1>5, <1>7, <1>8, Zenon
<1>10. sigma' \in [Nodes -> 0 .. INF]
  <2>1. 0 \in 0 .. INF /\ INF \in 0 .. INF
    BY Numbers
  <2>2. \A m \in Nodes : (IF m = x THEN INF
           ELSE IF m \in Pres(x) THEN 0
           ELSE IF m \in Given(x) THEN SigmaWith(m) ELSE sigma[m]) \in 0 .. INF
    BY <1>5, <1>6, <2>1, Zenon
  <2> QED
    BY <1>3, <2>2
<1>11. tl' \in [Nodes -> 0 .. Tf]
  <2>1. \A m \in Nodes : tl[m] \in 0 .. Tf
    BY <1>1 DEF TypeOK
  <2>2. now' \in 0 .. Tf
    BY <1>6, Numbers
  <2> QED
    BY <1>3, <2>1, <2>2
<1>12. \A p \in Places : /\ p \in Pres(x) => flag'[p] = 4
                         /\ flag[p] = 4 => flag'[p] = 4
                         /\ flag'[p] = 4 => p \in Pres(x) \/ flag[p] = 4
                         /\ flag'[p] \in {0, 1, 4}
  <2> SUFFICES ASSUME NEW p \in Places
               PROVE  /\ p \in Pres(x) => flag'[p] = 4
                      /\ flag[p] = 4 => flag'[p] = 4
                      /\ flag'[p] = 4 => p \in Pres(x) \/ flag[p] = 4
                      /\ flag'[p] \in {0, 1, 4}
    BY Zenon
  <2>1. flag'[p] = IF p \in Pres(x) THEN 4
                   ELSE IF p \in Given(x) /\ sigma[p] > delay[p] THEN 1 ELSE flag[p]
    BY <1>3, Zenon
  <2>2. flag[p] = 4 => ~(sigma[p] > delay[p])
    BY <1>5, Zenon
  <2>3. flag[p] \in {0, 1, 4}
    BY <1>1 DEF MarkingOK
  <2> QED
    BY <2>1, <2>2, <2>3
<1> HIDE DEF S
<1>13. Pending'
  <2> SUFFICES ASSUME NEW p \in Places, flag'[p] = 4
               PROVE  sigma'[p] = 0 /\ tl'[p] = now'
    BY Zenon DEF Pending
  <2>1. p \in Nodes /\ p # x
    BY <1>2, Kinds, Zenon
  <2>2. CASE p \in Pres(x)
    BY <1>9, <2>2, Zenon DEF S
  <2>3. CASE p \notin Pres(x)
    <3>1. flag[p] = 4 /\ sigma[p] = 0 /\ tl[p] = now /\ now' = now
      BY <1>6, <1>12, <2>3, Zenon
    <3>2. CASE p \in Given(x)
      BY <1>5, <1>9, <2>3, <3>1, <3>2, Zenon DEF S
    <3>3. CASE p \notin Given(x)
      BY <1>9, <2>1, <2>3, <3>1, <3>3, Zenon DEF S
    <3> QED
      BY <3>2, <3>3
  <2> QED
    BY <2>2, <2>3
<1>14. \A m \in Nodes : Tn(m)' = Plus(tl'[m], sigma'[m])
  BY Zenon DEF Tn
<1>15. OnTime'
  <2> SUFFICES ASSUME NEW m \in Nodes
               PROVE  tl'[m] <= now' /\ now' <= Tn(m)'
    BY Zenon DEF OnTime
  <2>1. sigma'[m] \in 0 .. INF
    BY <1>10
  <2>2. CASE m \in S
    <3>1. tl'[m] = now' /\ Tn(m)' = Plus(now', sigma'[m])
      BY <1>9, <1>14, <2>2, Zenon
    <3>2. now' <= Plus(now', sigma'[m])
      BY <1>6, <2>1, PlusFacts, Zenon
    <3> QED
      BY <1>6, <3>1, <3>2
  <2>3. CASE m \notin S
    <3>1. tl'[m] = tl[m] /\ Tn(m)' = Plus(tl[m], sigma[m])
      BY <1>9, <1>14, <2>3, Zenon
    <3> QED
      BY <1>6, <3>1
  <2> QED
    BY <2>2, <2>3
<1>16. /\ tc \in DOMAIN order /\ order[tc] = x /\ now' = Tn(x) /\ key[tc] = Tn(order[tc])
       /\ \A i \in DOMAIN order : key[i] \in Nat /\ order[i] \in Nodes
  BY <1>1, <1>2, Current, OrderFacts, Zenon DEF Imminent
<1>17. AfterLambda(x, heap)
  <2>1. \A i \in DOMAIN order :
          (IF order[i] \in Given(x) THEN Plus(now', SigmaWith(order[i])) ELSE key[i]) \in Nat
    <3>1. \A m \in Given(x) : Plus(now', SigmaWith(m)) \in Nat
      BY <1>5, <1>6, PlusFacts, Zenon
    <3> QED
      BY <1>16, <3>1, Zenon
  <2>2. heap \in [DOMAIN order -> Nat]
    BY <2>1
  <2> QED
    BY <2>2, Zenon DEF AfterLambda
<1>18. heap[tc] = now'
  BY <1>2, <1>17, AfterLambdaFacts, Zenon
<1>19. \A i \in DOMAIN order :
         heap[i] = IF order[i] \in Given(x) THEN Plus(now', SigmaWith(order[i])) ELSE key[i]
  BY Zenon
<1> HIDE DEF heap
<1>20. /\ last \in Known
       /\ \A j \in DOMAIN order : last.key[j] = IF order[j] \in Pres(x) THEN now' ELSE heap[j]
       /\ last.tc = tc \/ \E j \in DOMAIN order : order[j] \in Pres(x) /\ j < tc
  <2>1. Midway(x, heap, Len(Pre[x]), last)
    BY <1>2, <1>17, AskedRight, Zenon
  <2>2. \A j \in DOMAIN order : j \in Called(x, Len(Pre[x])) <=> order[j] \in Pres(x)
    BY <1>2, <1>17, AskedRight, Zenon
  <2>3. \A j \in Called(x, Len(Pre[x])) : j \in DOMAIN order
    <3>1. \A l \in 1 .. Len(Pre[x]) : Pre[x][l] \in Pres(x)
      BY Inputs, Zenon
    <3>2. \A l \in 1 .. Len(Pre[x]) : At(Pre[x][l]) \in DOMAIN order
      BY <1>1, <1>7, <3>1, AtFacts, Zenon
    <3> QED
      BY <3>2, Zenon DEF Called
  <2> QED
    BY <2>1, <2>2, <2>3, Zenon DEF Midway
<1> HIDE DEF last
<1>21. last.key \in [DOMAIN order -> Nat] /\ last.tc \in DOMAIN order /\ n \in Nodes
  <2>1. last.key \in [DOMAIN order -> Nat] /\ last.tc \in DOMAIN order
    BY <1>20 DEF Known
  <2> QED
    BY <1>16, <2>1, Zenon
<1>22. Plus(tl'[n], sigma'[n]) \in Nat
  BY <1>10, <1>11, <1>21, PlusFacts, Numbers
<1>23. key' \in [DOMAIN order' -> Nat]
  BY <1>3, <1>4, <1>21, <1>22
<1>24. /\ key'[last.tc] = Plus(tl'[n], sigma'[n])
       /\ \A j \in DOMAIN order : j # last.tc => key'[j] = last.key[j]
  BY <1>3, <1>21
<1>25. KeysRight'
  <2> SUFFICES ASSUME NEW i \in DOMAIN order
               PROVE  key'[i] = Tn(order[i])' \/ Stale(i)'
    BY <1>4, Zenon DEF KeysRight
  <2>1. order[i] \in Nodes /\ Tn(order[i])' = Plus(tl'[order[i]], sigma'[order[i]])
    BY <1>4, <1>16, Zenon DEF Tn
  <2>2. CASE i = last.tc
    BY <1>24, <2>1, <2>2, Zenon
  <2>3. CASE i # last.tc /\ order[i] \in Pres(x)
    <3>1. key'[i] = now'
      BY <1>20, <1>24, <2>3, Zenon
    <3>2. tl'[order[i]] = now' /\ sigma'[order[i]] = 0
      BY <1>9, <2>3, Zenon DEF S
    <3>3. Plus(now', 0) = now'
      BY <1>6, Numbers, PlusFacts
    <3> QED
      BY <2>1, <3>1, <3>2, <3>3, Zenon
  <2>4. CASE i # last.tc /\ order[i] = x
    <3>1. i = tc
      BY <1>1, <1>16, <2>4, OrderFacts, Zenon
    <3>2. key'[i] = now'
      BY <1>8, <1>18, <1>20, <1>24, <2>4, <3>1, Zenon
    <3>3. PICK j \in DOMAIN order : order[j] \in Pres(x) /\ j < tc
      BY <1>20, <2>4, <3>1, Zenon
    <3>4. flag'[order[j]] = 4
      BY <1>7, <1>12, <3>3, Zenon
    <3>5. Pres(order[i])' = Pres(x)
      BY <1>4, <2>4, Zenon DEF Pres
    <3> QED
      BY <1>4, <1>9, <2>4, <3>1, <3>2, <3>3, <3>4, <3>5, Zenon DEF Stale
  <2>5. CASE i # last.tc /\ order[i] \notin Pres(x) /\ order[i] # x /\ order[i] \in Given(x)
    <3>1. key'[i] = Plus(now', SigmaWith(order[i]))
      BY <1>19, <1>20, <1>24, <2>5, Zenon
    <3>2. tl'[order[i]] = now' /\ sigma'[order[i]] = SigmaWith(order[i])
      BY <1>9, <2>5, Zenon DEF S
    <3> QED
      BY <2>1, <3>1, <3>2, Zenon
  <2>6. CASE i # last.tc /\ order[i] \notin Pres(x) /\ order[i] # x /\ order[i] \notin Given(x)
    <3>1. key'[i] = key[i]
      BY <1>19, <1>20, <1>24, <2>6, Zenon
    <3>2. tl'[order[i]] = tl[order[i]] /\ sigma'[order[i]] = sigma[order[i]]
      BY <1>9, <2>1, <2>6, Zenon DEF S
    <3>3. CASE key[i] = Tn(order[i])
      BY <2>1, <3>1, <3>2, <3>3, Zenon DEF Tn
    <3>4. CASE Stale(i)
      <4>1. order[i] \in Inner /\ sigma[order[i]] = INF /\ key[i] = now
        BY <3>4, Zenon DEF Stale
      <4>2. PICK j \in DOMAIN order : j < i /\ order[j] \in Pres(order[i]) /\ flag[order[j]] = 4
        BY <3>4, Zenon DEF Stale
      <4>3. order[j] \in Places
        BY <4>2, Zenon DEF Pres
      <4>4. now' = now /\ flag'[order[j]] = 4
        BY <1>6, <1>12, <4>2, <4>3, Zenon
      <4>5. Pres(order[i])' = Pres(order[i])
        BY <1>4, Zenon DEF Pres
      <4> QED
        BY <1>4, <3>1, <3>2, <4>1, <4>2, <4>4, <4>5, Zenon DEF Stale
    <3> QED
      BY <3>3, <3>4, Zenon DEF NetInv, KeysRight
  <2> QED
    BY <2>2, <2>3, <2>4, <2>5, <2>6, Zenon
<1>26. MarkingOK'
  <2>1. tokens' = tokens /\ enabled' = enabled /\ heard' = heard /\ told' = told
    BY <1>2, Zenon
  <2>2. DOMAIN list' = Places /\ \A p \in Places : list'[p] \in Seq(Waits)
    BY <1>1, <1>3, <1>5, Zenon DEF MarkingOK
  <2>3. flag' \in [Places -> {0, 1, 4}]
    BY <1>3, <1>12
  <2>4. working' \in [Inner -> BOOLEAN]
    BY <1>1, <1>2 DEF MarkingOK
  <2> QED
    BY <1>1, <2>1, <2>2, <2>3, <2>4, Zenon DEF MarkingOK
<1>27. Firing'
  <2>1. \A y \in Inner : ~working'[y]
    <3>1. working \in [Inner -> BOOLEAN]
      BY <1>1, Zenon DEF MarkingOK
    <3>2. ~working'[x] /\ \A y \in Inner : y # x => working'[y] = working[y]
      BY <1>2, <3>1
    <3>3. \A y \in Inner : y # x => ~working[y]
      BY <1>2, Resting, Zenon
    <3> QED
      BY <3>2, <3>3, Zenon
  <2> QED
    BY <2>1, Zenon DEF Firing
<1>28. now' \in 0 .. Tf
  BY <1>6, Numbers
<1> QED
  BY <1>1, <1>2, <1>4, <1>10, <1>11, <1>13, <1>15, <1>23, <1>25, <1>26, <1>27, <1>28, NetInvFrom,
     Zenon DEF TypeOK

-----------------------------------------------------------------------------
(* NetInv holds at the beginning and is kept by every step. *)
LEMMA NetInvInit ==
  ASSUME Init
  PROVE  NetInv
<1>1. /\ order \in Orders /\ delay \in [Nodes \ Triggered -> Delays] /\ now = 0
      /\ tokens = [p \in Places |-> 0]
      /\ flag = [p \in Places |-> IF list[p] # <<>> THEN 1 ELSE 0]
      /\ enabled = [x \in Inner |-> FALSE] /\ working = [x \in Inner |-> FALSE]
      /\ heard = [x \in Inner |-> {}]
      /\ told = [x \in Inner |-> [p \in Pres(x) |-> 0]]
      /\ sigma = [n \in Nodes |->
           IF (n \in Places /\ list[n] # <<>>) \/ n \in Sources THEN delay[n] ELSE INF]
      /\ tl = [n \in Nodes |-> 0]
      /\ key = [i \in DOMAIN order |-> Tn(order[i])] /\ tc = First(key)
  BY Zenon DEF Init
<1>2. PICK m \in [Places -> Marks] : list = [p \in Places |-> [i \in 1 .. m[p] |-> delay[p]]]
  BY Zenon DEF Init
<1>3. \A n \in Nodes \ Triggered : delay[n] \in Waits
  <2>1. \A n \in Nodes \ Triggered : delay[n] \in Delays
    BY <1>1
  <2> QED
    BY <2>1, Numbers DEF Waits
<1>4. delay \in [Nodes \ Triggered -> Waits]
  BY <1>1, <1>3
<1>5. DOMAIN list = Places /\ \A p \in Places : list[p] \in Seq(Waits)
  <2>1. DOMAIN list = Places /\ \A p \in Places : list[p] = [i \in 1 .. m[p] |-> delay[p]]
    BY <1>2, Zenon
  <2>2. ASSUME NEW p \in Places
        PROVE  list[p] \in Seq(Waits)
    <3>1. delay[p] \in Waits
      <4>1. p \in Nodes \ Triggered
        BY Kinds, Zenon
      <4> QED
        BY <1>3, <4>1, Zenon
    <3>2. m[p] \in Nat
      BY Numbers
    <3>3. [i \in 1 .. m[p] |-> delay[p]] \in [1 .. m[p] -> Waits]
      BY <3>1
    <3>4. [i \in 1 .. m[p] |-> delay[p]] \in Seq(Waits)
      BY <3>2, <3>3
    <3> QED
      BY <2>1, <3>4, Zenon
  <2> QED
    BY <2>1, <2>2
<1>6. MarkingOK
  <2>1. tokens \in [Places -> Nat]
    BY <1>1
  <2>2. flag \in [Places -> {0, 1, 4}]
    BY <1>1
  <2>3. enabled \in [Inner -> BOOLEAN] /\ working \in [Inner -> BOOLEAN]
    BY <1>1
  <2>4. DOMAIN heard = Inner /\ \A x \in Inner : heard[x] \subseteq Pres(x)
    BY <1>1
  <2>5. DOMAIN told = Inner /\ \A x \in Inner : told[x] \in [Pres(x) -> Nat]
    <3>1. DOMAIN told = Inner /\ \A x \in Inner : told[x] = [p \in Pres(x) |-> 0]
      BY <1>1, Zenon
    <3>2. \A x \in Inner : [p \in Pres(x) |-> 0] \in [Pres(x) -> Nat]
      OBVIOUS
    <3> QED
      BY <3>1, <3>2, Zenon
  <2> QED
    BY <1>5, <2>1, <2>2, <2>3, <2>4, <2>5 DEF MarkingOK
<1>7. sigma \in [Nodes -> 0 .. INF] /\ tl \in [Nodes -> 0 .. Tf] /\ now \in 0 .. Tf
  <2>1. ASSUME NEW n \in Nodes
        PROVE  (IF (n \in Places /\ list[n] # <<>>) \/ n \in Sources THEN delay[n] ELSE INF) \in 0 .. INF
    <3>1. CASE n \in Places \/ n \in Sources
      <4>1. n \in Nodes \ Triggered
        BY <3>1, Kinds, Zenon
      <4>2. delay[n] \in Waits
        BY <1>3, <4>1, Zenon
      <4> QED
        BY <4>2, Numbers DEF Waits
    <3>2. CASE ~(n \in Places \/ n \in Sources)
      BY <3>2, Numbers
    <3> QED
      BY <3>1, <3>2
  <2>2. sigma \in [Nodes -> 0 .. INF]
    BY <1>1, <2>1
  <2> QED
    BY <1>1, <2>2, Numbers
<1>8. \A n \in Nodes : tl[n] = 0 /\ sigma[n] \in 0 .. INF /\ Tn(n) \in Nat
  BY <1>1, <1>7, PlusFacts DEF Tn
<1>9. \A i \in DOMAIN order : key[i] = Tn(order[i]) /\ order[i] \in Nodes
  BY <1>1, OrderFacts, Zenon
<1>10. key \in [DOMAIN order -> Nat]
  BY <1>1, <1>8, <1>9
<1>11. OnTime
  BY <1>1, <1>8 DEF OnTime
<1>12. Pending
  BY <1>1 DEF Pending
<1>13. KeysRight
  BY <1>9, Zenon DEF KeysRight
<1>14. Firing
  BY <1>1, Zenon DEF Firing
<1> QED
  BY <1>1, <1>4, <1>6, <1>7, <1>10, <1>11, <1>12, <1>13, <1>14, Zenon DEF NetInv, TypeOK

LEMMA NetInvStep ==
  ASSUME NetInv, [Next]_vars
  PROVE  NetInv'
<1>1. CASE UNCHANGED vars
  BY <1>1 DEF vars, model, place, trans, NetInv, TypeOK, MarkingOK, OnTime, Pending, KeysRight,
              Stale, Firing, Tn
<1>2. CASE Next
  BY <1>2, MatureKept, AnnounceKept, StartKept, FinishKept, EmitKept, Zenon DEF Next
<1> QED
  BY <1>1, <1>2

(* The types, and what the heap and transitionChild of the coupling know,  *)
(* after any number of steps and calls between models.                     *)
THEOREM NetInvariant == Spec => []NetInv
<1>1. Init => NetInv
  BY NetInvInit
<1>2. NetInv /\ [Next]_vars => NetInv'
  BY NetInvStep
<1> QED
  BY <1>1, <1>2, PTL DEF Spec

(* The transition child is a model with the earliest event, although the   *)
(* calls in the middle of dint leave the heap with a time that is over.    *)
THEOREM NextAlwaysEarliest == Spec => []NextIsEarliest
<1>1. NetInv => NextIsEarliest
  BY Current, Zenon DEF NextIsEarliest
<1> QED
  BY <1>1, NetInvariant, PTL

(* Nothing happens between the moment a transition takes its tokens and    *)
(* the moment it sends its own.                                            *)
THEOREM FiringNeverDisturbed == Spec => []FiringUndisturbed
<1>1. NetInv => FiringUndisturbed
  <2> SUFFICES ASSUME NetInv, NEW x \in Inner, working[x]
               PROVE  order[tc] = x /\ ~enabled[x] /\ Tn(x) = now
    BY Zenon DEF FiringUndisturbed
  <2>1. order[tc] = x /\ ~enabled[x] /\ sigma[x] = 0 /\ tl[x] = now
    BY Zenon DEF NetInv, Firing
  <2>2. Tn(x) = Plus(now, 0)
    BY <2>1, Zenon DEF Tn
  <2>3. now \in Nat
    BY Current, Zenon
  <2>4. Plus(now, 0) = now
    BY <2>3, Numbers, PlusFacts
  <2> QED
    BY <2>1, <2>2, <2>4, Zenon
<1> QED
  BY <1>1, NetInvariant, PTL

-----------------------------------------------------------------------------
(* A step without announcements: what it does to the tokens of a place is  *)
(* still to be announced when the step is over.                            *)
LEMMA WordKept ==
  ASSUME ToldRight, EnabledRight, heard' = heard, told' = told,
         \A p \in Places : Settled(p)' => Settled(p) /\ tokens'[p] = tokens[p],
         \A y \in Inner : (\A p \in Pres(y) : Settled(p)') =>
                             \/ enabled'[y] = enabled[y]
                             \/ ~enabled'[y] /\ ~enabled[y]
                             \/ ~enabled'[y] /\ ~Ready(y)
  PROVE  ToldRight' /\ EnabledRight'
<1>1. ToldRight'
  <2> SUFFICES ASSUME NEW x \in Inner, NEW p \in Pres(x), Settled(p)'
               PROVE  IF p \in heard'[x] THEN told'[x][p] = tokens'[p] ELSE tokens'[p] = 0
    BY Zenon DEF ToldRight
  <2>1. p \in Places
    BY Zenon DEF Pres
  <2>2. Settled(p) /\ tokens'[p] = tokens[p]
    BY <2>1, Zenon
  <2>3. IF p \in heard[x] THEN told[x][p] = tokens[p] ELSE tokens[p] = 0
    BY <2>2, Zenon DEF ToldRight
  <2> QED
    BY <2>2, <2>3, Zenon
<1>2. EnabledRight'
  <2> SUFFICES ASSUME NEW x \in Inner, \A p \in Pres(x) : Settled(p)'
               PROVE  enabled'[x] <=> Ready(x)'
    BY Zenon DEF EnabledRight
  <2>1. \A p \in Pres(x) : Settled(p)
    BY Zenon DEF Pres
  <2>2. enabled[x] <=> Ready(x)
    BY <2>1, Zenon DEF EnabledRight
  <2>3. Ready(x)' <=> Ready(x)
    BY Zenon DEF Ready
  <2> QED
    BY <2>2, <2>3, Zenon
<1> QED
  BY <1>1, <1>2

(* A place is settled after the step only if it was before. *)
LEMMA SettledKept ==
  ASSUME \A p \in Places : flag[p] = 4 => flag'[p] = 4,
         \A w \in Inner : ~working[w]
  PROVE  \A p \in Places : Settled(p)' => Settled(p)
BY Zenon DEF Settled

(* The actions and what the transitions know. *)
LEMMA MatureWord ==
  ASSUME NetInv, ToldRight, EnabledRight, NEW p \in Places, Mature(p)
  PROVE  ToldRight' /\ EnabledRight'
<1>1. MarkingOK
  BY Zenon DEF NetInv, TypeOK
<1>2. p \in Nodes /\ Imminent(p) /\ heard' = heard /\ told' = told /\ enabled' = enabled
      /\ flag' = [flag EXCEPT ![p] = 4]
  BY Kinds, Zenon DEF Mature, trans
<1>3. PICK k : tokens' = [tokens EXCEPT ![p] = k]
  <2> PICK k : k = tokens[p] + Ripe(Aged(list[p], IF list[p] = <<>> THEN INF ELSE list[p][1]))
    OBVIOUS
  <2> QED
    BY Zenon DEF Mature
<1>4. flag'[p] = 4 /\ \A q \in Places : flag[q] = 4 => flag'[q] = 4
  BY <1>1, <1>2 DEF MarkingOK
<1>5. \A q \in Places : q # p => tokens'[q] = tokens[q]
  BY <1>1, <1>3 DEF MarkingOK
<1>6. \A w \in Inner : ~working[w]
  BY <1>2, Resting, Kinds, Zenon
<1>7. \A q \in Places : Settled(q)' => Settled(q) /\ tokens'[q] = tokens[q]
  <2>1. ~Settled(p)'
    BY <1>4, Zenon DEF Settled
  <2>2. \A q \in Places : Settled(q)' => Settled(q)
    BY <1>4, <1>6, SettledKept, Zenon
  <2> QED
    BY <1>5, <2>1, <2>2, Zenon
<1> QED
  BY <1>2, <1>7, WordKept, Zenon

LEMMA EmitWord ==
  ASSUME NetInv, ToldRight, EnabledRight, NEW x \in Sources \cup Triggered, Emit(x)
  PROVE  ToldRight' /\ EnabledRight'
<1>1. /\ x \in Nodes /\ x \in Transitions /\ Imminent(x)
      /\ heard' = heard /\ told' = told /\ enabled' = enabled /\ tokens' = tokens
      /\ flag' = [p \in Places |-> IF p \in Given(x) /\ sigma[p] > delay[p] THEN 1 ELSE flag[p]]
  BY Kinds, Zenon DEF Emit, trans, Transitions
<1>2. \A p \in Places : flag[p] = 4 => ~(sigma[p] > delay[p])
  BY <1>1, GivenFacts, Zenon
<1>3. \A p \in Places : flag[p] = 4 => flag'[p] = 4
  BY <1>1, <1>2, Zenon
<1>4. \A w \in Inner : ~working[w]
  BY <1>1, Resting, Kinds, Zenon
<1>5. \A q \in Places : Settled(q)' => Settled(q)
  BY <1>3, <1>4, SettledKept, Zenon
<1> QED
  BY <1>1, <1>5, WordKept, Zenon

LEMMA FinishWord ==
  ASSUME NetInv, ToldRight, EnabledRight, NEW x \in Inner, Finish(x)
  PROVE  ToldRight' /\ EnabledRight'
<1>1. /\ x \in Nodes /\ x \in Transitions /\ Imminent(x)
      /\ heard' = heard /\ told' = told /\ enabled' = enabled /\ tokens' = tokens
      /\ flag' = [p \in Places |->
           IF p \in Pres(x) THEN 4
           ELSE IF p \in Given(x) /\ sigma[p] > delay[p] THEN 1 ELSE flag[p]]
  BY Kinds, Zenon DEF Finish, Transitions
<1>2. \A p \in Places : flag[p] = 4 => ~(sigma[p] > delay[p])
  BY <1>1, GivenFacts, Zenon
<1>3. \A p \in Places : /\ flag[p] = 4 => flag'[p] = 4
                        /\ p \in Pres(x) => flag'[p] = 4
  BY <1>1, <1>2, Zenon
<1>4. \A w \in Inner : working[w] => w = x
  BY <1>1, Resting, Zenon
<1>5. \A q \in Places : Settled(q)' => Settled(q)
  BY <1>3, <1>4, Zenon DEF Settled
<1> QED
  BY <1>1, <1>5, WordKept, Zenon

LEMMA StartWord ==
  ASSUME NetInv, ToldRight, EnabledRight, NEW x \in Inner, Start(x)
  PROVE  ToldRight' /\ EnabledRight'
<1>1. MarkingOK
  BY Zenon DEF NetInv, TypeOK
<1>2. /\ x \in Nodes /\ Imminent(x) /\ enabled[x] /\ heard' = heard /\ told' = told /\ flag' = flag
      /\ enabled' = [enabled EXCEPT ![x] = FALSE]
  BY Kinds, Zenon DEF Start
<1>3. ~enabled'[x] /\ \A y \in Inner : y # x => enabled'[y] = enabled[y]
  BY <1>1, <1>2 DEF MarkingOK
<1>4. \A w \in Inner : ~working[w]
  BY <1>2, Resting, Zenon
<1>5. \A q \in Places : Settled(q)' => Settled(q)
  BY <1>2, <1>4, SettledKept, Zenon
<1>6. /\ \A p \in Places : Weight[x][p] \in Nat /\ tokens[p] \in Nat
                           /\ (p \in Pres(x) <=> Weight[x][p] > 0)
      /\ Pres(x) # {} /\ Pres(x) \subseteq Places
  BY <1>1, Inputs DEF MarkingOK
<1>7. CASE \A p \in Pres(x) : Weight[x][p] <= tokens[p]
  <2>1. tokens' = [p \in Places |-> tokens[p] - Weight[x][p]] /\ working' = [working EXCEPT ![x] = TRUE]
    BY <1>7, Zenon DEF Start
  <2>2. working'[x]
    BY <1>1, <2>1 DEF MarkingOK
  <2>3. \A p \in Pres(x) : ~Settled(p)'
    <3>1. \A p \in Pres(x) : p \in Pres(x)'
      BY Zenon DEF Pres
    <3> QED
      BY <2>2, <3>1, Zenon DEF Settled
  <2>4. \A p \in Places : p \notin Pres(x) => tokens'[p] = tokens[p]
    BY <1>6, <2>1
  <2>5. ~ \A p \in Pres(x) : Settled(p)'
    BY <1>6, <2>3, Zenon
  <2>6. \A p \in Places : Settled(p)' => Settled(p) /\ tokens'[p] = tokens[p]
    BY <1>5, <2>3, <2>4, Zenon
  <2>7. \A y \in Inner : (\A p \in Pres(y) : Settled(p)') => enabled'[y] = enabled[y]
    BY <1>3, <2>5, Zenon
  <2> QED
    BY <1>2, <2>6, <2>7, WordKept, Zenon
<1>8. CASE ~ \A p \in Pres(x) : Weight[x][p] <= tokens[p]
  <2>1. tokens' = tokens
    BY <1>8, Zenon DEF Start
  <2>2. ASSUME \A p \in Pres(x) : Settled(p)'
        PROVE  ~Ready(x)
    <3> SUFFICES ASSUME Ready(x)
                 PROVE  FALSE
      OBVIOUS
    <3>1. PICK p \in Pres(x) : ~(Weight[x][p] <= tokens[p])
      BY <1>8, Zenon
    <3>2. Settled(p) /\ p \in Places /\ p \in heard[x] /\ Weight[x][p] <= told[x][p]
      BY <1>5, <1>6, <2>2, Zenon DEF Ready
    <3>3. told[x][p] = tokens[p]
      BY <3>2, Zenon DEF ToldRight
    <3> QED
      BY <3>1, <3>2, <3>3, Zenon
  <2>3. \A y \in Inner : (\A p \in Pres(y) : Settled(p)') =>
                             \/ enabled'[y] = enabled[y]
                             \/ ~enabled'[y] /\ ~Ready(y)
    BY <1>3, <2>2, Zenon
  <2> QED
    BY <1>2, <1>5, <2>1, <2>3, WordKept, Zenon
<1> QED
  BY <1>7, <1>8

(* The place that announces is settled, and its transitions know it. *)
LEMMA AnnounceWord ==
  ASSUME NetInv, ToldRight, EnabledRight, NEW p \in Places, Announce(p)
  PROVE  ToldRight' /\ EnabledRight'
<1> DEFINE to == {x \in Inner : p \in Pres(x)}
<1>1. MarkingOK
  BY Zenon DEF NetInv, TypeOK
<1>2. /\ p \in Nodes /\ Imminent(p) /\ tokens' = tokens /\ working' = working
      /\ heard' = [x \in Inner |-> IF x \in to THEN heard[x] \cup {p} ELSE heard[x]]
      /\ told'  = [x \in Inner |-> IF x \in to THEN [told[x] EXCEPT ![p] = tokens[p]] ELSE told[x]]
      /\ enabled' = [x \in Inner |-> IF x \in to THEN Active(x) ELSE enabled[x]]
      /\ flag' = [flag EXCEPT ![p] = IF list[p] = <<>> THEN 0 ELSE 1]
  BY Kinds, Zenon DEF Announce
<1>3. \A q \in Places : q # p => flag'[q] = flag[q]
  BY <1>1, <1>2 DEF MarkingOK
<1>4. \A w \in Inner : ~working[w]
  BY <1>2, Resting, Kinds, Zenon
<1>5. \A q \in Places : q # p => (Settled(q)' => Settled(q))
  BY <1>3, <1>4, Zenon DEF Settled
<1>6. \A x \in Inner : x \in to <=> p \in Pres(x)
  BY Zenon
<1> HIDE DEF to
<1>7. \A x \in Inner : x \in to =>
        /\ heard'[x] = heard[x] \cup {p}
        /\ told'[x][p] = tokens[p] /\ \A q \in Pres(x) : q # p => told'[x][q] = told[x][q]
  <2> SUFFICES ASSUME NEW x \in Inner, x \in to
               PROVE  /\ heard'[x] = heard[x] \cup {p}
                      /\ told'[x][p] = tokens[p]
                      /\ \A q \in Pres(x) : q # p => told'[x][q] = told[x][q]
    BY Zenon
  <2>1. told[x] \in [Pres(x) -> Nat] /\ p \in Pres(x)
    BY <1>1, <1>6 DEF MarkingOK
  <2>2. told'[x] = [told[x] EXCEPT ![p] = tokens[p]] /\ heard'[x] = heard[x] \cup {p}
    BY <1>2, Zenon
  <2> QED
    BY <2>1, <2>2
<1>8. \A x \in Inner : x \notin to =>
        heard'[x] = heard[x] /\ told'[x] = told[x] /\ enabled'[x] = enabled[x]
  BY <1>2, Zenon
<1>9. \A x \in Inner : x \in to => (enabled'[x] <=> Active(x))
  BY <1>2, Zenon
<1>10. ToldRight'
  <2> SUFFICES ASSUME NEW x \in Inner, NEW q \in Pres(x), Settled(q)'
               PROVE  IF q \in heard'[x] THEN told'[x][q] = tokens'[q] ELSE tokens'[q] = 0
    BY Zenon DEF ToldRight
  <2>1. q \in Places
    BY Zenon DEF Pres
  <2>2. CASE q = p
    BY <1>2, <1>6, <1>7, <2>2, Zenon
  <2>3. CASE q # p
    <3>1. IF q \in heard[x] THEN told[x][q] = tokens[q] ELSE tokens[q] = 0
      BY <1>5, <2>1, <2>3, Zenon DEF ToldRight
    <3>2. q \in heard'[x] <=> q \in heard[x]
      BY <1>7, <1>8, <2>3, Zenon
    <3>3. told'[x][q] = told[x][q]
      BY <1>7, <1>8, <2>3, Zenon
    <3> QED
      BY <1>2, <3>1, <3>2, <3>3, Zenon
  <2> QED
    BY <2>2, <2>3
<1>11. EnabledRight'
  <2> SUFFICES ASSUME NEW x \in Inner, \A q \in Pres(x) : Settled(q)'
               PROVE  enabled'[x] <=> Ready(x)'
    BY Zenon DEF EnabledRight
  <2>1. CASE x \in to
    <3>1. Active(x) <=> Ready(x)'
      BY Zenon DEF Active, Ready, Pres
    <3> QED
      BY <1>9, <2>1, <3>1, Zenon
  <2>2. CASE x \notin to
    <3>1. \A q \in Pres(x) : Settled(q)
      BY <1>5, <1>6, <2>2, Zenon DEF Pres
    <3>2. enabled[x] <=> Ready(x)
      BY <3>1, Zenon DEF EnabledRight
    <3>3. Ready(x)' <=> Ready(x)
      BY <1>8, <2>2, Zenon DEF Ready, Pres
    <3> QED
      BY <1>8, <2>2, <3>2, <3>3, Zenon
  <2> QED
    BY <2>1, <2>2
<1> QED
  BY <1>10, <1>11

(* What a transition was told of a settled place is what the place has,    *)
(* and it is enabled exactly if that is enough.                            *)
THEOREM WordInvariant == Spec => [](ToldRight /\ EnabledRight)
<1>1. Init => ToldRight /\ EnabledRight
  <2> SUFFICES ASSUME Init
               PROVE  ToldRight /\ EnabledRight
    OBVIOUS
  <2>1. /\ tokens = [p \in Places |-> 0] /\ enabled = [x \in Inner |-> FALSE]
        /\ heard = [x \in Inner |-> {}]
    BY Zenon DEF Init
  <2>2. ToldRight
    BY <2>1, Zenon DEF ToldRight, Pres
  <2>3. EnabledRight
    <3>1. \A x \in Inner : ~enabled[x] /\ heard[x] = {}
      BY <2>1, Zenon
    <3>2. \A x \in Inner : Pres(x) # {}
      BY Inputs, Zenon
    <3> QED
      BY <3>1, <3>2, Zenon DEF EnabledRight, Ready
  <2> QED
    BY <2>2, <2>3
<1>2. NetInv /\ ToldRight /\ EnabledRight /\ [Next]_vars => (ToldRight /\ EnabledRight)'
  <2> SUFFICES ASSUME NetInv, ToldRight, EnabledRight, [Next]_vars
               PROVE  ToldRight' /\ EnabledRight'
    OBVIOUS
  <2>1. CASE UNCHANGED vars
    BY <2>1 DEF vars, place, trans, ToldRight, EnabledRight, Settled, Ready
  <2>2. CASE Next
    BY <2>2, MatureWord, AnnounceWord, StartWord, FinishWord, EmitWord, Zenon DEF Next
  <2> QED
    BY <2>1, <2>2
<1> QED
  BY <1>1, <1>2, NetInvariant, PTL DEF Spec

(* Whenever time passes, a transition that has its tokens knows it: no     *)
(* announcement is lost, whichever order the models have.                  *)
THEOREM NeverForgotten == Spec => []NoneForgotten
<1>1. NetInv /\ ToldRight /\ EnabledRight => NoneForgotten
  <2> SUFFICES ASSUME NetInv, ToldRight, EnabledRight, Tn(order[tc]) > now,
                      NEW x \in Inner, \A p \in Pres(x) : Weight[x][p] <= tokens[p]
               PROVE  enabled[x]
    BY Zenon DEF NoneForgotten
  <2>1. Tn(order[tc]) # now
    BY Current
  <2>2. \A p \in Places : flag[p] # 4
    BY <2>1, Current, Zenon
  <2>3. \A w \in Inner : ~working[w]
    <3> SUFFICES ASSUME NEW w \in Inner, working[w]
                 PROVE  FALSE
      OBVIOUS
    <3>1. order[tc] = w /\ sigma[w] = 0 /\ tl[w] = now
      BY Zenon DEF NetInv, Firing
    <3>2. Tn(order[tc]) = Plus(now, 0)
      BY <3>1, Zenon DEF Tn
    <3>3. now \in Nat
      BY Current, Zenon
    <3>4. Plus(now, 0) = now
      BY <3>3, Numbers, PlusFacts
    <3> QED
      BY <2>1, <3>2, <3>4, Zenon
  <2>4. \A p \in Pres(x) : p \in Places /\ Settled(p)
    BY <2>2, <2>3, Zenon DEF Settled, Pres
  <2>5. ASSUME NEW p \in Pres(x)
        PROVE  p \in heard[x] /\ Weight[x][p] <= told[x][p]
    <3>1. IF p \in heard[x] THEN told[x][p] = tokens[p] ELSE tokens[p] = 0
      BY <2>4, Zenon DEF ToldRight
    <3>2. tokens[p] # 0
      <4>1. Weight[x][p] \in Nat /\ Weight[x][p] > 0 /\ Weight[x][p] <= tokens[p]
        BY <2>4, Inputs, Zenon
      <4> QED
        BY <4>1
    <3> QED
      BY <3>1, <3>2, Zenon
  <2>6. heard[x] = Pres(x)
    <3>1. heard[x] \subseteq Pres(x)
      BY Zenon DEF NetInv, TypeOK, MarkingOK
    <3> QED
      BY <2>5, <3>1, Zenon
  <2>7. Ready(x)
    BY <2>5, <2>6, Zenon DEF Ready
  <2> QED
    BY <2>4, <2>7, Zenon DEF EnabledRight
<1> QED
  BY <1>1, NetInvariant, WordInvariant, PTL

-----------------------------------------------------------------------------
(* The tokens on their way, as a function of who is working: those of one  *)
(* transition at most.                                                     *)
SendingOf(w, p) ==
  LET xs == {x \in Inner : w[x]}
      sum[s \in SUBSET xs] ==
        IF s = {} THEN 0
        ELSE LET x == CHOOSE y \in s : TRUE IN Arcs[x][p] + sum[s \ {x}]
  IN  sum[xs]

LEMMA SendingFacts ==
  ASSUME NEW w, NEW p \in Places
  PROVE  /\ (\A x \in Inner : ~w[x]) => SendingOf(w, p) = 0
         /\ \A x \in Inner : w[x] /\ (\A y \in Inner : w[y] => y = x) =>
              SendingOf(w, p) = Arcs[x][p]
<1> DEFINE xs == {x \in Inner : w[x]}
           Next1(s) == CHOOSE y \in s : TRUE
           Eq(f) == f = [s \in SUBSET xs |->
                           IF s = {} THEN 0 ELSE Arcs[Next1(s)][p] + f[s \ {Next1(s)}]]
           sum == CHOOSE f : Eq(f)
<1>1. SendingOf(w, p) = sum[xs]
  BY Zenon DEF SendingOf
<1>2. ASSUME NEW x \in Inner, xs \subseteq {x}
      PROVE  Eq([s \in SUBSET xs |-> IF s = {} THEN 0 ELSE Arcs[x][p]])
  <2> DEFINE g == [s \in SUBSET xs |-> IF s = {} THEN 0 ELSE Arcs[x][p]]
  <2>1. Arcs[x][p] \in Nat
    <3>1. Arcs[x] \in [Places \cup Triggered -> Nat]
      BY NetAssumption, Zenon DEF Transitions
    <3> QED
      BY <3>1
  <2>2. ASSUME NEW s \in SUBSET xs, s # {}
        PROVE  Arcs[x][p] = Arcs[Next1(s)][p] + g[s \ {Next1(s)}]
    <3>1. s = {x} /\ s \in SUBSET xs
      BY <1>2, <2>2
    <3>2. Next1(s) = x
      BY <3>1
    <3>3. s \ {Next1(s)} = {} /\ {} \in SUBSET xs
      BY <3>1, <3>2
    <3>4. g[s \ {Next1(s)}] = 0
      BY <3>3
    <3> HIDE DEF g, Next1
    <3>5. Arcs[Next1(s)][p] = Arcs[x][p]
      BY <3>2, Zenon
    <3> QED
      BY <2>1, <3>4, <3>5
  <2>3. \A s \in SUBSET xs : (IF s = {} THEN 0 ELSE Arcs[x][p])
                           = (IF s = {} THEN 0 ELSE Arcs[Next1(s)][p] + g[s \ {Next1(s)}])
    <3> HIDE DEF g, Next1, xs
    <3> QED
      BY <2>2, Zenon
  <2> HIDE DEF Next1, xs
  <2> QED
    BY <2>3, Zenon
<1>3. ASSUME NEW f, Eq(f)
      PROVE  /\ f[{}] = 0
             /\ \A s \in SUBSET xs : s # {} => f[s] = Arcs[Next1(s)][p] + f[s \ {Next1(s)}]
  <2> HIDE DEF Next1, xs
  <2>1. \A s \in SUBSET xs :
          f[s] = IF s = {} THEN 0 ELSE Arcs[Next1(s)][p] + f[s \ {Next1(s)}]
    BY <1>3, Zenon
  <2>2. {} \in SUBSET xs
    OBVIOUS
  <2> QED
    BY <2>1, <2>2, Zenon
<1>4. ASSUME NEW x \in Inner, w[x], \A y \in Inner : w[y] => y = x
      PROVE  SendingOf(w, p) = Arcs[x][p]
  <2>1. xs = {x} /\ xs \subseteq {x} /\ xs \in SUBSET xs
    BY <1>4
  <2>2. Eq(sum)
    <3> HIDE DEF xs, Next1, Eq
    <3>1. \E f : Eq(f)
      <4>1. PICK g : g = [s \in SUBSET xs |-> IF s = {} THEN 0 ELSE Arcs[x][p]]
        OBVIOUS
      <4>2. Eq(g)
        BY <1>2, <2>1, <4>1, Zenon
      <4> QED
        BY <4>2, Zenon
    <3> QED
      BY <3>1, Zenon
  <2>3. sum[{}] = 0 /\ sum[xs] = Arcs[Next1(xs)][p] + sum[xs \ {Next1(xs)}]
    <3>1. xs # {}
      BY <2>1
    <3> HIDE DEF sum, Next1, xs, Eq
    <3> QED
      BY <1>3, <2>1, <2>2, <3>1, Zenon
  <2>4. Next1(xs) = x
    BY <2>1
  <2>5. xs \ {Next1(xs)} = {}
    BY <2>1, <2>4
  <2>6. Arcs[x][p] \in Nat
    <3>1. Arcs[x] \in [Places \cup Triggered -> Nat]
      BY NetAssumption, Zenon DEF Transitions
    <3> QED
      BY <3>1
  <2> HIDE DEF sum, xs, Next1
  <2>7. sum[xs] = Arcs[x][p] + 0
    BY <2>3, <2>4, <2>5, Zenon
  <2> QED
    BY <1>1, <2>6, <2>7
<1>5. ASSUME \A x \in Inner : ~w[x]
      PROVE  SendingOf(w, p) = 0
  <2>1. xs = {}
    BY <1>5
  <2> DEFINE g == [s \in SUBSET xs |-> 0]
  <2>2. Eq(g)
    <3>1. \A s \in SUBSET xs : 0 = IF s = {} THEN 0 ELSE Arcs[Next1(s)][p] + g[s \ {Next1(s)}]
      BY <2>1
    <3> HIDE DEF Next1, xs
    <3> QED
      BY <3>1, Zenon
  <2>3. Eq(sum)
    <3> HIDE DEF xs, Next1, Eq, g
    <3> QED
      BY <2>2, Zenon
  <2>4. sum[{}] = 0
    <3> HIDE DEF sum, Next1, xs, Eq
    <3> QED
      BY <1>3, <2>3, Zenon
  <2> QED
    BY <1>1, <2>1, <2>4
<1> QED
  BY <1>4, <1>5

(* The marking and what the actions do to it. *)
LEMMA MarkingNow ==
  \A p \in Places : Marking[p] = tokens[p] + Len(list[p]) + SendingOf(working, p)
<1>1. \A p \in Places : Sending(p) = SendingOf(working, p)
  BY Zenon DEF Sending, SendingOf
<1>2. \A p \in Places : Marking[p] = tokens[p] + Len(list[p]) + Sending(p)
  BY Zenon DEF Marking
<1> QED
  BY <1>1, <1>2, Zenon

LEMMA MarkingFacts ==
  ASSUME MarkingOK
  PROVE  \A p \in Places : /\ Marking[p] = tokens[p] + Len(list[p]) + SendingOf(working, p)
                           /\ tokens[p] \in Nat /\ list[p] \in Seq(Waits) /\ Len(list[p]) \in Nat
<1>1. \A p \in Places : tokens[p] \in Nat
  BY DEF MarkingOK
<1>2. \A p \in Places : list[p] \in Seq(Waits)
  BY Zenon DEF MarkingOK
<1>3. \A l \in Seq(Waits) : Len(l) \in Nat
  OBVIOUS
<1> QED
  BY <1>1, <1>2, <1>3, MarkingNow, Zenon

LEMMA MarkingNext ==
  \A p \in Places : Marking'[p] = tokens'[p] + Len(list'[p]) + SendingOf(working', p)
<1>1. \A p \in Places : Sending(p)' = SendingOf(working', p)
  BY Zenon DEF Sending, SendingOf
<1>2. \A p \in Places : Marking'[p] = tokens'[p] + Len(list'[p]) + Sending(p)'
  BY Zenon DEF Marking
<1> QED
  BY <1>1, <1>2, Zenon

LEMMA SameMarking ==
  ASSUME \A p \in Places : Marking'[p] = Marking[p]
  PROVE  Marking' = Marking
<1>1. Marking = [p \in Places |-> Marking[p]]
  BY Zenon DEF Marking
<1>2. Marking' = [p \in Places |-> Marking'[p]]
  BY Zenon DEF Marking
<1> QED
  BY <1>1, <1>2, Zenon

(* A firing of the token game: the tokens are there, and only the arcs of  *)
(* the transition move them.                                               *)
LEMMA FireFrom ==
  ASSUME NEW x \in Transitions, NEW take, NEW give,
         \A p \in Places : take[p] = (IF x \in Inner THEN Weight[x][p] ELSE 0) /\ give[p] = Arcs[x][p],
         \A p \in Places : Marking[p] >= take[p],
         \A p \in Places : Marking'[p] = Marking[p] - take[p] + give[p]
  PROVE  Game!Fire(x)
<1>1. \A p \in Places : Take[x][p] = take[p] /\ Give[x][p] = give[p]
  BY Zenon DEF Take, Give
<1>2. \A p \in Places : Marking[p] >= Take[x][p]
  BY <1>1, Zenon
<1>3. Marking' = [p \in Places |-> Marking'[p]]
  BY Zenon DEF Marking
<1>4. \A p \in Places : Marking'[p] = Marking[p] - Take[x][p] + Give[x][p]
  BY <1>1, Zenon
<1>5. Marking' = [p \in Places |-> Marking[p] - Take[x][p] + Give[x][p]]
  BY <1>3, <1>4, Zenon
<1> QED
  BY <1>2, <1>5, Zenon DEF Game!Fire

LEMMA ArcsType ==
  \A x \in Transitions : \A p \in Places : Arcs[x][p] \in Nat
<1>1. \A x \in Transitions : Arcs[x] \in [Places \cup Triggered -> Nat]
  BY NetAssumption, Zenon
<1> QED
  BY <1>1

(* Tokens that become available are counted already. *)
LEMMA MatureMarking ==
  ASSUME NetInv, NEW p \in Places, Mature(p)
  PROVE  Marking' = Marking
<1>1. MarkingOK
  BY Zenon DEF NetInv, TypeOK
<1> DEFINE t    == IF list[p] = <<>> THEN INF ELSE list[p][1]
           aged == Aged(list[p], t)
           ripe == Ripe(aged)
           rest == SubSeq(aged, ripe + 1, Len(aged))
<1>2. /\ tokens' = [tokens EXCEPT ![p] = tokens[p] + ripe]
      /\ list' = [list EXCEPT ![p] = rest] /\ working' = working
  BY Zenon DEF Mature, trans
<1>3. list[p] \in Seq(Waits)
  BY <1>1 DEF MarkingOK
<1>4. t \in Nat
  <2>1. list[p] # <<>> => list[p][1] \in Waits
    BY <1>3
  <2> QED
    BY <2>1, Numbers DEF Waits
<1>5. aged \in Seq(Waits) /\ Len(aged) = Len(list[p]) /\ Len(aged) \in Nat
  <2>1. aged \in Seq(Waits) /\ Len(aged) = Len(list[p])
    BY <1>3, <1>4, AgedType
  <2> QED
    BY <1>3, <2>1
<1>6. ripe \in 0 .. Len(aged)
  BY <1>5, RipeType
<1> HIDE DEF aged, ripe, t
<1>7. Len(rest) = Len(aged) - ripe
  BY <1>5, <1>6
<1> HIDE DEF rest
<1>8. \A q \in Places : /\ Marking[q] = tokens[q] + Len(list[q]) + SendingOf(working, q)
                        /\ Marking'[q] = tokens'[q] + Len(list'[q]) + SendingOf(working, q)
                        /\ tokens[q] \in Nat /\ Len(list[q]) \in Nat
  BY <1>1, <1>2, MarkingFacts, MarkingNext, Zenon
<1>9. \A w \in Inner : ~working[w]
  <2>1. p \in Nodes /\ Imminent(p)
    BY Kinds, Zenon DEF Mature
  <2> QED
    BY <2>1, Resting, Kinds, Zenon
<1>10. \A q \in Places : SendingOf(working, q) = 0
  BY <1>9, SendingFacts, Zenon
<1>11. tokens'[p] = tokens[p] + ripe /\ list'[p] = rest
       /\ \A q \in Places : q # p => tokens'[q] = tokens[q] /\ list'[q] = list[q]
  BY <1>1, <1>2 DEF MarkingOK
<1>12. ASSUME NEW q \in Places
       PROVE  Marking'[q] = Marking[q]
  <2>1. CASE q = p
    <3>1. /\ Marking[p] = tokens[p] + Len(list[p]) + 0
          /\ Marking'[p] = (tokens[p] + ripe) + Len(rest) + 0
      BY <1>8, <1>10, <1>11, Zenon
    <3>2. tokens[p] \in Nat /\ Len(list[p]) \in Nat
      BY <1>8, Zenon
    <3> QED
      BY <1>5, <1>6, <1>7, <2>1, <3>1, <3>2
  <2>2. CASE q # p
    BY <1>8, <1>11, <2>2, Zenon
  <2> QED
    BY <2>1, <2>2
<1> QED
  BY <1>12, SameMarking, Zenon

LEMMA AnnounceMarking ==
  ASSUME NEW p \in Places, Announce(p)
  PROVE  Marking' = Marking
<1>1. tokens' = tokens /\ list' = list /\ working' = working
  BY Zenon DEF Announce
<1>2. \A q \in Places : Marking'[q] = Marking[q]
  BY <1>1, MarkingNow, MarkingNext, Zenon
<1> QED
  BY <1>2, SameMarking, Zenon

(* A transition fires when it takes its tokens, *)
LEMMA StartMarking ==
  ASSUME NetInv, NEW x \in Inner, Start(x)
  PROVE  Game!Fire(x) \/ Marking' = Marking
<1>1. MarkingOK
  BY Zenon DEF NetInv, TypeOK
<1>2. /\ x \in Nodes /\ x \in Transitions /\ Imminent(x) /\ list' = list
      /\ \/ /\ \A p \in Pres(x) : Weight[x][p] <= tokens[p]
            /\ tokens' = [p \in Places |-> tokens[p] - Weight[x][p]]
            /\ working' = [working EXCEPT ![x] = TRUE]
         \/ tokens' = tokens /\ working' = working
  BY Kinds, Zenon DEF Start, Transitions
<1>3. CASE tokens' = tokens /\ working' = working
  <2>1. \A q \in Places : Marking'[q] = Marking[q]
    BY <1>2, <1>3, MarkingNow, MarkingNext, Zenon
  <2> QED
    BY <2>1, SameMarking, Zenon
<1>4. CASE /\ \A p \in Pres(x) : Weight[x][p] <= tokens[p]
           /\ tokens' = [p \in Places |-> tokens[p] - Weight[x][p]]
           /\ working' = [working EXCEPT ![x] = TRUE]
  <2>1. \A w \in Inner : ~working[w]
    <3>1. x \in Nodes /\ Imminent(x) /\ enabled[x]
      BY Kinds, Zenon DEF Start
    <3> QED
      BY <3>1, Resting, Zenon
  <2>2. working'[x] /\ \A w \in Inner : working'[w] => w = x
    <3>1. working'[x] /\ \A w \in Inner : w # x => working'[w] = working[w]
      BY <1>1, <1>4 DEF MarkingOK
    <3> QED
      BY <2>1, <3>1, Zenon
  <2>3. \A p \in Places : SendingOf(working, p) = 0
    BY <2>1, SendingFacts, Zenon
  <2>4. \A p \in Places : SendingOf(working', p) = Arcs[x][p]
    BY <2>2, SendingFacts, Zenon
  <2>5. ASSUME NEW p \in Places
        PROVE  Marking[p] >= Weight[x][p] /\ Marking'[p] = Marking[p] - Weight[x][p] + Arcs[x][p]
    <3>1. Marking[p] = tokens[p] + Len(list[p]) + 0 /\ tokens[p] \in Nat /\ Len(list[p]) \in Nat
      BY <1>1, <2>3, MarkingFacts, Zenon
    <3>2. Marking'[p] = (tokens[p] - Weight[x][p]) + Len(list[p]) + Arcs[x][p]
      <4>1. Marking'[p] = tokens'[p] + Len(list'[p]) + SendingOf(working', p)
        BY MarkingNext, Zenon
      <4> QED
        BY <1>2, <1>4, <2>4, <4>1, Zenon
    <3>3. Weight[x][p] \in Nat /\ Arcs[x][p] \in Nat
      BY <1>2, Inputs, ArcsType, Zenon
    <3>4. Weight[x][p] <= tokens[p]
      <4>1. CASE p \in Pres(x)
        BY <1>4, <4>1, Zenon
      <4>2. CASE p \notin Pres(x)
        <5>1. ~(Weight[x][p] > 0)
          BY <4>2, Inputs, Zenon
        <5> QED
          BY <3>1, <3>3, <5>1
      <4> QED
        BY <4>1, <4>2
    <3> QED
      BY <3>1, <3>2, <3>3, <3>4
  <2> DEFINE take == [p \in Places |-> Weight[x][p]]
             give == [p \in Places |-> Arcs[x][p]]
  <2>6. \A p \in Places : take[p] = Weight[x][p] /\ give[p] = Arcs[x][p]
    BY Zenon
  <2> HIDE DEF take, give
  <2>7. \A p \in Places : take[p] = (IF x \in Inner THEN Weight[x][p] ELSE 0) /\ give[p] = Arcs[x][p]
    BY <2>6, Zenon
  <2>8. /\ \A p \in Places : Marking[p] >= take[p]
        /\ \A p \in Places : Marking'[p] = Marking[p] - take[p] + give[p]
    BY <2>5, <2>6, Zenon
  <2>9. Game!Fire(x)
    <3>1. x \in Transitions
      BY <1>2, Zenon
    <3> QED
      BY <2>7, <2>8, <3>1, FireFrom
  <2> QED
    BY <2>9
<1> QED
  BY <1>2, <1>3, <1>4, Zenon

(* and its own tokens were on their way until it sends them; *)
LEMMA FinishMarking ==
  ASSUME NetInv, NEW x \in Inner, Finish(x)
  PROVE  Marking' = Marking
<1>1. MarkingOK
  BY Zenon DEF NetInv, TypeOK
<1>2. /\ x \in Nodes /\ x \in Transitions /\ Imminent(x) /\ working[x] /\ tokens' = tokens
      /\ working' = [working EXCEPT ![x] = FALSE]
      /\ list' = [p \in Places |->
           IF p \in Given(x) THEN ListWith(p, x)
           ELSE IF p \in Pres(x) THEN Aged(list[p], now' - tl[p]) ELSE list[p]]
  BY Kinds, Zenon DEF Finish, Transitions
<1>3. \A w \in Inner : working[w] => w = x
  BY <1>2, Resting, Zenon
<1>4. \A w \in Inner : ~working'[w]
  <2>1. ~working'[x] /\ \A w \in Inner : w # x => working'[w] = working[w]
    BY <1>1, <1>2 DEF MarkingOK
  <2> QED
    BY <1>3, <2>1, Zenon
<1>5. \A p \in Places : SendingOf(working, p) = Arcs[x][p] /\ SendingOf(working', p) = 0
  BY <1>2, <1>3, <1>4, SendingFacts, Zenon
<1>6. \A p \in Places : /\ Arcs[x][p] \in Nat /\ (p \notin Given(x) => Arcs[x][p] = 0)
                        /\ Len(ListWith(p, x)) = Len(list[p]) + Arcs[x][p]
                        /\ Len(Aged(list[p], now' - tl[p])) = Len(list[p])
  BY <1>2, GivenFacts, Zenon
<1>7. ASSUME NEW p \in Places
      PROVE  Marking'[p] = Marking[p]
  <2>1. Marking[p] = tokens[p] + Len(list[p]) + Arcs[x][p] /\ tokens[p] \in Nat /\ Len(list[p]) \in Nat
    BY <1>1, <1>5, MarkingFacts, Zenon
  <2>2. Marking'[p] = tokens[p] + Len(list'[p]) + 0
    BY <1>2, <1>5, MarkingNext, Zenon
  <2>3. list'[p] = IF p \in Given(x) THEN ListWith(p, x)
                   ELSE IF p \in Pres(x) THEN Aged(list[p], now' - tl[p]) ELSE list[p]
    BY <1>2, Zenon
  <2>4. Arcs[x][p] \in Nat
    BY <1>6, Zenon
  <2>5. Len(list'[p]) = Len(list[p]) + Arcs[x][p]
    <3>1. CASE p \in Given(x)
      BY <1>6, <2>3, <3>1, Zenon
    <3>2. CASE p \notin Given(x)
      <4>1. Arcs[x][p] = 0 /\ Len(list'[p]) = Len(list[p])
        BY <1>6, <2>3, <3>2, Zenon
      <4> QED
        BY <2>1, <4>1
    <3> QED
      BY <3>1, <3>2
  <2> QED
    BY <2>1, <2>2, <2>4, <2>5
<1> QED
  BY <1>7, SameMarking, Zenon

(* the others fire when they send theirs. *)
LEMMA EmitMarking ==
  ASSUME NetInv, NEW x \in Sources \cup Triggered, Emit(x)
  PROVE  x \in Transitions /\ Game!Fire(x)
<1>1. MarkingOK
  BY Zenon DEF NetInv, TypeOK
<1>2. /\ x \in Nodes /\ x \in Transitions /\ x \notin Inner /\ Imminent(x)
      /\ tokens' = tokens /\ working' = working
      /\ list' = [p \in Places |-> IF p \in Given(x) THEN ListWith(p, x) ELSE list[p]]
  BY Kinds, Zenon DEF Emit, Transitions, trans
<1>3. \A p \in Places : SendingOf(working, p) = 0
  <2>1. \A w \in Inner : ~working[w]
    BY <1>2, Resting, Zenon
  <2> QED
    BY <2>1, SendingFacts, Zenon
<1>4. \A p \in Places : /\ Arcs[x][p] \in Nat /\ (p \notin Given(x) => Arcs[x][p] = 0)
                        /\ Len(ListWith(p, x)) = Len(list[p]) + Arcs[x][p]
  BY <1>2, GivenFacts, Zenon
<1> DEFINE take == [p \in Places |-> 0]
           give == [p \in Places |-> Arcs[x][p]]
<1>5. \A p \in Places : take[p] = 0 /\ give[p] = Arcs[x][p]
  BY Zenon
<1> HIDE DEF take, give
<1>6. \A p \in Places : take[p] = (IF x \in Inner THEN Weight[x][p] ELSE 0) /\ give[p] = Arcs[x][p]
  BY <1>2, <1>5, Zenon
<1>7. ASSUME NEW p \in Places
      PROVE  Marking[p] >= take[p] /\ Marking'[p] = Marking[p] - take[p] + give[p]
  <2>1. Marking[p] = tokens[p] + Len(list[p]) + 0 /\ tokens[p] \in Nat /\ Len(list[p]) \in Nat
    BY <1>1, <1>3, MarkingFacts, Zenon
  <2>2. Marking'[p] = tokens[p] + Len(list'[p]) + 0
    BY <1>2, <1>3, MarkingNext, Zenon
  <2>3. list'[p] = IF p \in Given(x) THEN ListWith(p, x) ELSE list[p]
    BY <1>2, Zenon
  <2>4. Arcs[x][p] \in Nat
    BY <1>4, Zenon
  <2>5. Len(list'[p]) = Len(list[p]) + Arcs[x][p]
    <3>1. CASE p \in Given(x)
      BY <1>4, <2>3, <3>1, Zenon
    <3>2. CASE p \notin Given(x)
      <4>1. Arcs[x][p] = 0 /\ Len(list'[p]) = Len(list[p])
        BY <1>4, <2>3, <3>2, Zenon
      <4> QED
        BY <2>1, <4>1
    <3> QED
      BY <3>1, <3>2
  <2>6. take[p] = 0 /\ give[p] = Arcs[x][p]
    BY <1>5, Zenon
  <2> QED
    BY <2>1, <2>2, <2>4, <2>5, <2>6
<1> QED
  BY <1>2, <1>6, <1>7, FireFrom, ZenonT(60)

(* The blocks implement the token game: every step is the firing of one    *)
(* transition that has its tokens, or leaves the marking as it is.         *)
THEOREM PlaysTokenGame == Spec => ImplementsTokenGame
<1>1. Init => Game!Init
  <2> SUFFICES ASSUME Init
               PROVE  Marking \in [Places -> Nat]
    BY Zenon DEF Game!Init
  <2>1. MarkingOK
    BY NetInvInit, Zenon DEF NetInv, TypeOK
  <2>2. \A w \in Inner : ~working[w]
    BY Zenon DEF Init
  <2>3. \A p \in Places : SendingOf(working, p) = 0
    BY <2>2, SendingFacts, Zenon
  <2>4. \A p \in Places : Marking[p] = tokens[p] + Len(list[p]) + 0
                          /\ tokens[p] \in Nat /\ Len(list[p]) \in Nat
    BY <2>1, <2>3, MarkingFacts, Zenon
  <2>5. ASSUME NEW p \in Places
        PROVE  Marking[p] \in Nat
    <3>1. \A i, j \in Nat : i + j + 0 \in Nat
      OBVIOUS
    <3> QED
      BY <2>4, <3>1, Zenon
  <2>6. Marking = [p \in Places |-> Marking[p]]
    BY Zenon DEF Marking
  <2> QED
    BY <2>5, <2>6
<1>2. NetInv /\ [Next]_vars => [\E x \in Transitions : Game!Fire(x)]_Marking
  <2> SUFFICES ASSUME NetInv, [Next]_vars
               PROVE  (\E x \in Transitions : Game!Fire(x)) \/ Marking' = Marking
    BY Zenon
  <2>1. CASE UNCHANGED vars
    BY <2>1 DEF vars, place, trans, Marking, Sending
  <2>2. ASSUME NEW p \in Places, Mature(p) \/ Announce(p)
        PROVE  Marking' = Marking
    BY <2>2, MatureMarking, AnnounceMarking, Zenon
  <2>3. ASSUME NEW x \in Inner, Start(x) \/ Finish(x)
        PROVE  (\E y \in Transitions : Game!Fire(y)) \/ Marking' = Marking
    <3>1. x \in Transitions
      BY Zenon DEF Transitions
    <3> QED
      BY <2>3, <3>1, StartMarking, FinishMarking, Zenon
  <2>4. ASSUME NEW x \in Sources \cup Triggered, Emit(x)
        PROVE  \E y \in Transitions : Game!Fire(y)
    BY <2>4, EmitMarking, Zenon
  <2>5. CASE Next
    BY <2>2, <2>3, <2>4, <2>5, Zenon DEF Next
  <2> QED
    BY <2>1, <2>5, Zenon
<1> QED
  BY <1>1, <1>2, NetInvariant, PTL DEF Spec, ImplementsTokenGame, Game!Spec

=============================================================================
