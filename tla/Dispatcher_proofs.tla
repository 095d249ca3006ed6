-------------------------- MODULE Dispatcher_proofs --------------------------
(***************************************************************************)
(* Proofs about Dispatcher for any processors, jobs and capacities and     *)
(* each strategy: what the strategy believes to be idle is what is idle    *)
(* (AccountsExact), a choice ends the program only for two known reasons   *)
(* (FailsOnlyUnequal), and JOIN_SHORTEST_QUEUE takes a processor with the  *)
(* fewest jobs (ShortestQueue).                                            *)
(***************************************************************************)
EXTENDS Dispatcher, FiniteSetTheorems, SequenceTheorems, WellFoundedInduction, TLAPS

-----------------------------------------------------------------------------
(* Natural numbers. *)

(* Every non-empty set of natural numbers has a least element. *)
LEMMA LeastNatural ==
  ASSUME NEW T \in SUBSET Nat, T # {}
  PROVE  \E x \in T : \A y \in T : x <= y
<1>1. PICK x \in T : \A y \in T : ~(<<y, x>> \in OpToRel(<, Nat))
  BY WFMin, NatLessThanWellFounded, Zenon
<1>2. \A y \in T : y < x => <<y, x>> \in OpToRel(<, Nat)
  BY DEF OpToRel
<1>3. \A y \in T : ~(y < x)
  BY <1>1, <1>2, Zenon
<1> QED
  BY <1>3

(* Induction: a set that holds 0 and the successor of each of its natural  *)
(* numbers holds them all.                                                 *)
LEMMA InductiveSet ==
  ASSUME NEW T, 0 \in T, \A n \in Nat : n \in T => n + 1 \in T
  PROVE  Nat \subseteq T
<1> SUFFICES ASSUME Nat \ T # {}
             PROVE  FALSE
  OBVIOUS
<1>1. PICK x \in Nat \ T : \A y \in Nat \ T : x <= y
  BY LeastNatural
<1> QED
  BY <1>1

-----------------------------------------------------------------------------
(* Sequences. *)

(* One sequence after another. *)
Joined(c, S, a, b, m, n) ==
  /\ c \in Seq(S) /\ Len(c) = m + n
  /\ \A k \in 1 .. m : c[k] = a[k]
  /\ \A k \in 1 .. n : c[m + k] = b[k]

LEMMA ConcatFacts ==
  ASSUME NEW S, NEW a \in Seq(S), NEW b \in Seq(S), NEW m \in Nat, NEW n \in Nat,
         Len(a) = m, Len(b) = n, NEW c, c = a \o b
  PROVE  Joined(c, S, a, b, m, n)
<1>1. /\ c \in Seq(S) /\ Len(c) = Len(a) + Len(b)
      /\ \A k \in 1 .. Len(a) + Len(b) : c[k] = IF k <= Len(a) THEN a[k] ELSE b[k - Len(a)]
  BY ConcatProperties, Zenon
<1>2. c \in Seq(S) /\ Len(c) = m + n /\ \A k \in 1 .. m : c[k] = a[k]
  BY <1>1
<1>3. ASSUME NEW k \in 1 .. n
      PROVE  c[m + k] = b[k]
  <2>1. m + k \in 1 .. Len(a) + Len(b) /\ ~(m + k <= Len(a)) /\ (m + k) - Len(a) = k
    OBVIOUS
  <2> QED
    BY <1>1, <2>1
<1> QED
  BY <1>2, <1>3 DEF Joined

(* An element is put in before place i, those from i on move up. *)
Inserted(t, S, s, i, e) ==
  /\ t \in Seq(S) /\ Len(t) = Len(s) + 1
  /\ \A k \in 1 .. Len(s) + 1 : t[k] = IF k < i THEN s[k] ELSE IF k = i THEN e ELSE s[k - 1]

LEMMA InsertAtFacts ==
  ASSUME NEW S, NEW s \in Seq(S), NEW i \in 1 .. Len(s) + 1, NEW e \in S,
         NEW t, t = InsertAt(s, i, e)
  PROVE  Inserted(t, S, s, i, e)
<1> DEFINE a == SubSeq(s, 1, i - 1)
           b == SubSeq(s, i, Len(s))
           ae == a \o <<e>>
<1>1. a \in Seq(S) /\ Len(a) = i - 1 /\ \A k \in 1 .. i - 1 : a[k] = s[k]
  BY SubSeqProperties
<1>2. b \in Seq(S) /\ Len(b) = Len(s) - i + 1 /\ \A k \in 1 .. Len(s) - i + 1 : b[k] = s[i + k - 1]
  BY SubSeqProperties
<1> HIDE DEF a, b
<1>3. ae \in Seq(S) /\ Len(ae) = i /\ \A k \in 1 .. i : ae[k] = IF k < i THEN s[k] ELSE e
  BY <1>1
<1> HIDE DEF ae
<1> DEFINE n == Len(s) - i + 1
<1>4. n \in Nat /\ i \in Nat /\ i + n = Len(s) + 1 /\ Len(b) = n /\ b \in Seq(S)
  BY <1>2
<1>5. t = ae \o b
  BY DEF InsertAt, ae, a, b
<1>6. /\ t \in Seq(S) /\ Len(t) = i + n
      /\ \A k \in 1 .. i : t[k] = ae[k]
      /\ \A k \in 1 .. n : t[i + k] = b[k]
  <2> HIDE DEF n
  <2>1. Joined(t, S, ae, b, i, n)
    BY <1>3, <1>4, <1>5, ConcatFacts, Zenon
  <2> QED
    BY <2>1 DEF Joined
<1>7. ASSUME NEW k \in 1 .. Len(s) + 1
      PROVE  t[k] = IF k < i THEN s[k] ELSE IF k = i THEN e ELSE s[k - 1]
  <2>1. CASE k <= i
    BY <1>3, <1>6, <2>1
  <2>2. CASE k > i
    <3>1. k - i \in 1 .. n /\ i + (k - i) = k /\ i + (k - i) - 1 = k - 1
      BY <2>2
    <3>2. t[i + (k - i)] = b[k - i] /\ b[k - i] = s[i + (k - i) - 1]
      BY <1>2, <1>6, <3>1
    <3> QED
      BY <2>2, <3>1, <3>2
  <2> QED
    BY <2>1, <2>2
<1> QED
  BY <1>4, <1>6, <1>7 DEF Inserted

(* Element i is taken out, those after it move down. *)
Removed(t, S, s, i) ==
  /\ t \in Seq(S) /\ Len(t) = Len(s) - 1
  /\ \A k \in 1 .. Len(s) - 1 : t[k] = IF k < i THEN s[k] ELSE s[k + 1]

LEMMA RemoveAtFacts ==
  ASSUME NEW S, NEW s \in Seq(S), NEW i \in 1 .. Len(s), NEW t, t = RemoveAt(s, i)
  PROVE  Removed(t, S, s, i)
<1> DEFINE a == SubSeq(s, 1, i - 1)
           b == SubSeq(s, i + 1, Len(s))
<1>1. a \in Seq(S) /\ Len(a) = i - 1 /\ \A k \in 1 .. i - 1 : a[k] = s[k]
  BY SubSeqProperties
<1>2. b \in Seq(S) /\ Len(b) = Len(s) - i /\ \A k \in 1 .. Len(s) - i : b[k] = s[i + k]
  BY SubSeqProperties
<1> HIDE DEF a, b
<1> DEFINE m == i - 1
           n == Len(s) - i
<1>3. m \in Nat /\ n \in Nat /\ m + n = Len(s) - 1
  OBVIOUS
<1>4. t = a \o b
  BY DEF RemoveAt, a, b
<1>5. /\ t \in Seq(S) /\ Len(t) = m + n
      /\ \A k \in 1 .. m : t[k] = a[k]
      /\ \A k \in 1 .. n : t[m + k] = b[k]
  <2> HIDE DEF m, n
  <2>1. a \in Seq(S) /\ b \in Seq(S) /\ Len(a) = m /\ Len(b) = n
    BY <1>1, <1>2 DEF m, n
  <2>2. Joined(t, S, a, b, m, n)
    BY <1>3, <1>4, <2>1, ConcatFacts, Zenon
  <2> QED
    BY <2>2 DEF Joined
<1>6. ASSUME NEW k \in 1 .. Len(s) - 1
      PROVE  t[k] = IF k < i THEN s[k] ELSE s[k + 1]
  <2>1. CASE k < i
    BY <1>1, <1>5, <2>1
  <2>2. CASE k >= i
    <3>1. k - m \in 1 .. n /\ m + (k - m) = k /\ i + (k - m) = k + 1
      BY <2>2
    <3>2. t[m + (k - m)] = b[k - m] /\ b[k - m] = s[i + (k - m)]
      BY <1>2, <1>5, <3>1
    <3> QED
      BY <2>2, <3>1, <3>2
  <2> QED
    BY <2>1, <2>2
<1> QED
  BY <1>3, <1>5, <1>6 DEF Removed

(* The first element is the one that Tail takes out. *)
LEMMA TailFacts ==
  ASSUME NEW S, NEW s \in Seq(S), s # <<>>
  PROVE  /\ Head(s) = s[1] /\ Len(s) >= 1 /\ Len(s) \in Nat
         /\ Tail(s) \in Seq(S) /\ Len(Tail(s)) = Len(s) - 1
         /\ \A k \in 1 .. Len(s) - 1 : Tail(s)[k] = s[k + 1]
<1>1. Len(s) \in Nat /\ Len(s) # 0
  BY EmptySeq, LenProperties
<1> QED
  BY <1>1, HeadTailProperties

-----------------------------------------------------------------------------
(* The table of the loads. *)

Load == [id : Processors, currentJobs : Int, maxConcurrent : Int]

Records(s)  == {s[i] : i \in DOMAIN s}
Distinct(s) == \A i, k \in DOMAIN s : s[i].id = s[k].id => i = k
Sorted(s)   == \A i, k \in DOMAIN s : i < k => s[i].currentJobs <= s[k].currentJobs

(* The position of the only record of a processor, 0 if there is none. *)
LEMMA PositionInFacts ==
  ASSUME NEW s \in Seq(Load), Distinct(s), NEW p
  PROVE  \/ /\ PositionIn(s, p) = 0
            /\ \A r \in Records(s) : r.id # p
         \/ /\ PositionIn(s, p) \in 1 .. Len(s)
            /\ s[PositionIn(s, p)] \in Records(s)
            /\ s[PositionIn(s, p)].id = p
            /\ \A r \in Records(s) : r.id = p => r = s[PositionIn(s, p)]
<1> DEFINE I == {i \in 1 .. Len(s) : s[i].id = p}
<1>1. PositionIn(s, p) = IF I # {} THEN Min(I) ELSE 0
  BY DEF PositionIn, SelectInSeq
<1>2. DOMAIN s = 1 .. Len(s)
  BY LenProperties
<1>3. CASE I = {}
  BY <1>1, <1>2, <1>3 DEF Records
<1>4. CASE I # {}
  <2>1. PICK k \in 1 .. Len(s) : s[k].id = p
    BY <1>4
  <2>2. I = {k}
    BY <1>2, <2>1 DEF Distinct
  <2>3. Min({k}) = k
    BY DEF Min
  <2>4. PositionIn(s, p) = k
    BY <1>1, <2>2, <2>3
  <2> QED
    BY <1>2, <2>1, <2>2, <2>4 DEF Records, Distinct
<1> QED
  BY <1>3, <1>4

LEMMA PositionFacts ==
  ASSUME processors \in Seq(Load), Distinct(processors), NEW p
  PROVE  \/ /\ Position(p) = 0
            /\ \A r \in Records(processors) : r.id # p
         \/ /\ Position(p) \in 1 .. Len(processors)
            /\ processors[Position(p)] \in Records(processors)
            /\ processors[Position(p)].id = p
<1>1. Position(p) = PositionIn(processors, p)
  BY DEF Position
<1>2. \/ /\ PositionIn(processors, p) = 0
         /\ \A r \in Records(processors) : r.id # p
      \/ /\ PositionIn(processors, p) \in 1 .. Len(processors)
         /\ processors[PositionIn(processors, p)] \in Records(processors)
         /\ processors[PositionIn(processors, p)].id = p
  BY PositionInFacts
<1> QED
  BY <1>1, <1>2

(* A record goes in before the first of the places 1 .. limit - 1 with     *)
(* more jobs, else at limit.                                               *)
LEMMA SortedInsertFacts ==
  ASSUME NEW s \in Seq(Load), NEW limit \in 1 .. Len(s) + 1, NEW r \in Load,
         Distinct(s), \A x \in Records(s) : x.id # r.id
  PROVE  /\ SortedInsert(s, limit, r) \in Seq(Load)
         /\ Distinct(SortedInsert(s, limit, r))
         /\ Records(SortedInsert(s, limit, r)) = Records(s) \union {r}
         /\ (/\ Sorted(s)
             /\ \A k \in limit .. Len(s) : s[k].currentJobs >= r.currentJobs)
               => Sorted(SortedInsert(s, limit, r))
<1> DEFINE more  == {k \in 1 .. limit - 1 : s[k].currentJobs > r.currentJobs}
           place == IF more = {} THEN limit ELSE CHOOSE k \in more : \A j \in more : k <= j
           t == SortedInsert(s, limit, r)
<1>0. Len(s) \in Nat /\ DOMAIN s = 1 .. Len(s) /\ \A k \in 1 .. Len(s) : s[k] \in Load
  BY LenProperties
<1>1. /\ place \in 1 .. Len(s) + 1 /\ place <= limit
      /\ more = {} => place = limit
      /\ more # {} => place \in more /\ \A k \in more : place <= k
  <2>1. CASE more = {}
    BY <2>1
  <2>2. CASE more # {}
    <3>1. more \in SUBSET Nat
      OBVIOUS
    <3>2. \E k \in more : \A j \in more : k <= j
      <4> HIDE DEF more
      <4> QED
        BY <2>2, <3>1, LeastNatural
    <3>3. place \in more /\ \A k \in more : place <= k
      BY <2>2, <3>2
    <3> QED
      BY <1>0, <2>2, <3>3, SMTT(30)
  <2> QED
    BY <2>1, <2>2
<1>2. t = InsertAt(s, place, r)
  BY DEF SortedInsert
<1> HIDE DEF t, place
<1>3. /\ t \in Seq(Load) /\ Len(t) = Len(s) + 1
      /\ \A k \in 1 .. Len(s) + 1 :
           t[k] = IF k < place THEN s[k] ELSE IF k = place THEN r ELSE s[k - 1]
  <2>1. Inserted(t, Load, s, place, r)
    BY <1>1, <1>2, InsertAtFacts, Zenon
  <2> QED
    BY <2>1 DEF Inserted
<1>4. DOMAIN t = 1 .. Len(s) + 1
  BY <1>3, LenProperties
<1>5. Records(t) = Records(s) \union {r}
  <2>1. ASSUME NEW k \in 1 .. Len(s) + 1
        PROVE  t[k] \in Records(s) \union {r}
    <3>1. CASE k = place
      BY <1>1, <1>3, <3>1
    <3>2. CASE k < place
      <4>1. k \in 1 .. Len(s) /\ t[k] = s[k]
        BY <1>0, <1>1, <1>3, <3>2
      <4> QED
        BY <1>0, <4>1 DEF Records
    <3>3. CASE k > place
      <4>1. k - 1 \in 1 .. Len(s) /\ t[k] = s[k - 1]
        BY <1>0, <1>1, <1>3, <3>3
      <4> QED
        BY <1>0, <4>1 DEF Records
    <3> QED
      BY <1>0, <1>1, <3>1, <3>2, <3>3
  <2>2. r \in Records(t)
    <3>1. t[place] = r /\ place \in DOMAIN t
      BY <1>1, <1>3, <1>4
    <3> QED
      BY <3>1, Zenon DEF Records
  <2>3. ASSUME NEW k \in 1 .. Len(s)
        PROVE  s[k] \in Records(t)
    <3>1. CASE k < place
      BY <1>0, <1>1, <1>3, <1>4, <3>1, SMTT(30) DEF Records
    <3>2. CASE k >= place
      <4>1. k + 1 \in 1 .. Len(s) + 1 /\ t[k + 1] = s[k]
        BY <1>0, <1>1, <1>3, <3>2
      <4> QED
        BY <1>4, <4>1 DEF Records
    <3> QED
      BY <1>0, <1>1, <3>1, <3>2
  <2> QED
    BY <1>0, <1>4, <2>1, <2>2, <2>3 DEF Records
<1>6. Distinct(t)
  <2> SUFFICES ASSUME NEW i \in 1 .. Len(s) + 1, NEW k \in 1 .. Len(s) + 1, t[i].id = t[k].id
               PROVE  i = k
    BY <1>4 DEF Distinct
  <2>1. \A x \in 1 .. Len(s) : s[x].id # r.id
    BY <1>0 DEF Records
  <2>2. \A x, y \in 1 .. Len(s) : s[x].id = s[y].id => x = y
    BY <1>0 DEF Distinct
  <2> HIDE DEF more
  <2>3. ASSUME NEW x \in 1 .. Len(s) + 1
        PROVE  \/ x = place /\ t[x] = r
               \/ x < place /\ x \in 1 .. Len(s) /\ t[x] = s[x]
               \/ x > place /\ x - 1 \in 1 .. Len(s) /\ t[x] = s[x - 1]
    BY <1>0, <1>1, <1>3
  <2>4. CASE i = place
    <3>1. t[i] = r
      BY <2>3, <2>4
    <3> QED
      BY <1>0, <1>1, <2>1, <2>3, <2>4, <3>1
  <2>5. CASE i < place
    BY <1>0, <1>1, <2>1, <2>2, <2>3, <2>5
  <2>6. CASE i > place
    BY <1>0, <1>1, <2>1, <2>2, <2>3, <2>6
  <2> QED
    BY <1>0, <1>1, <2>4, <2>5, <2>6
<1>7. ASSUME Sorted(s), \A k \in limit .. Len(s) : s[k].currentJobs >= r.currentJobs
      PROVE  Sorted(t)
  <2> SUFFICES ASSUME NEW i \in 1 .. Len(s) + 1, NEW k \in 1 .. Len(s) + 1, i < k
               PROVE  t[i].currentJobs <= t[k].currentJobs
    BY <1>4 DEF Sorted
  <2>1. \A x, y \in 1 .. Len(s) : x < y => s[x].currentJobs <= s[y].currentJobs
    BY <1>0, <1>7 DEF Sorted
  <2>2. \A x \in 1 .. Len(s) : s[x].currentJobs \in Int
    BY <1>0 DEF Load
  <2>3. \A x \in 1 .. Len(s) : x < place => s[x].currentJobs <= r.currentJobs
    <3> SUFFICES ASSUME NEW x \in 1 .. Len(s), x < place
                 PROVE  s[x].currentJobs <= r.currentJobs
      OBVIOUS
    <3>1. x \in 1 .. limit - 1 /\ x \notin more
      <4> HIDE DEF more
      <4> QED
        BY <1>0, <1>1
    <3>2. ~(s[x].currentJobs > r.currentJobs)
      BY <3>1
    <3>3. s[x].currentJobs \in Int /\ r.currentJobs \in Int
      BY <2>2 DEF Load
    <3> HIDE DEF more
    <3> QED
      BY <3>2, <3>3
  <2>4. \A x \in 1 .. Len(s) : x >= place => s[x].currentJobs >= r.currentJobs
    <3>1. CASE more = {}
      BY <1>1, <1>7, <3>1
    <3>2. CASE more # {}
      <4>1. place \in 1 .. Len(s) /\ s[place].currentJobs > r.currentJobs
        BY <1>0, <1>1, <3>2
      <4>2. ASSUME NEW x \in 1 .. Len(s), x >= place
            PROVE  s[x].currentJobs >= s[place].currentJobs
        <5>1. CASE x = place
          BY <2>2, <4>1, <5>1
        <5>2. CASE x > place
          <6> HIDE DEF more
          <6> QED
            BY <2>1, <4>1, <5>2
        <5> QED
          BY <1>0, <1>1, <4>1, <4>2, <5>1, <5>2
      <4>3. r.currentJobs \in Int
        BY DEF Load
      <4>4. ASSUME NEW x \in 1 .. Len(s), x >= place
            PROVE  s[x].currentJobs >= r.currentJobs
        <5> HIDE DEF more
        <5> QED
          BY <2>2, <4>1, <4>2, <4>3, <4>4
      <4> QED
        BY <4>4
    <3> QED
      BY <3>1, <3>2
  <2>5. r.currentJobs \in Int
    BY DEF Load
  <2>6. /\ t[i] = IF i < place THEN s[i] ELSE IF i = place THEN r ELSE s[i - 1]
        /\ t[k] = IF k < place THEN s[k] ELSE IF k = place THEN r ELSE s[k - 1]
    BY <1>3
  <2>7. CASE i < place
    <3>1. CASE k < place
      BY <1>0, <1>1, <2>1, <2>6, <2>7, <3>1
    <3>2. CASE k = place
      BY <1>0, <1>1, <2>3, <2>6, <2>7, <3>2
    <3>3. CASE k > place
      BY <1>0, <1>1, <2>2, <2>3, <2>4, <2>5, <2>6, <2>7, <3>3
    <3> QED
      BY <1>0, <1>1, <3>1, <3>2, <3>3
  <2>8. CASE i = place
    BY <1>0, <1>1, <2>4, <2>6, <2>8
  <2>9. CASE i > place
    BY <1>0, <1>1, <2>1, <2>6, <2>9
  <2> QED
    BY <1>0, <1>1, <2>7, <2>8, <2>9
<1> QED
  BY <1>3, <1>5, <1>6, <1>7 DEF t

(* A record is taken out. *)
LEMMA RemoveLoadFacts ==
  ASSUME NEW s \in Seq(Load), NEW i \in 1 .. Len(s), Distinct(s),
         NEW t, Removed(t, Load, s, i)
  PROVE  /\ t \in Seq(Load) /\ Len(t) = Len(s) - 1
         /\ Distinct(t)
         /\ Records(t) = Records(s) \ {s[i]}
         /\ \A x \in Records(t) : x.id # s[i].id
         /\ Sorted(s) =>
              /\ Sorted(t)
              /\ \A k \in i .. Len(s) - 1 : t[k].currentJobs >= s[i].currentJobs
<1>0. Len(s) \in Nat /\ DOMAIN s = 1 .. Len(s) /\ \A k \in 1 .. Len(s) : s[k] \in Load
  BY LenProperties
<1>1. /\ t \in Seq(Load) /\ Len(t) = Len(s) - 1
      /\ \A k \in 1 .. Len(s) - 1 : t[k] = IF k < i THEN s[k] ELSE s[k + 1]
  BY DEF Removed
<1>2. DOMAIN t = 1 .. Len(s) - 1
  BY <1>1, LenProperties
<1>3. \A x, y \in 1 .. Len(s) : s[x].id = s[y].id => x = y
  BY <1>0 DEF Distinct
<1>4. ASSUME NEW k \in 1 .. Len(s) - 1
      PROVE  t[k] \in Records(s) /\ t[k].id # s[i].id
  <2>1. CASE k < i
    BY <1>0, <1>1, <1>3, <2>1 DEF Records
  <2>2. CASE k >= i
    <3>1. k + 1 \in 1 .. Len(s) /\ k + 1 # i /\ t[k] = s[k + 1]
      BY <1>0, <1>1, <2>2
    <3> QED
      BY <1>0, <1>3, <3>1 DEF Records
  <2> QED
    BY <1>0, <2>1, <2>2
<1>5. ASSUME NEW k \in 1 .. Len(s), k # i
      PROVE  s[k] \in Records(t)
  <2>1. CASE k < i
    BY <1>0, <1>1, <1>2, <2>1 DEF Records
  <2>2. CASE k > i
    <3>1. k - 1 \in 1 .. Len(s) - 1 /\ t[k - 1] = s[(k - 1) + 1] /\ (k - 1) + 1 = k
      BY <1>0, <1>1, <2>2
    <3> QED
      BY <1>2, <3>1 DEF Records
  <2> QED
    BY <1>5, <2>1, <2>2
<1>6. Records(t) = Records(s) \ {s[i]}
  BY <1>0, <1>2, <1>4, <1>5 DEF Records
<1>7. \A x \in Records(t) : x.id # s[i].id
  BY <1>2, <1>4 DEF Records
<1>8. Distinct(t)
  <2> SUFFICES ASSUME NEW x \in 1 .. Len(s) - 1, NEW y \in 1 .. Len(s) - 1, t[x].id = t[y].id
               PROVE  x = y
    BY <1>2 DEF Distinct
  <2> QED
    BY <1>0, <1>1, <1>3
<1>9. ASSUME Sorted(s)
      PROVE  /\ Sorted(t)
             /\ \A k \in i .. Len(s) - 1 : t[k].currentJobs >= s[i].currentJobs
  <2>1. \A x, y \in 1 .. Len(s) : x < y => s[x].currentJobs <= s[y].currentJobs
    BY <1>0, <1>9 DEF Sorted
  <2>2. ASSUME NEW x \in 1 .. Len(s) - 1, NEW y \in 1 .. Len(s) - 1, x < y
        PROVE  t[x].currentJobs <= t[y].currentJobs
    BY <1>0, <1>1, <2>1, <2>2
  <2>3. ASSUME NEW k \in i .. Len(s) - 1
        PROVE  t[k].currentJobs >= s[i].currentJobs
    <3>1. k \in 1 .. Len(s) - 1 /\ k + 1 \in 1 .. Len(s) /\ i < k + 1 /\ t[k] = s[k + 1]
      BY <1>0, <1>1
    <3>2. s[i].currentJobs \in Int /\ s[k + 1].currentJobs \in Int
      BY <1>0, <3>1 DEF Load
    <3> QED
      BY <2>1, <3>1, <3>2
  <2> QED
    BY <1>2, <2>2, <2>3 DEF Sorted
<1> QED
  BY <1>1, <1>6, <1>7, <1>8, <1>9

(* A record is put in the place of the one of the same processor. *)
Replaced(t, s, i, r) ==
  /\ t \in Seq(Load) /\ Distinct(t)
  /\ Records(t) = (Records(s) \ {s[i]}) \union {r}

LEMMA ReplaceLoadFacts ==
  ASSUME NEW s \in Seq(Load), NEW i \in 1 .. Len(s), Distinct(s),
         NEW r \in Load, r.id = s[i].id, NEW t, t = [s EXCEPT ![i] = r]
  PROVE  Replaced(t, s, i, r)
<1>0. Len(s) \in Nat /\ DOMAIN s = 1 .. Len(s) /\ s \in [1 .. Len(s) -> Load]
  BY LenProperties
<1>1. t \in Seq(Load) /\ DOMAIN t = 1 .. Len(s)
  BY <1>0, ExceptSeq
<1>2. \A k \in 1 .. Len(s) : t[k] = IF k = i THEN r ELSE s[k]
  BY <1>0
<1>3. Distinct(t)
  BY <1>0, <1>1, <1>2 DEF Distinct
<1>4. \A k \in 1 .. Len(s) : k # i => s[k] # s[i]
  BY <1>0 DEF Distinct
<1>5. Records(t) = (Records(s) \ {s[i]}) \union {r}
  BY <1>0, <1>1, <1>2, <1>4 DEF Records
<1> QED
  BY <1>1, <1>3, <1>5 DEF Replaced

(* A record of another processor is put at the end. *)
LEMMA AppendLoadFacts ==
  ASSUME NEW s \in Seq(Load), Distinct(s), NEW r \in Load,
         \A x \in Records(s) : x.id # r.id, NEW t, t = Append(s, r)
  PROVE  /\ t \in Seq(Load) /\ Distinct(t)
         /\ Records(t) = Records(s) \union {r}
<1>0. Len(s) \in Nat /\ DOMAIN s = 1 .. Len(s)
  BY LenProperties
<1>1. /\ t \in Seq(Load) /\ Len(t) = Len(s) + 1
      /\ t[Len(s) + 1] = r /\ \A k \in 1 .. Len(s) : t[k] = s[k]
  BY AppendProperties
<1>2. DOMAIN t = 1 .. Len(s) + 1
  BY <1>0, <1>1, LenProperties
<1>3. \A k \in 1 .. Len(s) : s[k].id # r.id
  BY <1>0 DEF Records
<1>4. Distinct(t)
  BY <1>0, <1>1, <1>2, <1>3 DEF Distinct
<1>5. Records(t) = Records(s) \union {r}
  BY <1>0, <1>1, <1>2 DEF Records
<1> QED
  BY <1>1, <1>4, <1>5

(* JobsFinished takes currentJobs down to -1 and adds what is left to the  *)
(* capacity: the places of the processor are n more.                       *)
LEMMA JobsFinishedFacts ==
  ASSUME NEW r \in Load, r.currentJobs >= -1, NEW n \in Nat
  PROVE  /\ JobsFinished(r, n) \in Load
         /\ JobsFinished(r, n).id = r.id
         /\ JobsFinished(r, n).currentJobs =
              IF n <= r.currentJobs + 1 THEN r.currentJobs - n ELSE -1
         /\ Available(JobsFinished(r, n)) = Available(r) + n
<1> DEFINE c == r.currentJobs
           m == r.maxConcurrent
           form(i) == [id |-> r.id,
                       currentJobs |-> IF i <= c + 1 THEN c - i ELSE -1,
                       maxConcurrent |-> IF i <= c + 1 THEN m ELSE m + (i - c - 1)]
           Is(a) == a = [i \in Nat |-> IF i = 0 THEN r ELSE JobFinished(a[i - 1])]
           after == CHOOSE a : Is(a)
           F == [i \in Nat |-> form(i)]
<1>0. c \in Int /\ m \in Int /\ r.id \in Processors /\ c >= -1
  BY DEF Load
<1>1. r = form(0)
  BY <1>0 DEF Load
<1>2. ASSUME NEW i \in Nat, i # 0
      PROVE  JobFinished(form(i - 1)) = form(i)
  <2>1. CASE i <= c + 1
    BY <1>0, <1>2, <2>1 DEF JobFinished
  <2>2. CASE i > c + 1
    BY <1>0, <1>2, <2>2 DEF JobFinished
  <2> QED
    BY <1>0, <2>1, <2>2
<1> HIDE DEF form, c, m
<1>3. Is(F)
  BY <1>1, <1>2
<1>4. Is(after)
  <2> HIDE DEF Is, F
  <2> QED
    BY <1>3, Zenon
<1> HIDE DEF after
<1>5. \A i \in Nat : after[i] = form(i)
  <2> DEFINE T == {i \in Nat : after[i] = form(i)}
  <2>1. 0 \in T
    BY <1>1, <1>4
  <2>2. \A i \in Nat : i \in T => i + 1 \in T
    BY <1>2, <1>4
  <2> HIDE DEF T
  <2>3. Nat \subseteq T
    BY <2>1, <2>2, InductiveSet
  <2> QED
    BY <2>3 DEF T
<1>6. JobsFinished(r, n) = form(n)
  BY <1>5 DEF JobsFinished, after
<1>7. form(n) \in Load
  BY <1>0 DEF form, Load
<1>8. form(n).id = r.id /\ form(n).currentJobs = IF n <= c + 1 THEN c - n ELSE -1
  BY <1>0 DEF form
<1>9. form(n).maxConcurrent - form(n).currentJobs = m - c + n
  BY <1>0 DEF form
<1> QED
  BY <1>6, <1>7, <1>8, <1>9 DEF Available, c, m

-----------------------------------------------------------------------------
(* What a step does to the table. *)

Table(s) ==
  /\ s \in Seq(Load) /\ Distinct(s)
  /\ \A r \in Records(s) : r.currentJobs >= -1
  /\ strategy = "JOIN_SHORTEST_QUEUE" => Sorted(s)

(* setIdleProcessor: the record of p is brought up to date, or made. *)
LEMMA SetIdleTable ==
  ASSUME Table(processors), UsesLoad, NEW p \in Processors, NEW n \in Nat,
         SetIdleProcessor(p, n)
  PROVE  /\ Table(processors') /\ totalIdleProcessors' = totalIdleProcessors + n
         /\ \E old \in Load :
              /\ \/ old \in Records(processors) /\ old.id = p
                 \/ old = NewLoad(p) /\ \A r \in Records(processors) : r.id # p
              /\ Records(processors') = (Records(processors) \ {old}) \union {JobsFinished(old, n)}
<1>0. processors \in Seq(Load) /\ Distinct(processors)
  BY DEF Table
<1>1. Len(processors) \in Nat /\ DOMAIN processors = 1 .. Len(processors)
  BY <1>0, LenProperties
<1>2. totalIdleProcessors' = totalIdleProcessors + n
  BY DEF SetIdleProcessor
<1> DEFINE i   == Position(p)
           old == IF i = 0 THEN NewLoad(p) ELSE processors[i]
           new == JobsFinished(old, n)
<1>3. processors' = IF strategy = "BALANCED"
                    THEN IF i = 0 THEN Append(processors, new) ELSE [processors EXCEPT ![i] = new]
                    ELSE IF i = 0 THEN SortedInsert(processors, Len(processors) + 1, new)
                         ELSE SortedInsert(RemoveAt(processors, i), i, new)
  BY DEF SetIdleProcessor
<1>4. strategy = "BALANCED" \/ strategy = "JOIN_SHORTEST_QUEUE"
  BY DEF UsesLoad
<1>5. \/ i = 0 /\ \A r \in Records(processors) : r.id # p
      \/ /\ i \in 1 .. Len(processors) /\ processors[i] \in Records(processors)
         /\ processors[i].id = p
  BY <1>0, PositionFacts
<1> HIDE DEF i
<1>6. /\ old \in Load /\ old.id = p /\ old.currentJobs >= -1
      /\ i # 0 => old = processors[i]
      /\ i = 0 => old = NewLoad(p)
  <2>1. CASE i = 0
    BY <2>1 DEF NewLoad, Load
  <2>2. CASE i # 0
    BY <1>0, <1>1, <1>5, <2>2, ElementOfSeq DEF Table
  <2> QED
    BY <2>1, <2>2
<1> HIDE DEF old
<1>7. /\ new \in Load /\ new.id = p
      /\ new.currentJobs = IF n <= old.currentJobs + 1 THEN old.currentJobs - n ELSE -1
  BY <1>6, JobsFinishedFacts
<1> HIDE DEF new
<1>8. old.currentJobs \in Int /\ new.currentJobs >= -1 /\ new.currentJobs <= old.currentJobs
  BY <1>6, <1>7 DEF Load
<1>9. /\ processors' \in Seq(Load) /\ Distinct(processors')
      /\ Records(processors') = (Records(processors) \ {old}) \union {new}
      /\ strategy = "JOIN_SHORTEST_QUEUE" => Sorted(processors')
  <2>1. CASE i = 0
    <3>1. \A r \in Records(processors) : r.id # new.id
      BY <1>1, <1>5, <1>7, <2>1
    <3>2. Records(processors) \ {old} = Records(processors)
      BY <1>1, <1>5, <1>6, <2>1
    <3>3. CASE strategy = "BALANCED"
      <4>1. processors' = Append(processors, new)
        BY <1>3, <2>1, <3>3
      <4>2. /\ processors' \in Seq(Load) /\ Distinct(processors')
            /\ Records(processors') = Records(processors) \union {new}
        BY <1>0, <1>7, <3>1, <4>1, AppendLoadFacts
      <4> QED
        BY <3>2, <3>3, <4>2
    <3>4. CASE strategy = "JOIN_SHORTEST_QUEUE"
      <4>1. processors' = SortedInsert(processors, Len(processors) + 1, new)
        BY <1>3, <2>1, <3>4
      <4> DEFINE limit == Len(processors) + 1
      <4>2. limit \in 1 .. Len(processors) + 1 /\ limit .. Len(processors) = {}
        BY <1>1
      <4> HIDE DEF limit
      <4>3. Sorted(processors)
        BY <3>4 DEF Table
      <4>4. processors' = SortedInsert(processors, limit, new)
        BY <4>1 DEF limit
      <4> QED
        BY <1>0, <1>7, <3>1, <3>2, <4>2, <4>3, <4>4, SortedInsertFacts
    <3> QED
      BY <1>4, <3>3, <3>4
  <2>2. CASE i # 0
    <3>0. i \in 1 .. Len(processors) /\ old = processors[i] /\ new.id = processors[i].id
      BY <1>1, <1>5, <1>6, <1>7, <2>2
    <3>1. CASE strategy = "BALANCED"
      <4>1. processors' = [processors EXCEPT ![i] = new]
        BY <1>3, <2>2, <3>1
      <4>2. Replaced(processors', processors, i, new)
        <5>1. new \in Load
          BY <1>7
        <5> QED
          BY <1>0, <3>0, <4>1, <5>1, ReplaceLoadFacts, Zenon
      <4> QED
        BY <3>0, <3>1, <4>2 DEF Replaced
    <3>2. CASE strategy = "JOIN_SHORTEST_QUEUE"
      <4> DEFINE rest == RemoveAt(processors, i)
      <4>1. processors' = SortedInsert(rest, i, new)
        BY <1>3, <2>2, <3>2
      <4>2. rest = RemoveAt(processors, i)
        OBVIOUS
      <4> HIDE DEF rest
      <4>3. Removed(rest, Load, processors, i)
        BY <1>0, <3>0, <4>2, RemoveAtFacts, Zenon
      <4>4. Sorted(processors)
        BY <3>2 DEF Table
      <4>5. /\ rest \in Seq(Load) /\ Len(rest) = Len(processors) - 1 /\ Distinct(rest)
            /\ Records(rest) = Records(processors) \ {old}
            /\ \A x \in Records(rest) : x.id # new.id
            /\ Sorted(rest)
            /\ \A k \in i .. Len(processors) - 1 : rest[k].currentJobs >= old.currentJobs
        BY <1>0, <3>0, <4>3, <4>4, RemoveLoadFacts
      <4>6. i \in 1 .. Len(rest) + 1
        BY <1>1, <3>0, <4>5
      <4>7. \A k \in i .. Len(rest) : rest[k].currentJobs >= new.currentJobs
        <5>1. \A k \in 1 .. Len(rest) : rest[k] \in Load
          BY <4>5, ElementOfSeq
        <5>2. ASSUME NEW k \in i .. Len(rest)
              PROVE  rest[k].currentJobs >= new.currentJobs
          <6>1. k \in 1 .. Len(rest) /\ k \in i .. Len(processors) - 1
            BY <1>1, <3>0, <4>5
          <6>2. rest[k].currentJobs \in Int /\ new.currentJobs \in Int
            BY <1>7, <5>1, <6>1 DEF Load
          <6> QED
            BY <1>8, <4>5, <6>1, <6>2
        <5> QED
          BY <5>2
      <4> QED
        BY <1>7, <4>1, <4>5, <4>6, <4>7, SortedInsertFacts
    <3> QED
      BY <1>4, <3>1, <3>2
  <2> QED
    BY <2>1, <2>2
<1>10. \A r \in Records(processors') : r.currentJobs >= -1
  BY <1>8, <1>9 DEF Table
<1> QED
  BY <1>2, <1>5, <1>6, <1>9, <1>10 DEF Table, new

(* setNextProcessorBusy: the record of the chosen p is brought up to date. *)
LEMMA SetBusyTable ==
  ASSUME Table(processors), UsesLoad, NEW p \in Processors, SetProcessorBusy(p),
         strategy = "JOIN_SHORTEST_QUEUE" =>
           processors # <<>> /\ Available(Head(processors)) > 0
  PROVE  /\ Table(processors') /\ totalIdleProcessors' = totalIdleProcessors - 1
         /\ \E old \in Records(processors) :
              /\ old.id = p /\ Available(old) > 0
              /\ Records(processors') = (Records(processors) \ {old}) \union {JobAssigned(old)}
              /\ strategy = "JOIN_SHORTEST_QUEUE" =>
                   \A r \in Records(processors) : old.currentJobs <= r.currentJobs
<1>0. processors \in Seq(Load) /\ Distinct(processors)
  BY DEF Table
<1>1. Len(processors) \in Nat /\ DOMAIN processors = 1 .. Len(processors)
  BY <1>0, LenProperties
<1>2. CASE strategy = "BALANCED"
  <2> DEFINE i   == Position(p)
             old == processors[i]
             new == JobAssigned(old)
  <2>1. /\ i # 0 /\ Available(old) > 0 /\ processors' = [processors EXCEPT ![i] = new]
        /\ totalIdleProcessors' = totalIdleProcessors - 1
    <3>1. /\ i # 0 /\ Available(old) > 0
          /\ processors' = [processors EXCEPT ![i] = JobAssigned(@)]
          /\ totalIdleProcessors' = totalIdleProcessors - 1
      BY <1>2 DEF SetProcessorBusy
    <3> QED
      BY <3>1
  <2>2. i \in 1 .. Len(processors) /\ old \in Records(processors) /\ old.id = p
    BY <1>0, <2>1, PositionFacts
  <2> HIDE DEF i
  <2>3. old \in Load
    BY <1>0, <2>2, ElementOfSeq
  <2>4. old.currentJobs >= -1
    BY <2>2 DEF Table
  <2>5. new \in Load /\ new.id = old.id /\ new.currentJobs = old.currentJobs + 1
    <3> HIDE DEF old
    <3> QED
      BY <2>3 DEF JobAssigned, Load
  <2> HIDE DEF new
  <2>6. /\ processors' \in Seq(Load) /\ Distinct(processors')
        /\ Records(processors') = (Records(processors) \ {old}) \union {new}
    <3>1. new.id = processors[i].id /\ new \in Load
      BY <2>5
    <3>2. Replaced(processors', processors, i, new)
      BY <1>0, <2>1, <2>2, <3>1, ReplaceLoadFacts, Zenon
    <3> QED
      BY <3>2 DEF Replaced
  <2>7. new.currentJobs >= -1
    <3> HIDE DEF old
    <3> QED
      BY <2>3, <2>4, <2>5 DEF Load
  <2>8. Table(processors')
    BY <1>2, <2>6, <2>7 DEF Table
  <2> QED
    BY <1>2, <2>1, <2>2, <2>6, <2>8 DEF new
<1>3. CASE strategy = "JOIN_SHORTEST_QUEUE"
  <2> DEFINE old  == Head(processors)
             new  == JobAssigned(old)
             rest == Tail(processors)
  <2>1. /\ old.id = p /\ processors' = SortedInsert(rest, Len(processors), new)
        /\ totalIdleProcessors' = totalIdleProcessors - 1
    BY <1>3 DEF SetProcessorBusy
  <2>2. /\ old = processors[1] /\ Len(processors) >= 1
        /\ Removed(rest, Load, processors, 1)
    <3>1. /\ old = processors[1] /\ Len(processors) >= 1
          /\ rest \in Seq(Load) /\ Len(rest) = Len(processors) - 1
          /\ \A k \in 1 .. Len(processors) - 1 : rest[k] = processors[k + 1]
      BY <1>0, <1>3, TailFacts
    <3> QED
      BY <1>1, <3>1 DEF Removed
  <2> HIDE DEF old, rest
  <2>3. old \in Records(processors) /\ old \in Load /\ 1 \in 1 .. Len(processors)
    BY <1>0, <1>1, <2>2, ElementOfSeq DEF Records
  <2>4. Sorted(processors)
    BY <1>3 DEF Table
  <2>5. new \in Load /\ new.id = old.id /\ new.currentJobs = old.currentJobs + 1
    BY <2>3 DEF JobAssigned, Load
  <2> HIDE DEF new
  <2>6. /\ rest \in Seq(Load) /\ Len(rest) = Len(processors) - 1 /\ Distinct(rest)
        /\ Records(rest) = Records(processors) \ {old}
        /\ \A x \in Records(rest) : x.id # new.id
        /\ Sorted(rest)
    BY <1>0, <2>2, <2>3, <2>4, <2>5, RemoveLoadFacts
  <2>7. Len(processors) \in 1 .. Len(rest) + 1 /\ Len(processors) .. Len(rest) = {}
    BY <1>1, <2>2, <2>6
  <2>8. /\ processors' \in Seq(Load) /\ Distinct(processors') /\ Sorted(processors')
        /\ Records(processors') = (Records(processors) \ {old}) \union {new}
    <3> DEFINE limit == Len(processors)
    <3>1. limit \in 1 .. Len(rest) + 1 /\ limit .. Len(rest) = {}
      BY <2>7
    <3>2. processors' = SortedInsert(rest, limit, new)
      BY <2>1
    <3> HIDE DEF limit
    <3> QED
      BY <2>5, <2>6, <3>1, <3>2, SortedInsertFacts
  <2>9. new.currentJobs >= -1
    BY <2>3, <2>5 DEF Table, Load
  <2>10. Table(processors')
    BY <2>8, <2>9 DEF Table
  <2>11. ASSUME NEW r \in Records(processors)
         PROVE  old.currentJobs <= r.currentJobs
    <3>1. PICK k \in 1 .. Len(processors) : r = processors[k]
      BY <1>1 DEF Records
    <3>2. CASE k = 1
      BY <2>2, <2>3, <3>1, <3>2 DEF Load
    <3>3. CASE k # 1
      BY <1>1, <2>2, <2>3, <2>4, <3>1, <3>3 DEF Sorted
    <3> QED
      BY <3>2, <3>3
  <2> QED
    BY <1>3, <2>1, <2>3, <2>8, <2>10, <2>11 DEF new, old
<1> QED
  BY <1>2, <1>3 DEF UsesLoad

-----------------------------------------------------------------------------
(* The account of a processor. *)

AccountIn(s, p) == IF PositionIn(s, p) = 0 THEN 0 ELSE Available(s[PositionIn(s, p)])
Count(s, p)     == Cardinality({i \in DOMAIN s : s[i] = p})

(* It is what the record of the processor has left, or the number of times *)
(* the list of idle places names the processor.                            *)
LEMMA AccountIs ==
  ASSUME NEW p
  PROVE  /\ UsesLoad => Account(p) = AccountIn(processors, p)
         /\ ~UsesLoad => Account(p) = Count(idleProcessorIds, p)
         /\ UsesLoad' => Account(p)' = AccountIn(processors', p)
         /\ ~UsesLoad' => Account(p)' = Count(idleProcessorIds', p)
<1>1. UsesLoad => Account(p) = AccountIn(processors, p)
  BY DEF Account, AccountIn, Position
<1>2. ~UsesLoad => Account(p) = Count(idleProcessorIds, p)
  BY DEF Account, Count
<1>3. UsesLoad' => Account(p)' = AccountIn(processors', p)
  BY DEF Account, AccountIn, Position
<1>4. ~UsesLoad' => Account(p)' = Count(idleProcessorIds', p)
  BY DEF Account, Count
<1> QED
  BY <1>1, <1>2, <1>3, <1>4

LEMMA AccountInFacts ==
  ASSUME NEW s \in Seq(Load), Distinct(s), NEW p
  PROVE  /\ \A r \in Records(s) : r.id = p => AccountIn(s, p) = Available(r)
         /\ (\A r \in Records(s) : r.id # p) => AccountIn(s, p) = 0
<1>1. \/ PositionIn(s, p) = 0 /\ \A r \in Records(s) : r.id # p
      \/ /\ PositionIn(s, p) \in 1 .. Len(s)
         /\ s[PositionIn(s, p)] \in Records(s) /\ s[PositionIn(s, p)].id = p
         /\ \A r \in Records(s) : r.id = p => r = s[PositionIn(s, p)]
  BY PositionInFacts
<1>2. CASE PositionIn(s, p) = 0
  <2>1. AccountIn(s, p) = 0
    BY <1>2 DEF AccountIn
  <2>2. Len(s) \in Nat
    BY LenProperties
  <2> QED
    BY <1>1, <1>2, <2>1, <2>2
<1>3. CASE PositionIn(s, p) # 0
  <2>1. AccountIn(s, p) = Available(s[PositionIn(s, p)])
    BY <1>3 DEF AccountIn
  <2> QED
    BY <1>1, <1>3, <2>1
<1> QED
  BY <1>2, <1>3

(* One record is made or replaced. *)
AccountChanged(t, s, p, old, new) ==
  /\ AccountIn(t, p) = Available(new)
  /\ \A q : q # p => AccountIn(t, q) = AccountIn(s, q)

LEMMA AccountInChange ==
  ASSUME NEW s \in Seq(Load), NEW t \in Seq(Load), Distinct(s), Distinct(t),
         NEW p, NEW old \in Load, NEW new \in Load, old.id = p, new.id = p,
         Records(t) = (Records(s) \ {old}) \union {new},
         old \in Records(s) \/ \A r \in Records(s) : r.id # p
  PROVE  AccountChanged(t, s, p, old, new)
<1>1. AccountIn(t, p) = Available(new)
  BY AccountInFacts
<1>2. ASSUME NEW q, q # p
      PROVE  AccountIn(t, q) = AccountIn(s, q)
  <2>1. CASE \E r \in Records(s) : r.id = q
    <3>1. PICK r \in Records(s) : r.id = q
      BY <2>1
    <3>2. r \in Records(t)
      BY <1>2, <3>1
    <3> QED
      BY <3>1, <3>2, AccountInFacts, Zenon
  <2>2. CASE \A r \in Records(s) : r.id # q
    <3>1. \A r \in Records(t) : r.id # q
      BY <1>2, <2>2
    <3> QED
      BY <2>2, <3>1, AccountInFacts, Zenon
  <2> QED
    BY <2>1, <2>2
<1> QED
  BY <1>1, <1>2 DEF AccountChanged

(* A name taken out of the list counts once less. *)
LEMMA CountRemoved ==
  ASSUME NEW s \in Seq(Processors), NEW i \in 1 .. Len(s), NEW t,
         Removed(t, Processors, s, i), NEW q \in Processors
  PROVE  /\ Count(s, q) \in Nat /\ Count(t, q) \in Nat
         /\ Count(t, q) = IF q = s[i] THEN Count(s, q) - 1 ELSE Count(s, q)
<1> DEFINE In == {k \in DOMAIN s : s[k] = q}
           Out == {k \in DOMAIN t : t[k] = q}
           f == [k \in Out |-> IF k < i THEN k ELSE k + 1]
<1>0. /\ Len(s) \in Nat /\ DOMAIN s = 1 .. Len(s) /\ DOMAIN t = 1 .. Len(s) - 1
      /\ \A k \in 1 .. Len(s) - 1 : t[k] = IF k < i THEN s[k] ELSE s[k + 1]
  BY LenProperties DEF Removed
<1>1. IsFiniteSet(In) /\ IsFiniteSet(Out)
  <2>1. IsFiniteSet(1 .. Len(s)) /\ IsFiniteSet(1 .. Len(s) - 1)
    BY <1>0, FS_Interval
  <2> QED
    BY <1>0, <2>1, FS_Subset
<1>2. ExistsBijection(Out, In \ {i})
  <2>1. \A k \in Out : f[k] \in In \ {i}
    BY <1>0
  <2>2. \A k, l \in Out : f[k] = f[l] => k = l
    BY <1>0
  <2>3. ASSUME NEW k \in In \ {i}
        PROVE  \E l \in Out : f[l] = k
    <3>1. CASE k < i
      <4>1. k \in Out /\ f[k] = k
        BY <1>0, <3>1
      <4> QED
        BY <4>1, Zenon
    <3>2. CASE k > i
      <4>1. k - 1 \in Out /\ f[k - 1] = k
        BY <1>0, <3>2
      <4> QED
        BY <4>1, Zenon
    <3> QED
      BY <1>0, <3>1, <3>2
  <2>4. f \in Bijection(Out, In \ {i})
    <3> HIDE DEF In, Out
    <3>1. f \in [Out -> In \ {i}]
      BY <2>1
    <3> HIDE DEF f
    <3> QED
      BY <2>2, <2>3, <3>1 DEF Bijection, Injection, Surjection, IsInjective
  <2> QED
    BY <2>4, Zenon DEF ExistsBijection
<1>3. i \in In <=> q = s[i]
  BY <1>0
<1> HIDE DEF In, Out
<1>4. Cardinality(Out) = Cardinality(In \ {i})
  BY <1>1, <1>2, FS_Bijection
<1>5. Cardinality(In \ {i}) = IF i \in In THEN Cardinality(In) - 1 ELSE Cardinality(In)
  BY <1>1, FS_RemoveElement
<1>6. Cardinality(In) \in Nat /\ Cardinality(Out) \in Nat
  BY <1>1, FS_CardinalityType
<1>7. Count(s, q) = Cardinality(In) /\ Count(t, q) = Cardinality(Out)
  BY DEF Count, In, Out
<1> QED
  BY <1>3, <1>4, <1>5, <1>6, <1>7

(* A name put at the end n times counts n times more. *)
Counted(t, s, p, n, q) ==
  /\ t \in Seq(Processors) /\ Count(s, q) \in Nat
  /\ Count(t, q) = IF q = p THEN Count(s, q) + n ELSE Count(s, q)

LEMMA CountAppended ==
  ASSUME NEW s \in Seq(Processors), NEW n \in Nat, NEW p \in Processors, NEW t,
         t = s \o [i \in 1 .. n |-> p], NEW q \in Processors
  PROVE  Counted(t, s, p, n, q)
<1> DEFINE more == [i \in 1 .. n |-> p]
           l == Len(s)
           In == {k \in DOMAIN s : s[k] = q}
           Added == IF q = p THEN l + 1 .. l + n ELSE {}
<1>0. l \in Nat /\ DOMAIN s = 1 .. l
  BY LenProperties
<1>1. more \in Seq(Processors) /\ Len(more) = n /\ \A k \in 1 .. n : more[k] = p
  OBVIOUS
<1>2. t = s \o more
  OBVIOUS
<1> HIDE DEF more
<1>3. Joined(t, Processors, s, more, l, n)
  BY <1>0, <1>1, <1>2, ConcatFacts, Zenon
<1>4. /\ t \in Seq(Processors) /\ DOMAIN t = 1 .. l + n
      /\ \A k \in 1 .. l : t[k] = s[k]
      /\ \A k \in 1 .. n : t[l + k] = p
  BY <1>0, <1>1, <1>3, LenProperties DEF Joined
<1> HIDE DEF l
<1>5. \A k \in l + 1 .. l + n : t[k] = p
  <2>1. ASSUME NEW k \in l + 1 .. l + n
        PROVE  t[k] = p
    <3>1. k - l \in 1 .. n /\ l + (k - l) = k
      BY <1>0
    <3> QED
      BY <1>4, <3>1
  <2> QED
    BY <2>1
<1>6. {k \in DOMAIN t : t[k] = q} = In \union Added
  BY <1>0, <1>4, <1>5
<1>7. In \intersect Added = {}
  BY <1>0
<1>8. IsFiniteSet(In) /\ IsFiniteSet(Added) /\ Cardinality(Added) = IF q = p THEN n ELSE 0
  <2>1. IsFiniteSet(1 .. l)
    BY <1>0, FS_Interval
  <2>2. IsFiniteSet(In)
    BY <1>0, <2>1, FS_Subset
  <2> DEFINE a == l + 1
             b == l + n
  <2>3. a \in Int /\ b \in Int /\ (IF a > b THEN 0 ELSE b - a + 1) = n
    BY <1>0
  <2>4. Added = IF q = p THEN a .. b ELSE {}
    OBVIOUS
  <2> HIDE DEF a, b, Added
  <2>5. IsFiniteSet(a .. b) /\ Cardinality(a .. b) = n
    BY <2>3, FS_Interval
  <2> QED
    BY <2>2, <2>4, <2>5, FS_EmptySet
<1> HIDE DEF In, Added
<1>9. Cardinality(In \union Added) = Cardinality(In) + Cardinality(Added)
      /\ Cardinality(In) \in Nat
  <2>1. Cardinality(In) \in Nat /\ Cardinality(Added) \in Nat
    BY <1>8, FS_CardinalityType
  <2>2. Cardinality(In \union Added) =
          Cardinality(In) + Cardinality(Added) - Cardinality(In \intersect Added)
    BY <1>8, FS_Union
  <2>3. Cardinality(In \intersect Added) = 0
    BY <1>7, FS_EmptySet
  <2> QED
    BY <2>1, <2>2, <2>3
<1>10. Count(s, q) = Cardinality(In) /\ Count(t, q) = Cardinality(In \union Added)
  BY <1>6 DEF Count, In
<1> QED
  BY <1>4, <1>8, <1>9, <1>10 DEF Counted

-----------------------------------------------------------------------------
(* The inductive invariant. *)

(* The values of the variables. *)
TypeInv ==
  /\ strategy \in AllStrategies
  /\ idleProcessorIds \in Seq(Processors)
  /\ totalIdleProcessors \in Int
  /\ maxCapacity \in [Processors -> Nat]
  /\ queuedJobs \in [Processors -> Seq(Jobs)]
  /\ myState \in [Processors -> {"INITIALIZING", "PROCESSING", "DISCARDING"}]
  /\ assigned \in [Arrived -> Processors] /\ Arrived \subseteq Jobs /\ IsFiniteSet(Arrived)
  /\ nextProcessorToAssign \in Processors
  /\ outputVectorialEvents \in Seq(Jobs \X Processors)
  /\ unpaid \subseteq Arrived /\ finished \subseteq Arrived /\ published \subseteq Processors

(* A job is in one place: it waits in the dispatcher, is forwarded, or is  *)
(* in the queue of the processor that it was assigned to.                  *)
Forwarded(j) == \E i \in DOMAIN outputVectorialEvents : outputVectorialEvents[i][1] = j
Queued(j)    == \E p \in Processors : \E i \in DOMAIN queuedJobs[p] : queuedJobs[p][i] = j

OnePlace ==
  /\ nextOutputJob # NoJob =>
       /\ nextOutputJob \in UnderWay(nextProcessorToAssign)
       /\ ~Forwarded(nextOutputJob) /\ ~Queued(nextOutputJob)
  /\ \A i \in DOMAIN outputVectorialEvents :
       /\ outputVectorialEvents[i][1] \in UnderWay(outputVectorialEvents[i][2])
       /\ ~Queued(outputVectorialEvents[i][1])
       /\ \A k \in DOMAIN outputVectorialEvents :
            outputVectorialEvents[k][1] = outputVectorialEvents[i][1] => k = i
  /\ \A p \in Processors : \A i \in DOMAIN queuedJobs[p] :
       /\ queuedJobs[p][i] \in UnderWay(p)
       /\ \A k \in DOMAIN queuedJobs[p] : queuedJobs[p][k] = queuedJobs[p][i] => k = i

(* A processor publishes its capacity once. *)
PublishedOnce == \A p \in Processors : myState[p] = "INITIALIZING" => p \notin published

(* The jobs that were taken in without account and have added a place. *)
Guests    == unpaid \intersect finished
GuestsOf(p) == {j \in Guests : assigned[j] = p}

(* A processor that has published has a record, and as long as no job that *)
(* was taken in without account has finished, the record has the jobs sent *)
(* on account, less one.                                                   *)
LoadsExact ==
  UsesLoad =>
    /\ Table(processors)
    /\ \A r \in Records(processors) : Available(r) >= 0
    /\ \A p \in published : \E r \in Records(processors) : r.id = p
    /\ Guests = {} =>
         \A r \in Records(processors) :
           /\ r.id \in published
           /\ r.currentJobs = IF maxCapacity[r.id] = 0 THEN 0 ELSE Cardinality(OnAccount(r.id)) - 1

(* The total is the number of idle places. *)
Accounts == [p \in Processors |-> Account(p)]
Slots(f) == {x \in Processors \X Nat : x[2] \in 1 .. f[x[1]]}

TotalExact ==
  UsesLoad => IsFiniteSet(Slots(Accounts)) /\ totalIdleProcessors = Cardinality(Slots(Accounts))

(* n places more of one processor. *)
LEMMA SlotsGrow ==
  ASSUME NEW f \in [Processors -> Nat], NEW p \in Processors, NEW n \in Nat,
         NEW g \in [Processors -> Nat],
         \A q \in Processors : g[q] = IF q = p THEN f[q] + n ELSE f[q],
         IsFiniteSet(Slots(f))
  PROVE  IsFiniteSet(Slots(g)) /\ Cardinality(Slots(g)) = Cardinality(Slots(f)) + n
<1> DEFINE a == f[p] + 1
           b == f[p] + n
           Added == {p} \X (a .. b)
<1>1. a \in Int /\ b \in Int /\ (IF a > b THEN 0 ELSE b - a + 1) = n
  OBVIOUS
<1>2. Slots(g) = Slots(f) \union Added
  BY DEF Slots
<1>3. Slots(f) \intersect Added = {}
  BY DEF Slots
<1> HIDE DEF a, b
<1>4. IsFiniteSet(a .. b) /\ Cardinality(a .. b) = n
  BY <1>1, FS_Interval
<1>5. IsFiniteSet({p}) /\ Cardinality({p}) = 1
  BY FS_Singleton
<1>6. IsFiniteSet(Added) /\ Cardinality(Added) = n
  <2>1. /\ IsFiniteSet({p} \X (a .. b))
        /\ Cardinality({p} \X (a .. b)) = Cardinality({p}) * Cardinality(a .. b)
    BY <1>4, <1>5, FS_Product
  <2>2. Cardinality({p}) * Cardinality(a .. b) = n
    BY <1>4, <1>5
  <2> QED
    BY <2>1, <2>2
<1> HIDE DEF Added
<1>7. /\ IsFiniteSet(Slots(f) \union Added)
      /\ Cardinality(Slots(f) \union Added) =
           Cardinality(Slots(f)) + Cardinality(Added) - Cardinality(Slots(f) \intersect Added)
  BY <1>6, FS_Union
<1>8. Cardinality(Slots(f) \intersect Added) = 0 /\ Cardinality(Slots(f)) \in Nat
  BY <1>3, FS_EmptySet, FS_CardinalityType
<1> QED
  BY <1>2, <1>6, <1>7, <1>8

(* One place less. *)
LEMMA SlotsShrink ==
  ASSUME NEW f \in [Processors -> Nat], NEW p \in Processors,
         NEW g \in [Processors -> Nat],
         \A q \in Processors : f[q] = IF q = p THEN g[q] + 1 ELSE g[q],
         IsFiniteSet(Slots(f))
  PROVE  IsFiniteSet(Slots(g)) /\ Cardinality(Slots(g)) = Cardinality(Slots(f)) - 1
<1>1. Slots(g) \subseteq Slots(f)
  BY DEF Slots
<1>2. IsFiniteSet(Slots(g))
  BY <1>1, FS_Subset
<1>3. Cardinality(Slots(f)) = Cardinality(Slots(g)) + 1
  BY <1>2, SlotsGrow
<1>4. Cardinality(Slots(g)) \in Nat
  BY <1>2, FS_CardinalityType
<1> QED
  BY <1>2, <1>3, <1>4

(* The total is positive only if a processor has an idle place. *)
LEMMA SomebodyIdle ==
  ASSUME TotalExact, UsesLoad, totalIdleProcessors > 0,
         \A p \in Processors : Account(p) \in Nat
  PROVE  \E p \in Processors : Account(p) > 0
<1>1. Slots(Accounts) # {}
  BY FS_EmptySet DEF TotalExact
<1>2. PICK x \in Processors \X Nat : x[2] \in 1 .. Account(x[1])
  BY <1>1 DEF Slots, Accounts
<1> QED
  BY <1>2

-----------------------------------------------------------------------------
(* The accounts under setIdleProcessor and setNextProcessorBusy. *)

LEMMA AccountNat ==
  ASSUME TypeInv, LoadsExact, NEW q \in Processors
  PROVE  Account(q) \in Nat
<1>1. CASE UsesLoad
  <2>1. processors \in Seq(Load) /\ Distinct(processors) /\ \A r \in Records(processors) : Available(r) >= 0
    BY <1>1 DEF LoadsExact, Table
  <2>2. ASSUME NEW r \in Records(processors)
        PROVE  Available(r) \in Nat
    <3>1. r \in Load
      BY <2>1, ElementOfSeq, LenProperties DEF Records
    <3> QED
      BY <2>1, <3>1 DEF Available, Load
  <2>3. CASE \E r \in Records(processors) : r.id = q
    <3>1. PICK r \in Records(processors) : r.id = q
      BY <2>3
    <3> QED
      BY <1>1, <2>1, <2>2, <3>1, AccountIs, AccountInFacts
  <2>4. CASE \A r \in Records(processors) : r.id # q
    BY <1>1, <2>1, <2>4, AccountIs, AccountInFacts
  <2> QED
    BY <2>3, <2>4
<1>2. CASE ~UsesLoad
  <2>1. idleProcessorIds \in Seq(Processors)
    BY DEF TypeInv
  <2>2. Len(idleProcessorIds) \in Nat /\ DOMAIN idleProcessorIds = 1 .. Len(idleProcessorIds)
    BY <2>1, LenProperties
  <2>3. IsFiniteSet(1 .. Len(idleProcessorIds))
    BY <2>2, FS_Interval
  <2>4. IsFiniteSet({i \in DOMAIN idleProcessorIds : idleProcessorIds[i] = q})
    BY <2>2, <2>3, FS_Subset
  <2> QED
    BY <1>2, <2>4, AccountIs, FS_CardinalityType DEF Count
<1> QED
  BY <1>1, <1>2

LEMMA AccountIdle ==
  ASSUME TypeInv, LoadsExact, strategy # "RANDOM", NEW p \in Processors, NEW n \in Nat,
         SetIdleProcessor(p, n), NEW q \in Processors
  PROVE  Account(q)' = IF q = p THEN Account(q) + n ELSE Account(q)
<1>0. strategy' = strategy
  BY DEF SetIdleProcessor
<1>1. CASE UsesLoad
  <2>0. UsesLoad'
    BY <1>0, <1>1 DEF UsesLoad
  <2>1. Table(processors)
    BY <1>1 DEF LoadsExact
  <2>2. Table(processors')
    BY <1>1, <2>1, SetIdleTable
  <2>3. PICK old \in Load :
          /\ \/ old \in Records(processors) /\ old.id = p
             \/ old = NewLoad(p) /\ \A r \in Records(processors) : r.id # p
          /\ Records(processors') = (Records(processors) \ {old}) \union {JobsFinished(old, n)}
    BY <1>1, <2>1, SetIdleTable
  <2>4. old.id = p /\ old.currentJobs >= -1
    BY <2>1, <2>3 DEF NewLoad, Table
  <2>5. /\ JobsFinished(old, n) \in Load /\ JobsFinished(old, n).id = p
        /\ Available(JobsFinished(old, n)) = Available(old) + n
    BY <2>4, JobsFinishedFacts
  <2>6. /\ processors \in Seq(Load) /\ Distinct(processors)
        /\ processors' \in Seq(Load) /\ Distinct(processors')
    BY <2>1, <2>2 DEF Table
  <2>7. old \in Records(processors) \/ \A r \in Records(processors) : r.id # p
    BY <2>3
  <2>8. /\ AccountIn(processors', p) = Available(JobsFinished(old, n))
        /\ \A x : x # p => AccountIn(processors', x) = AccountIn(processors, x)
    <3> DEFINE new == JobsFinished(old, n)
    <3>1. new \in Load /\ new.id = p /\ Records(processors') = (Records(processors) \ {old}) \union {new}
      BY <2>3, <2>5
    <3> HIDE DEF new
    <3>2. AccountChanged(processors', processors, p, old, new)
      BY <2>4, <2>6, <2>7, <3>1, AccountInChange, Zenon
    <3> QED
      BY <3>2 DEF new, AccountChanged
  <2>9. AccountIn(processors, p) = Available(old)
    <3>1. CASE old \in Records(processors)
      BY <2>4, <2>6, <3>1, AccountInFacts
    <3>2. CASE old = NewLoad(p) /\ \A r \in Records(processors) : r.id # p
      <4>1. Available(old) = 0
        BY <3>2 DEF Available, NewLoad
      <4> QED
        BY <2>6, <3>2, <4>1, AccountInFacts
    <3> QED
      BY <2>3, <3>1, <3>2
  <2>10. Account(q) = AccountIn(processors, q) /\ Account(q)' = AccountIn(processors', q)
    BY <1>1, <2>0, AccountIs
  <2> QED
    BY <2>5, <2>8, <2>9, <2>10
<1>2. CASE ~UsesLoad
  <2>0. ~UsesLoad'
    BY <1>0, <1>2 DEF UsesLoad
  <2>1. idleProcessorIds' = idleProcessorIds \o [i \in 1 .. n |-> p]
    BY <1>2 DEF SetIdleProcessor
  <2>2. idleProcessorIds \in Seq(Processors)
    BY DEF TypeInv
  <2>3. Counted(idleProcessorIds', idleProcessorIds, p, n, q)
    BY <2>1, <2>2, CountAppended, Zenon
  <2> QED
    BY <1>2, <2>0, <2>3, AccountIs DEF Counted
<1> QED
  BY <1>1, <1>2

(* What makes the choice possible. *)
Possible ==
  /\ strategy = "JOIN_SHORTEST_QUEUE" => processors # <<>> /\ Available(Head(processors)) > 0
  /\ strategy = "FIFO" => idleProcessorIds # <<>>

LEMMA ChoicePossible ==
  ASSUME TypeInv, LoadsExact, TotalExact, ~ChoiceFails, ~NobodyIdle
  PROVE  Possible
<1>1. ASSUME strategy = "FIFO"
      PROVE  idleProcessorIds # <<>>
  BY <1>1 DEF NobodyIdle, IdleProcessors, UsesLoad
<1>2. ASSUME strategy = "JOIN_SHORTEST_QUEUE"
      PROVE  processors # <<>> /\ Available(Head(processors)) > 0
  <2>1. UsesLoad
    BY <1>2 DEF UsesLoad
  <2>2. totalIdleProcessors > 0
    BY <1>2, <2>1 DEF NobodyIdle, IdleProcessors, TypeInv
  <2>3. PICK p \in Processors : Account(p) > 0
    BY <2>1, <2>2, AccountNat, SomebodyIdle
  <2>4. processors \in Seq(Load) /\ Distinct(processors)
    BY <2>1 DEF LoadsExact, Table
  <2>5. processors # <<>>
    <3>1. ASSUME processors = <<>>
          PROVE  FALSE
      <4>1. Records(processors) = {}
        BY <3>1 DEF Records
      <4>2. AccountIn(processors, p) = 0
        BY <2>4, <4>1, AccountInFacts
      <4> QED
        BY <2>1, <2>3, <4>2, AccountIs
    <3> QED
      BY <3>1
  <2>6. Head(processors) \in Load
    BY <2>4, <2>5, HeadTailProperties
  <2>7. Available(Head(processors)) \in Int
    BY <2>6 DEF Available, Load
  <2> QED
    BY <1>2, <2>5, <2>7 DEF ChoiceFails
<1> QED
  BY <1>1, <1>2 DEF Possible

LEMMA AccountBusy ==
  ASSUME TypeInv, LoadsExact, strategy # "RANDOM", Possible, NEW p \in Processors,
         SetProcessorBusy(p), NEW q \in Processors
  PROVE  /\ Account(p) > 0
         /\ Account(q)' = IF q = p THEN Account(q) - 1 ELSE Account(q)
<1>0. strategy' = strategy
  BY DEF SetProcessorBusy, strategyVars
<1>1. CASE UsesLoad
  <2>0. UsesLoad'
    BY <1>0, <1>1 DEF UsesLoad
  <2>1. Table(processors)
    BY <1>1 DEF LoadsExact
  <2>2. Table(processors')
    BY <1>1, <2>1, SetBusyTable DEF Possible
  <2>3. PICK old \in Records(processors) :
          /\ old.id = p /\ Available(old) > 0
          /\ Records(processors') = (Records(processors) \ {old}) \union {JobAssigned(old)}
    BY <1>1, <2>1, SetBusyTable DEF Possible
  <2>4. old \in Load
    BY <2>1, ElementOfSeq, LenProperties DEF Table, Records
  <2> DEFINE new == JobAssigned(old)
  <2>5. new \in Load /\ new.id = p /\ Available(new) = Available(old) - 1 /\ Available(old) \in Int
    BY <2>3, <2>4 DEF JobAssigned, Load, Available
  <2>6. Records(processors') = (Records(processors) \ {old}) \union {new}
    BY <2>3
  <2> HIDE DEF new
  <2>7. /\ processors \in Seq(Load) /\ Distinct(processors)
        /\ processors' \in Seq(Load) /\ Distinct(processors')
    BY <2>1, <2>2 DEF Table
  <2>8. /\ AccountIn(processors', p) = Available(new)
        /\ \A x : x # p => AccountIn(processors', x) = AccountIn(processors, x)
    <3>1. old \in Records(processors) \/ \A r \in Records(processors) : r.id # p
      OBVIOUS
    <3>2. old.id = p /\ new.id = p /\ new \in Load
      BY <2>3, <2>5
    <3>3. AccountChanged(processors', processors, p, old, new)
      BY <2>4, <2>6, <2>7, <3>1, <3>2, AccountInChange, Zenon
    <3> QED
      BY <3>3 DEF AccountChanged
  <2>9. AccountIn(processors, p) = Available(old)
    BY <2>3, <2>7, AccountInFacts
  <2>10. /\ Account(q) = AccountIn(processors, q) /\ Account(q)' = AccountIn(processors', q)
         /\ Account(p) = AccountIn(processors, p)
    BY <1>1, <2>0, AccountIs
  <2> QED
    BY <2>3, <2>5, <2>8, <2>9, <2>10
<1>2. CASE ~UsesLoad
  <2>0. ~UsesLoad'
    BY <1>0, <1>2 DEF UsesLoad
  <2>1. idleProcessorIds \in Seq(Processors)
    BY DEF TypeInv
  <2>2. strategy = "FIFO" \/ strategy = "RANDOM_LOAD_AWARE"
    BY <1>2 DEF TypeInv, AllStrategies, UsesLoad
  <2>3. \E i \in 1 .. Len(idleProcessorIds) :
          idleProcessorIds[i] = p /\ Removed(idleProcessorIds', Processors, idleProcessorIds, i)
    <3>1. CASE strategy = "FIFO"
      <4>1. Head(idleProcessorIds) = p /\ idleProcessorIds' = Tail(idleProcessorIds)
        BY <3>1 DEF SetProcessorBusy
      <4>2. idleProcessorIds # <<>>
        BY <3>1 DEF Possible
      <4>3. Removed(Tail(idleProcessorIds), Processors, idleProcessorIds, 1)
            /\ 1 \in 1 .. Len(idleProcessorIds) /\ Head(idleProcessorIds) = idleProcessorIds[1]
        BY <2>1, <4>2, TailFacts DEF Removed
      <4> QED
        BY <4>1, <4>3
    <3>2. CASE strategy = "RANDOM_LOAD_AWARE"
      <4>1. PICK i \in DOMAIN idleProcessorIds :
              idleProcessorIds[i] = p /\ idleProcessorIds' = RemoveAt(idleProcessorIds, i)
        BY <3>2 DEF SetProcessorBusy
      <4>2. i \in 1 .. Len(idleProcessorIds)
        BY <2>1, LenProperties
      <4>3. Removed(idleProcessorIds', Processors, idleProcessorIds, i)
        BY <2>1, <4>1, <4>2, RemoveAtFacts, Zenon
      <4> QED
        BY <4>1, <4>2, <4>3
    <3> QED
      BY <2>2, <3>1, <3>2
  <2>4. PICK i \in 1 .. Len(idleProcessorIds) :
          idleProcessorIds[i] = p /\ Removed(idleProcessorIds', Processors, idleProcessorIds, i)
    BY <2>3
  <2>5. ASSUME NEW x \in Processors
        PROVE  /\ Count(idleProcessorIds, x) \in Nat /\ Count(idleProcessorIds', x) \in Nat
               /\ Count(idleProcessorIds', x) =
                    IF x = p THEN Count(idleProcessorIds, x) - 1 ELSE Count(idleProcessorIds, x)
    BY <2>1, <2>4, CountRemoved
  <2>6. Count(idleProcessorIds, p) > 0
    BY <2>5
  <2> QED
    BY <1>2, <2>0, <2>5, <2>6, AccountIs
<1> QED
  BY <1>1, <1>2

-----------------------------------------------------------------------------
(* The ledger: records, total and accounts, step by step. *)

LEMMA CountsNat ==
  ASSUME TypeInv, NEW q
  PROVE  /\ IsFiniteSet(OnAccount(q)) /\ Cardinality(OnAccount(q)) \in Nat
         /\ IsFiniteSet(GuestsOf(q)) /\ Cardinality(GuestsOf(q)) \in Nat
<1>1. IsFiniteSet(Arrived)
  BY DEF TypeInv
<1>2. OnAccount(q) \subseteq Arrived /\ GuestsOf(q) \subseteq Arrived
  BY DEF OnAccount, UnderWay, GuestsOf, Guests, TypeInv
<1>3. IsFiniteSet(OnAccount(q)) /\ IsFiniteSet(GuestsOf(q))
  BY <1>1, <1>2, FS_Subset
<1> QED
  BY <1>3, FS_CardinalityType

(* The account of a processor that has a record, and of one that has none. *)
LEMMA RecordAccount ==
  ASSUME UsesLoad, LoadsExact, NEW r \in Records(processors)
  PROVE  /\ r \in Load /\ r.id \in Processors /\ r.currentJobs >= -1
         /\ Account(r.id) = Available(r) /\ Available(r) \in Nat
<1>1. processors \in Seq(Load) /\ Distinct(processors) /\ Available(r) >= 0 /\ r.currentJobs >= -1
  BY DEF LoadsExact, Table
<1>2. r \in Load
  BY <1>1, ElementOfSeq, LenProperties DEF Records
<1>3. Account(r.id) = Available(r)
  BY <1>1, AccountIs, AccountInFacts
<1> QED
  BY <1>1, <1>2, <1>3 DEF Available, Load

LEMMA NoRecord ==
  ASSUME UsesLoad, LoadsExact, NEW p, \A r \in Records(processors) : r.id # p
  PROVE  Account(p) = 0
<1>1. processors \in Seq(Load) /\ Distinct(processors)
  BY DEF LoadsExact, Table
<1> QED
  BY <1>1, AccountIs, AccountInFacts

LEMMA OneRecord ==
  ASSUME UsesLoad, LoadsExact, NEW r \in Records(processors), NEW s \in Records(processors),
         r.id = s.id
  PROVE  r = s
<1>1. Distinct(processors)
  BY DEF LoadsExact, Table
<1> QED
  BY <1>1 DEF Distinct, Records

Ledger == LoadsExact /\ TotalExact /\ AccountsExact

(* A step that is no business of the strategy. *)
LEMMA LedgerSame ==
  ASSUME Ledger,
         UNCHANGED <<strategyVars, maxCapacity, assigned, published, unpaid, finished>>
  PROVE  Ledger'
<1>0. /\ strategy' = strategy /\ idleProcessorIds' = idleProcessorIds /\ processors' = processors
      /\ totalIdleProcessors' = totalIdleProcessors /\ maxCapacity' = maxCapacity
      /\ assigned' = assigned /\ published' = published /\ unpaid' = unpaid /\ finished' = finished
  BY DEF strategyVars
<1>1. UsesLoad' = UsesLoad
  BY <1>0 DEF UsesLoad
<1>2. \A q : Account(q)' = Account(q)
  BY <1>0, <1>1, AccountIs
<1>3. \A q : OnAccount(q)' = OnAccount(q)
  BY <1>0 DEF OnAccount, UnderWay, Arrived
<1>4. Accounts' = Accounts
  BY <1>2 DEF Accounts
<1>5. LoadsExact'
  BY <1>0, <1>1, <1>3 DEF Ledger, LoadsExact, Table, Guests
<1>6. TotalExact'
  BY <1>0, <1>1, <1>4 DEF Ledger, TotalExact
<1>7. AccountsExact'
  <2>1. SUFFICES ASSUME strategy' # "RANDOM", NEW p \in Processors
                 PROVE  Account(p)' + Cardinality(OnAccount(p)') =
                          (IF p \in published' THEN maxCapacity'[p] ELSE 0)
                            + Cardinality({j \in unpaid' \intersect finished' : assigned'[j] = p})
    BY DEF AccountsExact
  <2>2. Account(p) + Cardinality(OnAccount(p)) =
          (IF p \in published THEN maxCapacity[p] ELSE 0)
            + Cardinality({j \in unpaid \intersect finished : assigned[j] = p})
    BY <1>0, <2>1 DEF Ledger, AccountsExact
  <2> QED
    BY <1>0, <1>2, <1>3, <2>2
<1> QED
  BY <1>5, <1>6, <1>7 DEF Ledger

(* What AccountsExact says of one processor. *)
Exact(p) ==
  Account(p) + Cardinality(OnAccount(p)) =
    (IF p \in published THEN maxCapacity[p] ELSE 0) + Cardinality(GuestsOf(p))

LEMMA ExactIs ==
  /\ AccountsExact <=> (strategy # "RANDOM" => \A p \in Processors : Exact(p))
  /\ AccountsExact' <=> (strategy' # "RANDOM" => \A p \in Processors : Exact(p)')
<1>1. AccountsExact <=> (strategy # "RANDOM" => \A p \in Processors : Exact(p))
  BY DEF AccountsExact, Exact, GuestsOf, Guests
<1>2. AccountsExact' <=> (strategy' # "RANDOM" => \A p \in Processors : Exact(p)')
  BY DEF AccountsExact, Exact, GuestsOf, Guests
<1> QED
  BY <1>1, <1>2

(* A job that arrives is under way to the processor chosen for it. *)
Sent(j, p, q) ==
  /\ UnderWay(q)' = IF q = p THEN UnderWay(q) \union {j} ELSE UnderWay(q)
  /\ j \notin UnderWay(q)

LEMMA UnderWayMore ==
  ASSUME TypeInv, NEW j \in Jobs \ Arrived, NEW p \in Processors, NEW q,
         assigned' = [i \in Arrived \union {j} |-> IF i = j THEN p ELSE assigned[i]],
         finished' = finished
  PROVE  /\ Arrived' = Arrived \union {j} /\ assigned' \in [Arrived' -> Processors]
         /\ \A i \in Arrived : assigned'[i] = assigned[i]
         /\ assigned'[j] = p /\ j \notin unpaid /\ j \notin finished
         /\ Sent(j, p, q)
<1>1. Arrived' = Arrived \union {j}
  BY DEF Arrived
<1>2. assigned \in [Arrived -> Processors] /\ unpaid \subseteq Arrived /\ finished \subseteq Arrived
  BY DEF TypeInv
<1>3. \A i \in Arrived : assigned'[i] = assigned[i]
  BY <1>2
<1>4. assigned'[j] = p
  OBVIOUS
<1>5. j \notin UnderWay(q) /\ j \notin unpaid /\ j \notin finished
  BY <1>2 DEF UnderWay
<1>6. UnderWay(q)' = {i \in (Arrived \union {j}) \ finished : assigned'[i] = q}
  BY <1>1 DEF UnderWay
<1>7. UnderWay(q)' = IF q = p THEN UnderWay(q) \union {j} ELSE UnderWay(q)
  <2> HIDE DEF Arrived
  <2> QED
    BY <1>2, <1>3, <1>4, <1>5, <1>6 DEF UnderWay
<1>8. assigned' \in [Arrived' -> Processors]
  BY <1>1, <1>2
<1> QED
  BY <1>1, <1>3, <1>4, <1>5, <1>7, <1>8 DEF Sent

(* A job is sent on account. *)
LEMMA LedgerPaid ==
  ASSUME TypeInv, Ledger, Possible, NEW j \in Jobs \ Arrived, NEW p \in Processors,
         SetProcessorBusy(p),
         assigned' = [i \in Arrived \union {j} |-> IF i = j THEN p ELSE assigned[i]],
         UNCHANGED <<maxCapacity, published, unpaid, finished>>
  PROVE  Ledger'
<1>0. /\ strategy' = strategy /\ UsesLoad' = UsesLoad /\ Guests' = Guests
      /\ LoadsExact /\ TotalExact /\ AccountsExact
  BY DEF SetProcessorBusy, strategyVars, UsesLoad, Guests, Ledger
<1>1. ASSUME NEW q
      PROVE  OnAccount(q)' = IF q = p THEN OnAccount(q) \union {j} ELSE OnAccount(q)
  <2>1. Sent(j, p, q) /\ j \notin unpaid
    BY UnderWayMore
  <2> QED
    BY <2>1 DEF OnAccount, Sent
<1>2. j \notin OnAccount(p)
  <2>1. Sent(j, p, p)
    BY UnderWayMore
  <2> QED
    BY <2>1 DEF OnAccount, Sent
<1>3. ASSUME NEW q
      PROVE  GuestsOf(q)' = GuestsOf(q)
  <2>1. \A i \in Arrived : assigned'[i] = assigned[i]
    BY UnderWayMore
  <2>2. Guests \subseteq Arrived
    BY DEF TypeInv, Guests
  <2> QED
    BY <1>0, <2>1, <2>2 DEF GuestsOf
<1>4. /\ Cardinality(OnAccount(p)') = Cardinality(OnAccount(p)) + 1
      /\ Cardinality(OnAccount(p)) \in Nat
  <2>1. IsFiniteSet(OnAccount(p)) /\ Cardinality(OnAccount(p)) \in Nat
    BY CountsNat
  <2>2. Cardinality(OnAccount(p) \union {j}) = Cardinality(OnAccount(p)) + 1
    BY <1>2, <2>1, FS_AddElement
  <2> QED
    BY <1>1, <2>1, <2>2
<1>5. strategy # "RANDOM" =>
        \A q \in Processors : Account(q) \in Nat /\ Account(q)' \in Nat /\ Account(p) > 0
                              /\ Account(q)' = IF q = p THEN Account(q) - 1 ELSE Account(q)
  BY <1>0, AccountNat, AccountBusy
<1>6. AccountsExact'
  <2>1. SUFFICES ASSUME strategy # "RANDOM", NEW q \in Processors
                 PROVE  Exact(q)'
    BY <1>0, ExactIs
  <2>2. Exact(q)
    BY <1>0, <2>1, ExactIs
  <2>3. maxCapacity[q] \in Nat /\ Cardinality(OnAccount(q)) \in Nat /\ Cardinality(GuestsOf(q)) \in Nat
    BY CountsNat DEF TypeInv
  <2>4. Account(q)' + Cardinality(OnAccount(q)') = Account(q) + Cardinality(OnAccount(q))
    <3>1. CASE q = p
      BY <1>4, <1>5, <2>1, <2>3, <3>1
    <3>2. CASE q # p
      BY <1>1, <1>5, <2>1, <3>2
    <3> QED
      BY <3>1, <3>2
  <2> QED
    BY <1>3, <2>2, <2>4 DEF Exact
<1>7. TotalExact'
  <2>1. SUFFICES ASSUME UsesLoad
                 PROVE  /\ IsFiniteSet(Slots(Accounts'))
                        /\ totalIdleProcessors' = Cardinality(Slots(Accounts'))
    BY <1>0 DEF TotalExact, Slots
  <2>2. strategy # "RANDOM"
    BY <2>1 DEF UsesLoad
  <2>3. Accounts \in [Processors -> Nat] /\ Accounts' \in [Processors -> Nat]
    BY <1>5, <2>2 DEF Accounts
  <2>4. \A q \in Processors : Accounts[q] = IF q = p THEN Accounts'[q] + 1 ELSE Accounts'[q]
    BY <1>5, <2>2 DEF Accounts
  <2>5. totalIdleProcessors' = totalIdleProcessors - 1
    BY <1>0, <2>1, SetBusyTable DEF LoadsExact, Possible
  <2>6. IsFiniteSet(Slots(Accounts)) /\ totalIdleProcessors = Cardinality(Slots(Accounts))
    BY <1>0, <2>1 DEF TotalExact
  <2> QED
    BY <2>3, <2>4, <2>5, <2>6, SlotsShrink
<1>8. LoadsExact'
  <2>1. SUFFICES ASSUME UsesLoad
                 PROVE  LoadsExact'
    BY <1>0 DEF LoadsExact
  <2>2. /\ Table(processors) /\ \A r \in Records(processors) : Available(r) >= 0
        /\ \A x \in published : \E r \in Records(processors) : r.id = x
    BY <1>0, <2>1 DEF LoadsExact
  <2>3. PICK old \in Records(processors) :
          /\ old.id = p /\ Available(old) > 0
          /\ Records(processors') = (Records(processors) \ {old}) \union {JobAssigned(old)}
    BY <2>1, <2>2, SetBusyTable DEF Possible
  <2>4. Table(processors')
    BY <2>1, <2>2, SetBusyTable DEF Possible
  <2>5. old \in Load /\ Account(p) = Available(old)
    BY <1>0, <2>1, <2>3, RecordAccount
  <2> DEFINE new == JobAssigned(old)
  <2>6. /\ new.id = p /\ Available(new) = Available(old) - 1 /\ Available(old) \in Int
        /\ new.currentJobs = old.currentJobs + 1
    BY <2>3, <2>5 DEF JobAssigned, Load, Available
  <2>7. Records(processors') = (Records(processors) \ {old}) \union {new}
    BY <2>3
  <2> HIDE DEF new
  <2>8. Table(processors)'
    BY <1>0, <2>4 DEF Table
  <2>9. \A r \in Records(processors') : Available(r) >= 0
    BY <2>2, <2>3, <2>6, <2>7
  <2>10. \A x \in published : \E r \in Records(processors') : r.id = x
    BY <2>2, <2>3, <2>6, <2>7
  <2>11. ASSUME Guests = {}, NEW r \in Records(processors')
         PROVE  /\ r.id \in published
                /\ r.currentJobs = IF maxCapacity[r.id] = 0 THEN 0 ELSE Cardinality(OnAccount(r.id)') - 1
    <3>0. \A x \in Records(processors) :
            /\ x.id \in published
            /\ x.currentJobs = IF maxCapacity[x.id] = 0 THEN 0 ELSE Cardinality(OnAccount(x.id)) - 1
      BY <1>0, <2>1, <2>11 DEF LoadsExact
    <3>1. CASE r = new
      <4>1. p \in published
        BY <2>3, <3>0
      <4>2. Exact(p) /\ GuestsOf(p) = {}
        BY <1>0, <2>1, <2>11, ExactIs DEF UsesLoad, GuestsOf
      <4>3. maxCapacity[p] # 0 /\ Cardinality(GuestsOf(p)) = 0
        BY <1>4, <2>3, <2>5, <2>6, <4>1, <4>2, FS_EmptySet DEF Exact
      <4> QED
        BY <1>4, <2>3, <2>6, <3>0, <3>1, <4>1, <4>3
    <3>2. CASE r # new
      <4>1. r \in Records(processors) /\ r # old
        BY <2>7, <3>2
      <4>2. r.id # p
        BY <1>0, <2>1, <2>3, <4>1, OneRecord
      <4> QED
        BY <1>1, <3>0, <4>1, <4>2
    <3> QED
      BY <3>1, <3>2
  <2> QED
    BY <1>0, <2>8, <2>9, <2>10, <2>11 DEF LoadsExact
<1> QED
  BY <1>6, <1>7, <1>8 DEF Ledger

(* Nobody is idle: a job is sent to processor 0 without account. *)
LEMMA LedgerUnpaid ==
  ASSUME TypeInv, Ledger, NEW j \in Jobs \ Arrived,
         assigned' = [i \in Arrived \union {j} |-> IF i = j THEN 0 ELSE assigned[i]],
         unpaid' = unpaid \union {j},
         UNCHANGED <<strategyVars, maxCapacity, published, finished>>
  PROVE  Ledger'
<1>0. /\ strategy' = strategy /\ processors' = processors /\ UsesLoad' = UsesLoad
      /\ totalIdleProcessors' = totalIdleProcessors /\ idleProcessorIds' = idleProcessorIds
      /\ LoadsExact /\ TotalExact /\ AccountsExact
  BY DEF strategyVars, UsesLoad, Ledger
<1>1. 0 \in Processors
  BY FarmAssumption
<1>2. Guests' = Guests
  <2>1. j \notin finished
    BY <1>1, UnderWayMore
  <2> QED
    BY <2>1 DEF Guests
<1>3. ASSUME NEW q
      PROVE  OnAccount(q)' = OnAccount(q) /\ GuestsOf(q)' = GuestsOf(q) /\ Account(q)' = Account(q)
  <2>1. Sent(j, 0, q) /\ \A i \in Arrived : assigned'[i] = assigned[i]
    BY <1>1, UnderWayMore
  <2>2. OnAccount(q)' = OnAccount(q)
    BY <2>1 DEF OnAccount, Sent
  <2>3. Guests \subseteq Arrived
    BY DEF TypeInv, Guests
  <2>4. GuestsOf(q)' = GuestsOf(q)
    BY <1>2, <2>1, <2>3 DEF GuestsOf
  <2>5. Account(q)' = Account(q)
    BY <1>0, AccountIs
  <2> QED
    BY <2>2, <2>4, <2>5
<1>4. AccountsExact'
  <2>1. \A q : Exact(q) => Exact(q)'
    BY <1>3 DEF Exact
  <2> QED
    BY <1>0, <2>1, ExactIs
<1>5. TotalExact'
  <2>1. Accounts' = Accounts
    BY <1>3 DEF Accounts
  <2> QED
    BY <1>0, <2>1 DEF TotalExact
<1>6. LoadsExact'
  <2>1. Table(processors)' = Table(processors)
    BY <1>0 DEF Table
  <2> QED
    BY <1>0, <1>2, <1>3, <2>1 DEF LoadsExact
<1> QED
  BY <1>4, <1>5, <1>6 DEF Ledger

(* The account, the total and the table when n more places of p are idle. *)
LEMMA LedgerIdle ==
  ASSUME TypeInv, Ledger, NEW p \in Processors, NEW n \in Nat, SetIdleProcessor(p, n)
  PROVE  /\ strategy' = strategy /\ UsesLoad' = UsesLoad
         /\ strategy # "RANDOM" =>
              \A q \in Processors :
                Account(q) \in Nat /\ Account(q)' = IF q = p THEN Account(q) + n ELSE Account(q)
         /\ TotalExact'
         /\ UsesLoad =>
              /\ Table(processors)'
              /\ \A r \in Records(processors') : Available(r) >= 0
              /\ \A q \in published \union {p} : \E r \in Records(processors') : r.id = q
<1>0. strategy' = strategy /\ UsesLoad' = UsesLoad /\ LoadsExact /\ TotalExact
  BY DEF SetIdleProcessor, UsesLoad, Ledger
<1>1. strategy # "RANDOM" =>
        \A q \in Processors :
          Account(q) \in Nat /\ Account(q)' = IF q = p THEN Account(q) + n ELSE Account(q)
  BY <1>0, AccountNat, AccountIdle
<1>2. TotalExact'
  <2>1. SUFFICES ASSUME UsesLoad
                 PROVE  /\ IsFiniteSet(Slots(Accounts'))
                        /\ totalIdleProcessors' = Cardinality(Slots(Accounts'))
    BY <1>0 DEF TotalExact, Slots
  <2>2. strategy # "RANDOM"
    BY <2>1 DEF UsesLoad
  <2>3. Accounts \in [Processors -> Nat] /\ Accounts' \in [Processors -> Nat]
    BY <1>1, <2>2 DEF Accounts
  <2>4. \A q \in Processors : Accounts'[q] = IF q = p THEN Accounts[q] + n ELSE Accounts[q]
    BY <1>1, <2>2 DEF Accounts
  <2>5. totalIdleProcessors' = totalIdleProcessors + n
    BY <1>0, <2>1, SetIdleTable DEF LoadsExact
  <2>6. IsFiniteSet(Slots(Accounts)) /\ totalIdleProcessors = Cardinality(Slots(Accounts))
    BY <1>0, <2>1 DEF TotalExact
  <2> QED
    BY <2>3, <2>4, <2>5, <2>6, SlotsGrow
<1>3. ASSUME UsesLoad
      PROVE  /\ Table(processors)'
             /\ \A r \in Records(processors') : Available(r) >= 0
             /\ \A q \in published \union {p} : \E r \in Records(processors') : r.id = q
  <2>1. /\ Table(processors) /\ \A r \in Records(processors) : Available(r) >= 0
        /\ \A x \in published : \E r \in Records(processors) : r.id = x
    BY <1>0, <1>3 DEF LoadsExact
  <2>2. Table(processors')
    BY <1>3, <2>1, SetIdleTable
  <2>3. PICK old \in Load :
          /\ \/ old \in Records(processors) /\ old.id = p
             \/ old = NewLoad(p) /\ \A r \in Records(processors) : r.id # p
          /\ Records(processors') = (Records(processors) \ {old}) \union {JobsFinished(old, n)}
    BY <1>3, <2>1, SetIdleTable
  <2>4. old.id = p /\ old.currentJobs >= -1 /\ Available(old) \in Nat
    <3>1. CASE old \in Records(processors) /\ old.id = p
      BY <1>0, <1>3, <3>1, RecordAccount
    <3>2. CASE old = NewLoad(p)
      BY <3>2 DEF NewLoad, Available
    <3> QED
      BY <2>3, <3>1, <3>2
  <2>5. JobsFinished(old, n).id = p /\ Available(JobsFinished(old, n)) >= 0
    BY <2>4, JobsFinishedFacts
  <2> DEFINE new == JobsFinished(old, n)
  <2>6. /\ new.id = p /\ Available(new) >= 0
        /\ Records(processors') = (Records(processors) \ {old}) \union {new}
    BY <2>3, <2>5
  <2> HIDE DEF new
  <2>7. Table(processors)'
    BY <1>0, <2>2 DEF Table
  <2> QED
    BY <2>1, <2>4, <2>6, <2>7
<1> QED
  BY <1>0, <1>1, <1>2, <1>3

(* A processor publishes its capacity. *)
LEMMA LedgerPublish ==
  ASSUME TypeInv, Ledger, NEW p \in Processors, p \notin published,
         SetIdleProcessor(p, maxCapacity[p]), published' = published \union {p},
         UNCHANGED <<maxCapacity, assigned, unpaid, finished>>
  PROVE  Ledger'
<1> DEFINE n == maxCapacity[p]
<1>1. n \in Nat /\ SetIdleProcessor(p, n)
  BY DEF TypeInv
<1> HIDE DEF n
<1>2. LoadsExact /\ AccountsExact
  BY DEF Ledger
<1>3. /\ strategy' = strategy /\ UsesLoad' = UsesLoad
      /\ strategy # "RANDOM" =>
           \A q \in Processors :
             Account(q) \in Nat /\ Account(q)' = IF q = p THEN Account(q) + n ELSE Account(q)
      /\ TotalExact'
      /\ UsesLoad =>
           /\ Table(processors)'
           /\ \A r \in Records(processors') : Available(r) >= 0
           /\ \A q \in published \union {p} : \E r \in Records(processors') : r.id = q
  BY <1>1, LedgerIdle
<1>4. \A q : OnAccount(q)' = OnAccount(q) /\ GuestsOf(q)' = GuestsOf(q) /\ Guests' = Guests
  BY DEF OnAccount, UnderWay, Arrived, GuestsOf, Guests
<1>5. AccountsExact'
  <2>1. SUFFICES ASSUME strategy # "RANDOM", NEW q \in Processors
                 PROVE  Exact(q)'
    BY <1>3, ExactIs
  <2>2. Exact(q)
    BY <1>2, <2>1, ExactIs
  <2>3. maxCapacity[q] \in Nat /\ Cardinality(OnAccount(q)) \in Nat /\ Cardinality(GuestsOf(q)) \in Nat
    BY CountsNat DEF TypeInv
  <2>4. CASE q = p
    <3>1. Account(p)' = Account(p) + n /\ Account(p) \in Nat
      BY <1>3, <2>1
    <3>2. Account(p) + Cardinality(OnAccount(p)) = Cardinality(GuestsOf(p))
      BY <2>2, <2>3, <2>4 DEF Exact
    <3> QED
      BY <1>1, <1>4, <2>3, <2>4, <3>1, <3>2 DEF Exact, n
  <2>5. CASE q # p
    BY <1>3, <1>4, <2>1, <2>2, <2>5 DEF Exact
  <2> QED
    BY <2>4, <2>5
<1>6. LoadsExact'
  <2>1. SUFFICES ASSUME UsesLoad, Guests = {}, NEW r \in Records(processors')
                 PROVE  /\ r.id \in published \union {p}
                        /\ r.currentJobs = IF maxCapacity[r.id] = 0 THEN 0
                                           ELSE Cardinality(OnAccount(r.id)) - 1
    BY <1>3, <1>4 DEF LoadsExact
  <2>2. \A x \in Records(processors) :
          /\ x.id \in published
          /\ x.currentJobs = IF maxCapacity[x.id] = 0 THEN 0 ELSE Cardinality(OnAccount(x.id)) - 1
    BY <1>2, <2>1 DEF LoadsExact
  <2>3. Records(processors') = (Records(processors) \ {NewLoad(p)}) \union {JobsFinished(NewLoad(p), n)}
    <3>1. Table(processors)
      BY <1>2, <2>1 DEF LoadsExact
    <3>2. PICK old \in Load :
            /\ \/ old \in Records(processors) /\ old.id = p
               \/ old = NewLoad(p) /\ \A x \in Records(processors) : x.id # p
            /\ Records(processors') = (Records(processors) \ {old}) \union {JobsFinished(old, n)}
      BY <1>1, <2>1, <3>1, SetIdleTable
    <3>3. old = NewLoad(p)
      BY <2>2, <3>2
    <3> QED
      BY <3>2, <3>3
  <2>4. CASE r \in Records(processors)
    BY <2>2, <2>4
  <2>5. CASE r = JobsFinished(NewLoad(p), n)
    <3>1. NewLoad(p) \in Load /\ NewLoad(p).id = p /\ NewLoad(p).currentJobs = 0
      BY DEF NewLoad, Load
    <3>2. r.id = p /\ r.currentJobs = IF n <= 1 THEN 0 - n ELSE -1
      <4> DEFINE new == NewLoad(p)
      <4>1. new \in Load /\ new.id = p /\ new.currentJobs = 0 /\ r = JobsFinished(new, n)
        BY <2>5, <3>1
      <4> HIDE DEF new
      <4> QED
        BY <1>1, <4>1, JobsFinishedFacts
    <3>3. Account(p) = 0
      BY <1>2, <2>1, <2>2, NoRecord
    <3>4. Exact(p) /\ GuestsOf(p) = {}
      BY <1>2, <2>1, ExactIs DEF UsesLoad, GuestsOf
    <3>5. Cardinality(OnAccount(p)) = 0
      BY <3>3, <3>4, CountsNat, FS_EmptySet DEF Exact
    <3> QED
      BY <1>1, <3>2, <3>5 DEF n
  <2> QED
    BY <2>1, <2>3, <2>4, <2>5
<1> QED
  BY <1>3, <1>5, <1>6 DEF Ledger

(* A processor reports a finished job. *)
LEMMA LedgerFinish ==
  ASSUME TypeInv, Ledger, NEW p \in Processors, NEW j \in UnderWay(p),
         SetIdleProcessor(p, 1), finished' = finished \union {j},
         UNCHANGED <<maxCapacity, assigned, published, unpaid>>
  PROVE  Ledger'
<1>1. LoadsExact /\ AccountsExact
  BY DEF Ledger
<1>2. /\ strategy' = strategy /\ UsesLoad' = UsesLoad
      /\ strategy # "RANDOM" =>
           \A q \in Processors :
             Account(q) \in Nat /\ Account(q)' = IF q = p THEN Account(q) + 1 ELSE Account(q)
      /\ TotalExact'
      /\ UsesLoad =>
           /\ Table(processors)'
           /\ \A r \in Records(processors') : Available(r) >= 0
           /\ \A q \in published \union {p} : \E r \in Records(processors') : r.id = q
  BY LedgerIdle
<1>3. j \in Arrived /\ j \notin finished /\ assigned[j] = p
  BY DEF UnderWay
<1>4. \A q : OnAccount(q)' = IF q = p THEN OnAccount(q) \ {j} ELSE OnAccount(q)
  BY <1>3 DEF OnAccount, UnderWay, Arrived
<1>5. /\ Guests' = IF j \in unpaid THEN Guests \union {j} ELSE Guests
      /\ \A q : GuestsOf(q)' = IF q = p /\ j \in unpaid THEN GuestsOf(q) \union {j} ELSE GuestsOf(q)
  BY <1>3 DEF GuestsOf, Guests
<1>6. j \notin GuestsOf(p) /\ (j \in OnAccount(p) <=> j \notin unpaid)
  BY <1>3 DEF GuestsOf, Guests, OnAccount
<1>7. /\ IsFiniteSet(OnAccount(p)) /\ Cardinality(OnAccount(p)) \in Nat
      /\ IsFiniteSet(GuestsOf(p)) /\ Cardinality(GuestsOf(p)) \in Nat
  BY CountsNat
<1>8. /\ Cardinality(OnAccount(p)') =
           IF j \in unpaid THEN Cardinality(OnAccount(p)) ELSE Cardinality(OnAccount(p)) - 1
      /\ Cardinality(GuestsOf(p)') =
           IF j \in unpaid THEN Cardinality(GuestsOf(p)) + 1 ELSE Cardinality(GuestsOf(p))
      /\ j \notin unpaid => Cardinality(OnAccount(p)) >= 1
  <2>1. Cardinality(OnAccount(p) \ {j}) =
          IF j \in OnAccount(p) THEN Cardinality(OnAccount(p)) - 1 ELSE Cardinality(OnAccount(p))
    BY <1>7, FS_RemoveElement
  <2>2. Cardinality(GuestsOf(p) \union {j}) = Cardinality(GuestsOf(p)) + 1
    BY <1>6, <1>7, FS_AddElement
  <2>3. j \notin unpaid => Cardinality(OnAccount(p)) # 0
    BY <1>6, <1>7, FS_EmptySet
  <2>4. /\ OnAccount(p)' = OnAccount(p) \ {j}
        /\ GuestsOf(p)' = IF j \in unpaid THEN GuestsOf(p) \union {j} ELSE GuestsOf(p)
    BY <1>4, <1>5
  <2>5. j \in OnAccount(p) <=> j \notin unpaid
    BY <1>6
  <2>6. j \notin unpaid => Cardinality(OnAccount(p)) >= 1
    BY <1>7, <2>3
  <2> QED
    BY <2>1, <2>2, <2>4, <2>5, <2>6
<1>9. AccountsExact'
  <2>1. SUFFICES ASSUME strategy # "RANDOM", NEW q \in Processors
                 PROVE  Exact(q)'
    BY <1>2, ExactIs
  <2>2. Exact(q)
    BY <1>1, <2>1, ExactIs
  <2>3. maxCapacity[q] \in Nat
    BY DEF TypeInv
  <2>4. CASE q = p
    <3>1. Account(p) \in Nat /\ Account(p)' = Account(p) + 1
      BY <1>2, <2>1
    <3>2. CASE j \in unpaid
      BY <1>7, <1>8, <2>2, <2>3, <2>4, <3>1, <3>2 DEF Exact
    <3>3. CASE j \notin unpaid
      BY <1>7, <1>8, <2>2, <2>3, <2>4, <3>1, <3>3 DEF Exact
    <3> QED
      BY <3>2, <3>3
  <2>5. CASE q # p
    BY <1>2, <1>4, <1>5, <2>1, <2>2, <2>5 DEF Exact
  <2> QED
    BY <2>4, <2>5
<1>10. LoadsExact'
  <2>1. SUFFICES ASSUME UsesLoad, Guests' = {}, NEW r \in Records(processors')
                 PROVE  /\ r.id \in published
                        /\ r.currentJobs = IF maxCapacity[r.id] = 0 THEN 0
                                           ELSE Cardinality(OnAccount(r.id)') - 1
    BY <1>2 DEF LoadsExact
  <2>2. j \notin unpaid /\ Guests = {}
    BY <1>5, <2>1
  <2>3. \A x \in Records(processors) :
          /\ x.id \in published
          /\ x.currentJobs = IF maxCapacity[x.id] = 0 THEN 0 ELSE Cardinality(OnAccount(x.id)) - 1
    BY <1>1, <2>1, <2>2 DEF LoadsExact
  <2>4. Exact(p) /\ GuestsOf(p) = {} /\ Account(p) \in Nat /\ maxCapacity[p] \in Nat
    BY <1>1, <1>2, <2>1, <2>2, ExactIs DEF UsesLoad, GuestsOf, TypeInv
  <2>5. p \in published /\ maxCapacity[p] # 0
    BY <1>7, <1>8, <2>2, <2>4, FS_EmptySet DEF Exact
  <2>6. PICK old \in Load :
          /\ \/ old \in Records(processors) /\ old.id = p
             \/ old = NewLoad(p) /\ \A x \in Records(processors) : x.id # p
          /\ Records(processors') = (Records(processors) \ {old}) \union {JobsFinished(old, 1)}
    BY <1>1, <2>1, SetIdleTable DEF LoadsExact
  <2>7. old \in Records(processors) /\ old.id = p
    BY <1>1, <2>1, <2>5, <2>6 DEF LoadsExact
  <2>8. old.currentJobs = Cardinality(OnAccount(p)) - 1
    BY <2>3, <2>5, <2>7
  <2>9. /\ JobsFinished(old, 1).id = p
        /\ JobsFinished(old, 1).currentJobs = Cardinality(OnAccount(p)') - 1
    <3>1. old.currentJobs >= 0
      BY <1>7, <1>8, <2>2, <2>8
    <3>2. /\ JobsFinished(old, 1).id = p
          /\ JobsFinished(old, 1).currentJobs = old.currentJobs - 1
      BY <2>7, <3>1, JobsFinishedFacts DEF Load
    <3> QED
      BY <1>7, <1>8, <2>2, <2>8, <3>2
  <2>10. CASE r = JobsFinished(old, 1)
    BY <2>5, <2>9, <2>10
  <2>11. CASE r \in Records(processors) /\ r # old
    <3>1. r.id # p
      BY <1>1, <2>1, <2>7, <2>11, OneRecord
    <3> QED
      BY <1>4, <2>3, <2>11, <3>1
  <2> QED
    BY <2>1, <2>6, <2>10, <2>11
<1> QED
  BY <1>2, <1>9, <1>10 DEF Ledger

-----------------------------------------------------------------------------
(* The invariant holds at first. *)

DispatcherInv == TypeInv /\ OnePlace /\ PublishedOnce /\ Ledger

LEMMA InitInv ==
  ASSUME Init
  PROVE  DispatcherInv
<1>0. /\ strategy \in Strategies /\ idleProcessorIds = <<>> /\ processors = <<>>
      /\ totalIdleProcessors = 0
      /\ maxCapacity \in Capacities /\ queuedJobs = [p \in Processors |-> <<>>]
      /\ myState = [p \in Processors |-> "INITIALIZING"]
      /\ nextOutputJob = NoJob /\ nextProcessorToAssign = 0 /\ outputVectorialEvents = <<>>
      /\ assigned = <<>> /\ published = {} /\ unpaid = {} /\ finished = {}
  BY DEF Init, StrategyInit, ServerInit
<1>1. Arrived = {}
  BY <1>0 DEF Arrived
<1>2. TypeInv
  <2>1. assigned \in [Arrived -> Processors] /\ IsFiniteSet(Arrived)
    BY <1>0, <1>1, FS_EmptySet
  <2>2. outputVectorialEvents \in Seq(Jobs \X Processors) /\ idleProcessorIds \in Seq(Processors)
    BY <1>0
  <2>3. queuedJobs \in [Processors -> Seq(Jobs)]
    BY <1>0
  <2>4. /\ maxCapacity \in [Processors -> Nat] /\ strategy \in AllStrategies
        /\ nextProcessorToAssign \in Processors
    BY <1>0, CapacityAssumption, StrategyAssumption, FarmAssumption
  <2> QED
    BY <1>0, <1>1, <2>1, <2>2, <2>3, <2>4 DEF TypeInv
<1>3. OnePlace
  <2>1. outputVectorialEvents = <<>> /\ \A p \in Processors : queuedJobs[p] = <<>>
    BY <1>0
  <2> QED
    BY <1>0, <2>1 DEF OnePlace
<1>4. PublishedOnce
  BY <1>0 DEF PublishedOnce
<1>5. Table(processors) /\ Records(processors) = {}
  BY <1>0 DEF Table, Records, Distinct, Sorted
<1>6. LoadsExact
  BY <1>0, <1>5 DEF LoadsExact
<1>7. ASSUME NEW p \in Processors
      PROVE  Account(p) = 0
  <2>1. CASE UsesLoad
    BY <1>5, <1>6, <2>1, NoRecord
  <2>2. CASE ~UsesLoad
    <3>1. {i \in DOMAIN idleProcessorIds : idleProcessorIds[i] = p} = {}
      BY <1>0
    <3>2. Cardinality({}) = 0
      BY FS_EmptySet
    <3> QED
      BY <2>2, <3>1, <3>2, AccountIs DEF Count
  <2> QED
    BY <2>1, <2>2
<1>8. TotalExact
  <2>1. Slots(Accounts) = {}
    <3>1. \A p \in Processors : Accounts[p] = 0
      BY <1>7 DEF Accounts
    <3>2. 1 .. 0 = {}
      OBVIOUS
    <3> QED
      BY <3>1, <3>2, Zenon DEF Slots
  <2> QED
    BY <1>0, <2>1, FS_EmptySet DEF TotalExact
<1>9. AccountsExact
  <2>1. ASSUME NEW p \in Processors
        PROVE  Exact(p)
    <3>1. OnAccount(p) = {} /\ GuestsOf(p) = {}
      BY <1>0, <1>1 DEF OnAccount, UnderWay, GuestsOf, Guests
    <3> QED
      BY <1>0, <1>7, <3>1, FS_EmptySet DEF Exact
  <2> QED
    BY <2>1, ExactIs
<1> QED
  BY <1>2, <1>3, <1>4, <1>6, <1>8, <1>9 DEF DispatcherInv, Ledger

-----------------------------------------------------------------------------
(* Every step keeps it. *)

(* setNextProcessorBusy and setIdleProcessor keep the types. *)
LEMMA BusyTypes ==
  ASSUME TypeInv, Possible, NEW p \in Processors, SetProcessorBusy(p)
  PROVE  /\ strategy' = strategy /\ idleProcessorIds' \in Seq(Processors)
         /\ totalIdleProcessors' \in Int
<1>0. idleProcessorIds \in Seq(Processors) /\ totalIdleProcessors \in Int
  BY DEF TypeInv
<1>1. CASE strategy = "FIFO"
  <2>1. idleProcessorIds # <<>>
    BY <1>1 DEF Possible
  <2>2. Tail(idleProcessorIds) \in Seq(Processors)
    BY <1>0, <2>1, TailFacts
  <2> QED
    BY <1>0, <1>1, <2>2 DEF SetProcessorBusy
<1>2. CASE strategy = "RANDOM_LOAD_AWARE"
  <2>1. PICK i \in DOMAIN idleProcessorIds : idleProcessorIds' = RemoveAt(idleProcessorIds, i)
    BY <1>2 DEF SetProcessorBusy
  <2>2. i \in 1 .. Len(idleProcessorIds)
    BY <1>0, LenProperties
  <2>3. Removed(idleProcessorIds', Processors, idleProcessorIds, i)
    BY <1>0, <2>1, <2>2, RemoveAtFacts, Zenon
  <2>4. strategy' = strategy /\ totalIdleProcessors' = totalIdleProcessors
    BY <1>2 DEF SetProcessorBusy
  <2> QED
    BY <1>0, <2>3, <2>4 DEF Removed
<1>3. CASE strategy = "RANDOM"
  BY <1>0, <1>3 DEF SetProcessorBusy, strategyVars
<1>4. CASE strategy \in {"BALANCED", "JOIN_SHORTEST_QUEUE"}
  BY <1>0, <1>4 DEF SetProcessorBusy
<1> QED
  BY <1>1, <1>2, <1>3, <1>4 DEF TypeInv, AllStrategies

LEMMA IdleTypes ==
  ASSUME TypeInv, NEW p \in Processors, NEW n \in Nat, SetIdleProcessor(p, n)
  PROVE  /\ strategy' = strategy /\ idleProcessorIds' \in Seq(Processors)
         /\ totalIdleProcessors' \in Int
<1>0. idleProcessorIds \in Seq(Processors) /\ totalIdleProcessors \in Int
  BY DEF TypeInv
<1>1. strategy' = strategy
  BY DEF SetIdleProcessor
<1>2. CASE UsesLoad
  BY <1>0, <1>1, <1>2 DEF SetIdleProcessor
<1>3. CASE ~UsesLoad /\ strategy # "RANDOM"
  <2>1. /\ idleProcessorIds' = idleProcessorIds \o [i \in 1 .. n |-> p]
        /\ totalIdleProcessors' = totalIdleProcessors
    BY <1>3 DEF SetIdleProcessor
  <2>2. Counted(idleProcessorIds', idleProcessorIds, p, n, p)
    BY <1>0, <2>1, CountAppended, Zenon
  <2> QED
    BY <1>0, <1>1, <2>1, <2>2 DEF Counted
<1>4. CASE ~UsesLoad /\ strategy = "RANDOM"
  <2>1. /\ idleProcessorIds' \in {idleProcessorIds, Append(idleProcessorIds, p)}
        /\ totalIdleProcessors' = totalIdleProcessors
    BY <1>4 DEF SetIdleProcessor
  <2>2. Append(idleProcessorIds, p) \in Seq(Processors)
    BY <1>0
  <2> QED
    BY <1>0, <1>1, <2>1, <2>2
<1> QED
  BY <1>2, <1>3, <1>4

(* A job arrives and is assigned. *)
LEMMA ArrivalTypes ==
  ASSUME TypeInv, OnePlace, NEW j \in Jobs \ Arrived, NEW p \in Processors, Assign(j, p),
         strategy' \in AllStrategies, idleProcessorIds' \in Seq(Processors),
         totalIdleProcessors' \in Int,
         unpaid' = unpaid \/ unpaid' = unpaid \union {j},
         UNCHANGED <<maxCapacity, queuedJobs, myState, outputVectorialEvents, published, finished>>
  PROVE  TypeInv' /\ OnePlace'
<1>0. /\ maxCapacity' = maxCapacity /\ queuedJobs' = queuedJobs /\ myState' = myState
      /\ outputVectorialEvents' = outputVectorialEvents
      /\ published' = published /\ finished' = finished
      /\ nextOutputJob' = j /\ nextProcessorToAssign' = p
      /\ assigned' = [i \in Arrived \union {j} |-> IF i = j THEN p ELSE assigned[i]]
  BY DEF Assign
<1>1. Arrived' = Arrived \union {j} /\ assigned' \in [Arrived' -> Processors]
  BY <1>0, UnderWayMore
<1>2. ASSUME NEW q
      PROVE  UnderWay(q)' = IF q = p THEN UnderWay(q) \union {j} ELSE UnderWay(q)
  <2>1. assigned' = [i \in Arrived \union {j} |-> IF i = j THEN p ELSE assigned[i]]
    BY <1>0
  <2>2. finished' = finished
    BY <1>0
  <2>3. Sent(j, p, q)
    BY <2>1, <2>2, UnderWayMore, Zenon
  <2> QED
    BY <2>3 DEF Sent
<1>3. TypeInv'
  <2>1. IsFiniteSet(Arrived')
    BY <1>1, FS_AddElement DEF TypeInv
  <2>2. unpaid' \subseteq Arrived' /\ finished' \subseteq Arrived' /\ Arrived' \subseteq Jobs
    BY <1>0, <1>1 DEF TypeInv
  <2> QED
    BY <1>0, <1>1, <2>1, <2>2 DEF TypeInv
<1>4. ~Forwarded(j) /\ ~Queued(j)
  BY DEF OnePlace, Forwarded, Queued, UnderWay
<1>5. Forwarded(j)' = Forwarded(j) /\ \A i : Queued(i)' = Queued(i)
  BY <1>0 DEF Forwarded, Queued
<1>6. nextOutputJob' \in UnderWay(nextProcessorToAssign)'
  <2>1. j \in UnderWay(p)'
    BY <1>2
  <2> QED
    BY <1>0, <2>1 DEF UnderWay
<1>7. \A q : UnderWay(q) \subseteq UnderWay(q)'
  BY <1>2
<1>8. OnePlace'
  <2>1. /\ \A i \in DOMAIN outputVectorialEvents :
             /\ outputVectorialEvents[i][1] \in UnderWay(outputVectorialEvents[i][2])
             /\ ~Queued(outputVectorialEvents[i][1])
             /\ \A k \in DOMAIN outputVectorialEvents :
                  outputVectorialEvents[k][1] = outputVectorialEvents[i][1] => k = i
        /\ \A q \in Processors : \A i \in DOMAIN queuedJobs[q] :
             /\ queuedJobs[q][i] \in UnderWay(q)
             /\ \A k \in DOMAIN queuedJobs[q] : queuedJobs[q][k] = queuedJobs[q][i] => k = i
    BY DEF OnePlace
  <2>2. Forwarded(nextOutputJob)' = Forwarded(j) /\ Queued(nextOutputJob)' = Queued(j)
    BY <1>0 DEF Forwarded, Queued
  <2>3. \A i \in DOMAIN outputVectorialEvents' :
          /\ outputVectorialEvents'[i][1] \in UnderWay(outputVectorialEvents[i][2])'
          /\ ~Queued(outputVectorialEvents[i][1])'
          /\ \A k \in DOMAIN outputVectorialEvents' :
               outputVectorialEvents'[k][1] = outputVectorialEvents'[i][1] => k = i
    BY <1>0, <1>7, <2>1 DEF Queued, UnderWay
  <2>4. \A q \in Processors : \A i \in DOMAIN queuedJobs'[q] :
          /\ queuedJobs'[q][i] \in UnderWay(q)'
          /\ \A k \in DOMAIN queuedJobs'[q] : queuedJobs'[q][k] = queuedJobs'[q][i] => k = i
    BY <1>0, <1>7, <2>1
  <2> QED
    BY <1>4, <1>6, <2>2, <2>3, <2>4 DEF OnePlace
<1> QED
  BY <1>3, <1>8

LEMMA NewJobInv ==
  ASSUME DispatcherInv, NEW j \in Jobs \ Arrived, NewJob(j)
  PROVE  DispatcherInv'
<1>0. TypeInv /\ OnePlace /\ PublishedOnce /\ Ledger
  BY DEF DispatcherInv
<1>1. /\ UNCHANGED <<maxCapacity, queuedJobs, myState, outputVectorialEvents, published, finished>>
      /\ maxCapacity' = maxCapacity /\ myState' = myState /\ published' = published
      /\ finished' = finished
  BY DEF NewJob, serverVars
<1>2. PublishedOnce'
  BY <1>0, <1>1 DEF PublishedOnce
<1>3. CASE /\ NobodyIdle /\ Assign(j, 0) /\ unpaid' = unpaid \union {j}
           /\ UNCHANGED strategyVars
  <2>0. 0 \in Processors
    BY FarmAssumption
  <2>1. /\ strategy' \in AllStrategies /\ idleProcessorIds' \in Seq(Processors)
        /\ totalIdleProcessors' \in Int
    BY <1>0, <1>3 DEF TypeInv, strategyVars
  <2>2. TypeInv' /\ OnePlace'
    BY <1>0, <1>1, <1>3, <2>0, <2>1, ArrivalTypes
  <2>3. assigned' = [i \in Arrived \union {j} |-> IF i = j THEN 0 ELSE assigned[i]]
    BY <1>3 DEF Assign
  <2>4. Ledger'
    BY <1>0, <1>1, <1>3, <2>3, LedgerUnpaid
  <2> QED
    BY <1>2, <2>2, <2>4 DEF DispatcherInv
<1>4. ASSUME NEW p \in Processors, ~ChoiceFails, ~NobodyIdle, SetProcessorBusy(p), Assign(j, p),
             unpaid' = unpaid
      PROVE  DispatcherInv'
  <2>1. Possible
    BY <1>0, <1>4, ChoicePossible DEF Ledger
  <2>2. /\ strategy' \in AllStrategies /\ idleProcessorIds' \in Seq(Processors)
        /\ totalIdleProcessors' \in Int
    BY <1>0, <1>4, <2>1, BusyTypes DEF TypeInv
  <2>3. TypeInv' /\ OnePlace'
    BY <1>0, <1>1, <1>4, <2>2, ArrivalTypes
  <2>4. assigned' = [i \in Arrived \union {j} |-> IF i = j THEN p ELSE assigned[i]]
    BY <1>4 DEF Assign
  <2>5. Ledger'
    BY <1>0, <1>1, <1>4, <2>1, <2>4, LedgerPaid
  <2> QED
    BY <1>2, <2>3, <2>5 DEF DispatcherInv
<1> QED
  BY <1>3, <1>4 DEF NewJob

(* The parts of OnePlace: of the queues, and of the fan-out. *)
InQueues ==
  \A p \in Processors : \A i \in DOMAIN queuedJobs[p] :
    /\ queuedJobs[p][i] \in UnderWay(p)
    /\ \A k \in DOMAIN queuedJobs[p] : queuedJobs[p][k] = queuedJobs[p][i] => k = i

InFanOut ==
  \A i \in DOMAIN outputVectorialEvents :
    /\ outputVectorialEvents[i][1] \in UnderWay(outputVectorialEvents[i][2])
    /\ ~Queued(outputVectorialEvents[i][1])
    /\ \A k \in DOMAIN outputVectorialEvents :
         outputVectorialEvents[k][1] = outputVectorialEvents[i][1] => k = i

InDispatcher ==
  nextOutputJob # NoJob =>
    /\ nextOutputJob \in UnderWay(nextProcessorToAssign)
    /\ ~Forwarded(nextOutputJob) /\ ~Queued(nextOutputJob)

LEMMA PlaceIs ==
  /\ OnePlace <=> InQueues /\ InFanOut /\ InDispatcher
  /\ OnePlace' <=> InQueues' /\ InFanOut' /\ InDispatcher'
<1>1. OnePlace <=> InQueues /\ InFanOut /\ InDispatcher
  BY DEF OnePlace, InQueues, InFanOut, InDispatcher
<1>2. OnePlace' <=> InQueues' /\ InFanOut' /\ InDispatcher'
  BY DEF OnePlace, InQueues, InFanOut, InDispatcher
<1> QED
  BY <1>1, <1>2

(* The dispatcher puts its job out. *)
LEMMA DispatchInv ==
  ASSUME DispatcherInv, Dispatch
  PROVE  DispatcherInv'
<1>0. TypeInv /\ OnePlace /\ PublishedOnce /\ Ledger
  BY DEF DispatcherInv
<1> DEFINE e == outputVectorialEvents
           new == <<nextOutputJob, nextProcessorToAssign>>
<1>1. /\ nextOutputJob # NoJob /\ e' = Append(e, new) /\ nextOutputJob' = NoJob
      /\ UNCHANGED <<strategyVars, maxCapacity, assigned, published, unpaid, finished>>
      /\ strategy' = strategy /\ idleProcessorIds' = idleProcessorIds
      /\ totalIdleProcessors' = totalIdleProcessors
      /\ queuedJobs' = queuedJobs /\ myState' = myState
      /\ nextProcessorToAssign' = nextProcessorToAssign
  BY DEF Dispatch, strategyVars, serverVars, histVars
<1>2. Ledger'
  BY <1>0, <1>1, LedgerSame
<1>3. PublishedOnce'
  BY <1>0, <1>1 DEF PublishedOnce
<1>4. nextOutputJob \in UnderWay(nextProcessorToAssign) /\ ~Forwarded(nextOutputJob) /\ ~Queued(nextOutputJob)
  BY <1>0, <1>1, PlaceIs DEF InDispatcher
<1>5. e \in Seq(Jobs \X Processors) /\ Len(e) \in Nat /\ DOMAIN e = 1 .. Len(e)
  BY <1>0, LenProperties DEF TypeInv
<1>6. nextOutputJob \in Jobs /\ nextProcessorToAssign \in Processors
  BY <1>0, <1>4 DEF TypeInv, UnderWay
<1>7. new \in Jobs \X Processors /\ new[1] = nextOutputJob /\ new[2] = nextProcessorToAssign
  BY <1>6
<1> HIDE DEF e, new
<1>8. /\ e' \in Seq(Jobs \X Processors) /\ DOMAIN e' = 1 .. Len(e) + 1
      /\ \A i \in 1 .. Len(e) : e'[i] = e[i]
      /\ e'[Len(e) + 1] = new
  BY <1>1, <1>5, <1>7, AppendProperties
<1>9. TypeInv'
  BY <1>0, <1>1, <1>8 DEF TypeInv, Arrived, e
<1>10. \A q : UnderWay(q)' = UnderWay(q) /\ Queued(q)' = Queued(q)
  BY <1>1 DEF UnderWay, Arrived, Queued
<1>11. InQueues'
  BY <1>0, <1>1, <1>10, PlaceIs DEF InQueues
<1>12. InDispatcher'
  BY <1>1 DEF InDispatcher
<1>13. ASSUME NEW i \in DOMAIN e'
       PROVE  /\ e'[i][1] \in UnderWay(e'[i][2])
              /\ ~Queued(e'[i][1])
              /\ \A k \in DOMAIN e' : e'[k][1] = e'[i][1] => k = i
  <2>1. \A l \in DOMAIN e :
          /\ e[l][1] \in UnderWay(e[l][2]) /\ ~Queued(e[l][1])
          /\ \A k \in DOMAIN e : e[k][1] = e[l][1] => k = l
    BY <1>0, PlaceIs DEF InFanOut, e
  <2>2. \A l \in DOMAIN e : e[l][1] # nextOutputJob
    BY <1>4 DEF Forwarded, e
  <2>3. CASE i \in 1 .. Len(e)
    <3>1. \A k \in DOMAIN e' : k \in DOMAIN e \/ k = Len(e) + 1
      BY <1>5, <1>8
    <3> QED
      BY <1>5, <1>7, <1>8, <2>1, <2>2, <2>3, <3>1
  <2>4. CASE i = Len(e) + 1
    <3>1. \A k \in DOMAIN e' : k \in DOMAIN e \/ k = Len(e) + 1
      BY <1>5, <1>8
    <3> QED
      BY <1>4, <1>5, <1>7, <1>8, <2>2, <2>4, <3>1
  <2> QED
    BY <1>5, <1>8, <2>3, <2>4
<1>14. InFanOut'
  <2>1. \A q : UnderWay(q)' = {i \in Arrived' \ finished' : assigned'[i] = q}
    BY DEF UnderWay
  <2>2. SUFFICES ASSUME NEW i \in DOMAIN e'
                 PROVE  /\ e'[i][1] \in {x \in Arrived' \ finished' : assigned'[x] = e'[i][2]}
                        /\ ~(\E q \in Processors : \E l \in DOMAIN queuedJobs'[q] : queuedJobs'[q][l] = e'[i][1])
                        /\ \A k \in DOMAIN e' : e'[k][1] = e'[i][1] => k = i
    BY DEF InFanOut, UnderWay, Queued, e
  <2> QED
    BY <1>1, <1>13 DEF UnderWay, Queued, Arrived
<1> QED
  BY <1>2, <1>3, <1>9, <1>11, <1>12, <1>14, PlaceIs DEF DispatcherInv

(* A step of nothing but the servers, that leaves the queues alone. *)
LEMMA StateInv ==
  ASSUME DispatcherInv,
         UNCHANGED <<strategyVars, maxCapacity, queuedJobs, nextOutputJob, nextProcessorToAssign,
                     outputVectorialEvents, assigned, published, unpaid, finished>>,
         myState' \in [Processors -> {"INITIALIZING", "PROCESSING", "DISCARDING"}],
         \A p \in Processors : myState'[p] = "INITIALIZING" => myState[p] = "INITIALIZING"
  PROVE  DispatcherInv'
<1>0. TypeInv /\ OnePlace /\ PublishedOnce /\ Ledger
  BY DEF DispatcherInv
<1>1. /\ strategy' = strategy /\ idleProcessorIds' = idleProcessorIds
      /\ totalIdleProcessors' = totalIdleProcessors
  BY DEF strategyVars
<1>2. TypeInv'
  BY <1>0, <1>1 DEF TypeInv, Arrived
<1>3. OnePlace'
  BY <1>0 DEF OnePlace, UnderWay, Forwarded, Queued, Arrived
<1>4. PublishedOnce'
  BY <1>0 DEF PublishedOnce
<1>5. Ledger'
  BY <1>0, LedgerSame
<1> QED
  BY <1>2, <1>3, <1>4, <1>5 DEF DispatcherInv

LEMMA DiscardsInv ==
  ASSUME DispatcherInv, NEW p \in Processors, ProcessorDiscards(p)
  PROVE  DispatcherInv'
<1>1. myState \in [Processors -> {"INITIALIZING", "PROCESSING", "DISCARDING"}]
  BY DEF DispatcherInv, TypeInv
<1>2. myState' = [myState EXCEPT ![p] = "PROCESSING"]
  BY DEF ProcessorDiscards, Discarded
<1>3. UNCHANGED <<strategyVars, maxCapacity, queuedJobs, nextOutputJob, nextProcessorToAssign,
                  outputVectorialEvents, assigned, published, unpaid, finished>>
  BY DEF ProcessorDiscards, Discarded, outVars, histVars
<1>4. /\ myState' \in [Processors -> {"INITIALIZING", "PROCESSING", "DISCARDING"}]
      /\ \A q \in Processors : myState'[q] = "INITIALIZING" => myState[q] = "INITIALIZING"
  BY <1>1, <1>2
<1> QED
  BY <1>3, <1>4, StateInv

LEMMA StutterInv ==
  ASSUME DispatcherInv, TimePasses \/ NewJobFails \/ UNCHANGED vars
  PROVE  DispatcherInv'
<1>1. myState \in [Processors -> {"INITIALIZING", "PROCESSING", "DISCARDING"}]
  BY DEF DispatcherInv, TypeInv
<1>2. UNCHANGED <<strategyVars, maxCapacity, queuedJobs, nextOutputJob, nextProcessorToAssign,
                  outputVectorialEvents, assigned, published, unpaid, finished>>
      /\ myState' = myState
  BY DEF TimePasses, NewJobFails, ServersLater, vars, serverVars, outVars, histVars
<1> QED
  BY <1>1, <1>2, StateInv

(* A processor publishes its capacity. *)
LEMMA PublishInv ==
  ASSUME DispatcherInv, NEW p \in Processors, ProcessorPublishes(p)
  PROVE  DispatcherInv'
<1>0. TypeInv /\ OnePlace /\ PublishedOnce /\ Ledger
  BY DEF DispatcherInv
<1>1. /\ myState[p] = "INITIALIZING" /\ myState' = [myState EXCEPT ![p] = "PROCESSING"]
      /\ SetIdleProcessor(p, maxCapacity[p])
      /\ published' = published \union {p}
      /\ maxCapacity' = maxCapacity /\ queuedJobs' = queuedJobs
      /\ nextOutputJob' = nextOutputJob /\ nextProcessorToAssign' = nextProcessorToAssign
      /\ outputVectorialEvents' = outputVectorialEvents
      /\ assigned' = assigned /\ unpaid' = unpaid /\ finished' = finished
  BY DEF ProcessorPublishes, Publish, outVars
<1>2. p \notin published
  BY <1>0, <1>1 DEF PublishedOnce
<1>3. Ledger'
  BY <1>0, <1>1, <1>2, LedgerPublish
<1>4. TypeInv'
  <2>1. maxCapacity[p] \in Nat
    BY <1>0 DEF TypeInv
  <2>2. /\ strategy' = strategy /\ idleProcessorIds' \in Seq(Processors)
        /\ totalIdleProcessors' \in Int
    BY <1>0, <1>1, <2>1, IdleTypes
  <2>3. myState' \in [Processors -> {"INITIALIZING", "PROCESSING", "DISCARDING"}]
    BY <1>0, <1>1 DEF TypeInv
  <2> QED
    BY <1>0, <1>1, <2>2, <2>3 DEF TypeInv, Arrived
<1>5. OnePlace'
  BY <1>0, <1>1 DEF OnePlace, UnderWay, Forwarded, Queued, Arrived
<1>6. PublishedOnce'
  BY <1>0, <1>1 DEF PublishedOnce, TypeInv
<1> QED
  BY <1>3, <1>4, <1>5, <1>6 DEF DispatcherInv

(* A processor reports a finished job. *)
LEMMA FinishInv ==
  ASSUME DispatcherInv, NEW p \in Processors, ProcessorFinishes(p)
  PROVE  DispatcherInv'
<1>0. TypeInv /\ OnePlace /\ PublishedOnce /\ Ledger
  BY DEF DispatcherInv
<1> DEFINE s == queuedJobs[p]
           j == Head(s)
<1>1. /\ s # <<>> /\ queuedJobs' = [queuedJobs EXCEPT ![p] = Tail(s)]
      /\ SetIdleProcessor(p, 1)
      /\ finished' = finished \union {j}
      /\ maxCapacity' = maxCapacity /\ myState' = myState /\ published' = published
      /\ nextOutputJob' = nextOutputJob /\ nextProcessorToAssign' = nextProcessorToAssign
      /\ outputVectorialEvents' = outputVectorialEvents
      /\ assigned' = assigned /\ unpaid' = unpaid
  BY DEF ProcessorFinishes, Finish, FirstDone, outVars
<1>2. s \in Seq(Jobs) /\ Len(s) \in Nat /\ DOMAIN s = 1 .. Len(s)
  BY <1>0, LenProperties DEF TypeInv
<1>3. queuedJobs \in [Processors -> Seq(Jobs)]
  BY <1>0 DEF TypeInv
<1> HIDE DEF s
<1>4. /\ j = s[1] /\ 1 \in DOMAIN s
      /\ Tail(s) \in Seq(Jobs) /\ DOMAIN Tail(s) = 1 .. Len(s) - 1
      /\ \A k \in 1 .. Len(s) - 1 : Tail(s)[k] = s[k + 1]
  BY <1>1, <1>2, TailFacts, LenProperties
<1> HIDE DEF j
<1>5. InQueues /\ InFanOut /\ InDispatcher
  BY <1>0, PlaceIs
<1>6. j \in UnderWay(p) /\ Queued(j) /\ \A k \in DOMAIN s : s[k] = j => k = 1
  BY <1>4, <1>5 DEF InQueues, Queued, s
<1>7. Ledger'
  BY <1>0, <1>1, <1>6, LedgerFinish
<1>8. TypeInv'
  <2>1. /\ strategy' = strategy /\ idleProcessorIds' \in Seq(Processors)
        /\ totalIdleProcessors' \in Int
    BY <1>0, <1>1, IdleTypes
  <2>2. queuedJobs' \in [Processors -> Seq(Jobs)]
    BY <1>1, <1>3, <1>4
  <2>3. finished' \subseteq Arrived
    BY <1>0, <1>1, <1>6 DEF TypeInv, UnderWay
  <2> QED
    BY <1>0, <1>1, <2>1, <2>2, <2>3 DEF TypeInv, Arrived
<1>9. PublishedOnce'
  BY <1>0, <1>1 DEF PublishedOnce
<1>10. ASSUME NEW x, NEW q, x \in UnderWay(q), x # j
       PROVE  x \in UnderWay(q)'
  BY <1>1, <1>10 DEF UnderWay, Arrived
<1>11. /\ queuedJobs'[p] = Tail(s)
       /\ \A q \in Processors : q # p => queuedJobs'[q] = queuedJobs[q]
  BY <1>1, <1>3
<1>12. \A q \in Processors : \A i \in DOMAIN queuedJobs'[q] :
         /\ queuedJobs'[q][i] # j
         /\ \E k \in DOMAIN queuedJobs[q] : queuedJobs'[q][i] = queuedJobs[q][k]
  <2>1. ASSUME NEW q \in Processors, NEW i \in DOMAIN queuedJobs'[q]
        PROVE  /\ queuedJobs'[q][i] # j
               /\ \E k \in DOMAIN queuedJobs[q] : queuedJobs'[q][i] = queuedJobs[q][k]
    <3>1. CASE q = p
      <4>1. i \in 1 .. Len(s) - 1 /\ i + 1 \in DOMAIN s /\ queuedJobs'[q][i] = s[i + 1] /\ i + 1 # 1
        BY <1>2, <1>4, <1>11, <2>1, <3>1
      <4> QED
        BY <1>6, <3>1, <4>1 DEF s
    <3>2. CASE q # p
      <4>1. queuedJobs'[q] = queuedJobs[q] /\ queuedJobs[q][i] \in UnderWay(q)
        BY <1>5, <1>11, <2>1, <3>2 DEF InQueues
      <4>2. queuedJobs[q][i] # j
        BY <1>6, <3>2, <4>1 DEF UnderWay
      <4> QED
        BY <2>1, <4>1, <4>2
    <3> QED
      BY <3>1, <3>2
  <2> QED
    BY <2>1
<1>13. InQueues'
  <2>1. ASSUME NEW q \in Processors, NEW i \in DOMAIN queuedJobs'[q]
        PROVE  /\ queuedJobs'[q][i] \in UnderWay(q)'
               /\ \A k \in DOMAIN queuedJobs'[q] : queuedJobs'[q][k] = queuedJobs'[q][i] => k = i
    <3>1. queuedJobs'[q][i] \in UnderWay(q)
      BY <1>5, <1>12, <2>1 DEF InQueues
    <3>2. queuedJobs'[q][i] \in UnderWay(q)'
      BY <1>10, <1>12, <2>1, <3>1
    <3>3. CASE q = p
      <4>1. \A k, l \in DOMAIN s : s[k] = s[l] => k = l
        BY <1>5 DEF InQueues, s
      <4>2. DOMAIN queuedJobs'[q] = 1 .. Len(s) - 1
            /\ \A k \in 1 .. Len(s) - 1 : queuedJobs'[q][k] = s[k + 1] /\ k + 1 \in DOMAIN s
        BY <1>2, <1>4, <1>11, <3>3
      <4>3. ASSUME NEW k \in DOMAIN queuedJobs'[q], queuedJobs'[q][k] = queuedJobs'[q][i]
            PROVE  k = i
        <5>1. s[k + 1] = s[i + 1] /\ k + 1 \in DOMAIN s /\ i + 1 \in DOMAIN s
          BY <2>1, <4>2, <4>3
        <5>2. k + 1 = i + 1
          BY <4>1, <5>1
        <5> QED
          BY <1>2, <2>1, <4>2, <4>3, <5>2
      <4> QED
        BY <3>2, <4>3
    <3>4. CASE q # p
      BY <1>5, <1>11, <2>1, <3>2, <3>4 DEF InQueues
    <3> QED
      BY <3>3, <3>4
  <2> QED
    BY <2>1 DEF InQueues
<1>14. \A x : Queued(x)' => Queued(x)
  BY <1>12 DEF Queued
<1>15. InFanOut'
  <2>1. ASSUME NEW i \in DOMAIN outputVectorialEvents
        PROVE  /\ outputVectorialEvents[i][1] \in UnderWay(outputVectorialEvents[i][2])'
               /\ ~Queued(outputVectorialEvents[i][1])'
               /\ \A k \in DOMAIN outputVectorialEvents :
                    outputVectorialEvents[k][1] = outputVectorialEvents[i][1] => k = i
    <3>1. /\ outputVectorialEvents[i][1] \in UnderWay(outputVectorialEvents[i][2])
          /\ ~Queued(outputVectorialEvents[i][1])
          /\ \A k \in DOMAIN outputVectorialEvents :
               outputVectorialEvents[k][1] = outputVectorialEvents[i][1] => k = i
      BY <1>5, <2>1 DEF InFanOut
    <3>2. outputVectorialEvents[i][1] # j
      BY <1>6, <3>1
    <3> DEFINE x == outputVectorialEvents[i][1]
               q == outputVectorialEvents[i][2]
    <3>3. x \in UnderWay(q)' /\ ~Queued(x)'
      BY <1>1, <1>10, <1>14, <3>1, <3>2 DEF UnderWay, Queued, Arrived
    <3> QED
      BY <1>1, <3>1, <3>3 DEF UnderWay, Queued
  <2> QED
    BY <1>1, <2>1 DEF InFanOut, UnderWay, Queued
<1>16. InDispatcher'
  <2>1. SUFFICES ASSUME nextOutputJob # NoJob
                 PROVE  /\ nextOutputJob \in UnderWay(nextProcessorToAssign)'
                        /\ ~Forwarded(nextOutputJob)' /\ ~Queued(nextOutputJob)'
    BY <1>1 DEF InDispatcher, UnderWay, Forwarded, Queued
  <2>2. /\ nextOutputJob \in UnderWay(nextProcessorToAssign)
        /\ ~Forwarded(nextOutputJob) /\ ~Queued(nextOutputJob)
    BY <1>5, <2>1 DEF InDispatcher
  <2>3. nextOutputJob # j
    BY <1>6, <2>2
  <2>4. nextOutputJob \in {i \in Arrived \ (finished \union {j}) : assigned[i] = nextProcessorToAssign}
    BY <2>2, <2>3 DEF UnderWay
  <2>5. ~(\E q \in Processors : \E i \in DOMAIN queuedJobs'[q] : queuedJobs'[q][i] = nextOutputJob)
    BY <1>12, <2>2 DEF Queued
  <2> QED
    BY <1>1, <2>2, <2>4, <2>5 DEF UnderWay, Forwarded, Queued, Arrived
<1> QED
  BY <1>7, <1>8, <1>9, <1>13, <1>15, <1>16, PlaceIs DEF DispatcherInv

(* The fan-out forwards its first event, and the job is queued or not. *)
LEMMA ForwardPlaces ==
  ASSUME TypeInv, OnePlace, NEW p, NEW j,
         outputVectorialEvents # <<>>, Head(outputVectorialEvents)[1] = j,
         outputVectorialEvents' = Tail(outputVectorialEvents),
         UNCHANGED <<nextOutputJob, nextProcessorToAssign, assigned, finished>>,
         InQueues', \A x : Queued(x)' => Queued(x) \/ x = j
  PROVE  OnePlace' /\ outputVectorialEvents' \in Seq(Jobs \X Processors)
<1> DEFINE e == outputVectorialEvents
<1>1. e \in Seq(Jobs \X Processors) /\ Len(e) \in Nat /\ DOMAIN e = 1 .. Len(e) /\ e # <<>>
  BY LenProperties DEF TypeInv
<1>2. e' = Tail(e)
  OBVIOUS
<1>3. InQueues /\ InFanOut /\ InDispatcher
  BY PlaceIs
<1>4. \A l \in DOMAIN e :
        /\ e[l][1] \in UnderWay(e[l][2]) /\ ~Queued(e[l][1])
        /\ \A k \in DOMAIN e : e[k][1] = e[l][1] => k = l
  BY <1>3 DEF InFanOut
<1>5. Head(e)[1] = j
  OBVIOUS
<1> HIDE DEF e
<1>6. /\ 1 \in DOMAIN e /\ e[1][1] = j
      /\ e' \in Seq(Jobs \X Processors) /\ DOMAIN e' = 1 .. Len(e) - 1
      /\ \A k \in 1 .. Len(e) - 1 : e'[k] = e[k + 1]
  <2>1. /\ Head(e) = e[1] /\ Len(e) >= 1
        /\ Tail(e) \in Seq(Jobs \X Processors) /\ Len(Tail(e)) = Len(e) - 1
        /\ \A k \in 1 .. Len(e) - 1 : Tail(e)[k] = e[k + 1]
    BY <1>1, TailFacts
  <2>2. DOMAIN Tail(e) = 1 .. Len(e) - 1
    BY <2>1, LenProperties
  <2> QED
    BY <1>1, <1>2, <1>5, <2>1, <2>2
<1>7. ASSUME NEW i \in DOMAIN e'
      PROVE  /\ e'[i][1] \in UnderWay(e'[i][2])
             /\ ~(\E q \in Processors : \E l \in DOMAIN queuedJobs'[q] : queuedJobs'[q][l] = e'[i][1])
             /\ \A k \in DOMAIN e' : e'[k][1] = e'[i][1] => k = i
  <2>1. \A k \in DOMAIN e' : e'[k] = e[k + 1] /\ k + 1 \in DOMAIN e /\ k + 1 # 1 /\ k \in Int
    BY <1>1, <1>6
  <2>2. e'[i][1] # j
    BY <1>4, <1>6, <2>1
  <2>3. ASSUME NEW k \in DOMAIN e', e'[k][1] = e'[i][1]
        PROVE  k = i
    <3>1. k + 1 = i + 1
      BY <1>4, <2>1, <2>3
    <3> QED
      BY <2>1, <3>1
  <2>4. e'[i][1] \in UnderWay(e'[i][2]) /\ ~Queued(e'[i][1])
    BY <1>4, <2>1
  <2>5. \A x : ~Queued(x) /\ x # j => ~(\E q \in Processors : \E l \in DOMAIN queuedJobs'[q] : queuedJobs'[q][l] = x)
    BY DEF Queued
  <2>6. ~(\E q \in Processors : \E l \in DOMAIN queuedJobs'[q] : queuedJobs'[q][l] = e'[i][1])
    BY <2>2, <2>4, <2>5
  <2> QED
    BY <2>3, <2>4, <2>6
<1>8. \A q : UnderWay(q)' = UnderWay(q)
  BY DEF UnderWay, Arrived
<1>9. InFanOut'
  <2>1. SUFFICES ASSUME NEW i \in DOMAIN e'
                 PROVE  /\ e'[i][1] \in {x \in Arrived' \ finished' : assigned'[x] = e'[i][2]}
                        /\ ~(\E q \in Processors : \E l \in DOMAIN queuedJobs'[q] : queuedJobs'[q][l] = e'[i][1])
                        /\ \A k \in DOMAIN e' : e'[k][1] = e'[i][1] => k = i
    BY DEF InFanOut, UnderWay, Queued, e
  <2>2. e'[i][1] \in UnderWay(e'[i][2])
    BY <1>7
  <2>3. e'[i][1] \in {x \in Arrived' \ finished' : assigned'[x] = e'[i][2]}
    BY <2>2 DEF UnderWay, Arrived
  <2> QED
    BY <1>7, <2>3
<1>10. InDispatcher'
  <2>1. SUFFICES ASSUME nextOutputJob # NoJob
                 PROVE  /\ nextOutputJob \in UnderWay(nextProcessorToAssign)'
                        /\ ~Forwarded(nextOutputJob)' /\ ~Queued(nextOutputJob)'
    BY DEF InDispatcher, UnderWay, Forwarded, Queued
  <2>2. /\ nextOutputJob \in UnderWay(nextProcessorToAssign)
        /\ ~Forwarded(nextOutputJob) /\ ~Queued(nextOutputJob)
    BY <1>3, <2>1 DEF InDispatcher
  <2>3. nextOutputJob # j
    BY <1>6, <2>2 DEF Forwarded, e
  <2>4. ~(\E i \in DOMAIN e' : e'[i][1] = nextOutputJob)
    <3>1. \A k \in DOMAIN e' : e'[k] = e[k + 1] /\ k + 1 \in DOMAIN e
      BY <1>1, <1>6
    <3> QED
      BY <2>2, <3>1 DEF Forwarded, e
  <2>5. ~(\E q \in Processors : \E i \in DOMAIN queuedJobs'[q] : queuedJobs'[q][i] = nextOutputJob)
    BY <2>2, <2>3 DEF Queued
  <2>6. nextOutputJob \in UnderWay(nextProcessorToAssign)'
    BY <2>2 DEF UnderWay, Arrived
  <2> QED
    BY <2>4, <2>5, <2>6 DEF Forwarded, Queued, e
<1> QED
  BY <1>6, <1>9, <1>10, PlaceIs DEF e

LEMMA ForwardInv ==
  ASSUME DispatcherInv, ForwardEvent
  PROVE  DispatcherInv'
<1>0. TypeInv /\ OnePlace /\ PublishedOnce /\ Ledger
  BY DEF DispatcherInv
<1> DEFINE e == outputVectorialEvents
           j == Head(e)[1]
           p == Head(e)[2]
<1>1. /\ e # <<>> /\ e' = Tail(e) /\ (Serve(p, j) \/ Discard(p, j))
      /\ UNCHANGED <<strategyVars, maxCapacity, assigned, published, unpaid, finished>>
      /\ strategy' = strategy /\ idleProcessorIds' = idleProcessorIds
      /\ totalIdleProcessors' = totalIdleProcessors
      /\ nextOutputJob' = nextOutputJob /\ nextProcessorToAssign' = nextProcessorToAssign
  BY DEF ForwardEvent, Serve, Discard, strategyVars, outVars
<1>2. InQueues /\ InFanOut
  BY <1>0, PlaceIs
<1>3. j \in Jobs /\ p \in Processors /\ j \in UnderWay(p) /\ ~Queued(j)
  <2>1. e \in Seq(Jobs \X Processors)
    BY <1>0 DEF TypeInv
  <2>2. Head(e) = e[1] /\ e[1] \in Jobs \X Processors /\ 1 \in DOMAIN e
    <3> HIDE DEF e
    <3>1. Head(e) = e[1] /\ Len(e) >= 1 /\ Len(e) \in Nat
      BY <1>1, <2>1, TailFacts
    <3> QED
      BY <2>1, <3>1, LenProperties, ElementOfSeq
  <2>3. e[1][1] \in UnderWay(e[1][2]) /\ ~Queued(e[1][1])
    BY <1>2, <2>2 DEF InFanOut
  <2> QED
    BY <2>2, <2>3
<1>4. Head(e)[1] = j
  OBVIOUS
<1> HIDE DEF j, p
<1>5. /\ queuedJobs \in [Processors -> Seq(Jobs)]
      /\ myState \in [Processors -> {"INITIALIZING", "PROCESSING", "DISCARDING"}]
  BY <1>0 DEF TypeInv
<1>6. Ledger'
  BY <1>0, <1>1, LedgerSame
<1>7. \A q : UnderWay(q)' = UnderWay(q)
  BY <1>1 DEF UnderWay, Arrived
<1>8. CASE Serve(p, j)
  <2> DEFINE s == queuedJobs[p]
  <2>1. PICK i \in 1 .. Len(s) + 1 : queuedJobs' = [queuedJobs EXCEPT ![p] = InsertAt(s, i, j)]
    BY <1>8 DEF Serve, AddNewJob
  <2>2. myState' = myState
    BY <1>8 DEF Serve
  <2>3. s \in Seq(Jobs) /\ Len(s) \in Nat /\ DOMAIN s = 1 .. Len(s)
    BY <1>3, <1>5, LenProperties
  <2>4. queuedJobs'[p] = InsertAt(s, i, j) /\ \A q \in Processors : q # p => queuedJobs'[q] = queuedJobs[q]
    BY <1>3, <1>5, <2>1
  <2>5. /\ \A k, l \in DOMAIN s : s[k] = s[l] => k = l
        /\ \A k \in DOMAIN s : s[k] \in UnderWay(p) /\ s[k] # j
    BY <1>2, <1>3 DEF InQueues, Queued
  <2> HIDE DEF s
  <2> DEFINE t == InsertAt(s, i, j)
  <2>6. t = InsertAt(s, i, j)
    OBVIOUS
  <2> HIDE DEF t
  <2>7. Inserted(t, Jobs, s, i, j)
    BY <1>3, <2>3, <2>6, InsertAtFacts, Zenon
  <2>8. /\ t \in Seq(Jobs) /\ DOMAIN t = 1 .. Len(s) + 1
        /\ \A k \in 1 .. Len(s) + 1 : t[k] = IF k < i THEN s[k] ELSE IF k = i THEN j ELSE s[k - 1]
    BY <2>7, LenProperties DEF Inserted
  <2>9. queuedJobs' \in [Processors -> Seq(Jobs)]
    BY <1>5, <2>1, <2>8 DEF t
  <2>10. ASSUME NEW k \in DOMAIN t
         PROVE  \/ k = i /\ t[k] = j
                \/ k # i /\ \E l \in DOMAIN s : t[k] = s[l] /\ l = IF k < i THEN k ELSE k - 1
    <3>1. CASE k < i
      BY <2>3, <2>8, <2>10, <3>1
    <3>2. CASE k = i
      BY <2>8, <2>10, <3>2
    <3>3. CASE k > i
      <4>1. k - 1 \in DOMAIN s /\ t[k] = s[k - 1]
        BY <2>3, <2>8, <2>10, <3>3
      <4> QED
        BY <3>3, <4>1
    <3> QED
      BY <2>3, <2>8, <3>1, <3>2, <3>3
  <2>11. ASSUME NEW k \in DOMAIN t, NEW l \in DOMAIN t, t[k] = t[l]
         PROVE  k = l
    <3>1. (k = i <=> t[k] = j) /\ (l = i <=> t[l] = j)
      BY <2>5, <2>10
    <3>2. CASE k = i
      BY <2>11, <3>1, <3>2
    <3>3. CASE k # i
      <4>1. l # i
        BY <2>11, <3>1, <3>3
      <4>2. PICK x \in DOMAIN s : t[k] = s[x] /\ x = IF k < i THEN k ELSE k - 1
        BY <2>10, <3>3
      <4>3. PICK y \in DOMAIN s : t[l] = s[y] /\ y = IF l < i THEN l ELSE l - 1
        BY <2>10, <4>1
      <4>4. x = y
        BY <2>5, <2>11, <4>2, <4>3
      <4> QED
        BY <2>3, <2>8, <3>3, <4>1, <4>2, <4>3, <4>4
    <3> QED
      BY <3>2, <3>3
  <2>12. InQueues'
    <3>1. ASSUME NEW q \in Processors, NEW k \in DOMAIN queuedJobs'[q]
          PROVE  /\ queuedJobs'[q][k] \in UnderWay(q)'
                 /\ \A l \in DOMAIN queuedJobs'[q] : queuedJobs'[q][l] = queuedJobs'[q][k] => l = k
      <4>1. CASE q = p
        <5>1. queuedJobs'[q] = t
          BY <2>4, <4>1 DEF t
        <5>2. t[k] \in UnderWay(p)
          BY <1>3, <2>5, <2>10, <3>1, <5>1
        <5> QED
          BY <1>7, <2>11, <3>1, <4>1, <5>1, <5>2
      <4>2. CASE q # p
        BY <1>2, <1>7, <2>4, <3>1, <4>2 DEF InQueues
      <4> QED
        BY <4>1, <4>2
    <3> QED
      BY <3>1 DEF InQueues
  <2>13. \A x : Queued(x)' => Queued(x) \/ x = j
    <3>1. ASSUME NEW x, NEW q \in Processors, NEW k \in DOMAIN queuedJobs'[q], queuedJobs'[q][k] = x,
                 x # j
          PROVE  Queued(x)
      <4>1. CASE q = p
        <5>1. queuedJobs'[q] = t
          BY <2>4, <4>1 DEF t
        <5>2. \E l \in DOMAIN s : x = s[l]
          BY <2>10, <3>1, <5>1
        <5> QED
          BY <1>3, <5>2 DEF Queued, s
      <4>2. CASE q # p
        BY <2>4, <3>1, <4>2 DEF Queued
      <4> QED
        BY <4>1, <4>2
    <3> QED
      BY <3>1 DEF Queued
  <2>14. OnePlace' /\ e' \in Seq(Jobs \X Processors)
    BY <1>0, <1>1, <1>4, <2>12, <2>13, ForwardPlaces DEF e
  <2>15. TypeInv'
    BY <1>0, <1>1, <2>2, <2>9, <2>14 DEF TypeInv, Arrived, e
  <2>16. PublishedOnce'
    BY <1>0, <1>1, <2>2 DEF PublishedOnce
  <2> QED
    BY <1>6, <2>14, <2>15, <2>16 DEF DispatcherInv
<1>9. CASE Discard(p, j)
  <2>1. queuedJobs' = queuedJobs /\ myState' = [myState EXCEPT ![p] = "DISCARDING"]
    BY <1>9 DEF Discard
  <2>2. /\ myState' \in [Processors -> {"INITIALIZING", "PROCESSING", "DISCARDING"}]
        /\ \A q \in Processors : myState'[q] = "INITIALIZING" => myState[q] = "INITIALIZING"
    BY <1>5, <2>1
  <2>3. InQueues' /\ \A x : Queued(x)' => Queued(x) \/ x = j
    BY <1>2, <1>7, <2>1 DEF InQueues, Queued
  <2>4. OnePlace' /\ e' \in Seq(Jobs \X Processors)
    BY <1>0, <1>1, <1>4, <2>3, ForwardPlaces DEF e
  <2>5. TypeInv'
    BY <1>0, <1>1, <2>1, <2>2, <2>4 DEF TypeInv, Arrived, e
  <2>6. PublishedOnce'
    BY <1>0, <1>1, <2>2 DEF PublishedOnce
  <2> QED
    BY <1>6, <2>4, <2>5, <2>6 DEF DispatcherInv
<1> QED
  BY <1>1, <1>8, <1>9

-----------------------------------------------------------------------------
LEMMA StepInv ==
  ASSUME DispatcherInv, [Next]_vars
  PROVE  DispatcherInv'
<1>1. CASE Generate
  <2>1. PICK j \in NextJobs : NewJob(j) \/ NewJobFails
    BY <1>1 DEF Generate
  <2>2. j \in Jobs \ Arrived
    BY DEF NextJobs
  <2> QED
    BY <2>1, <2>2, NewJobInv, StutterInv
<1>2. CASE Internal
  BY <1>2, DispatchInv, ForwardInv, PublishInv, FinishInv, DiscardsInv DEF Internal
<1>3. CASE TimePasses \/ UNCHANGED vars
  BY <1>3, StutterInv
<1> QED
  BY <1>1, <1>2, <1>3 DEF Next

(* The invariant that the theorems below rest on: types, one place for     *)
(* each job, capacities published once, and the ledger of the strategy.    *)
THEOREM DispatcherInvHolds == Spec => []DispatcherInv
<1>1. Init => DispatcherInv
  BY InitInv
<1>2. DispatcherInv /\ [Next]_vars => DispatcherInv'
  BY StepInv
<1> QED
  BY <1>1, <1>2, PTL DEF Spec

(* AccountsExact: whatever the numbers of processors and jobs, the         *)
(* capacities and the strategy, what the strategy believes to be idle at a *)
(* processor is its published capacity less the jobs sent there on account *)
(* and not reported, and one place more for each job that it took in       *)
(* without account and has finished.                                       *)
THEOREM DispatcherAccounts == Spec => []AccountsExact
<1>1. DispatcherInv => AccountsExact
  BY DEF DispatcherInv, Ledger
<1> QED
  BY <1>1, DispatcherInvHolds, PTL

(* With equal capacities, and before a job that was taken in without       *)
(* account has finished, the processor with the fewest jobs has the most   *)
(* idle places.                                                            *)
LEMMA EqualNeverFails ==
  ASSUME DispatcherInv, strategy = "JOIN_SHORTEST_QUEUE", Guests = {},
         \A p, q \in Processors : maxCapacity[p] = maxCapacity[q],
         ~NobodyIdle
  PROVE  ~(Available(Head(processors)) <= 0)
<1>0. TypeInv /\ UsesLoad /\ LoadsExact /\ TotalExact /\ AccountsExact
  BY DEF DispatcherInv, Ledger, UsesLoad
<1>1. totalIdleProcessors > 0
  BY <1>0 DEF NobodyIdle, IdleProcessors, TypeInv
<1>2. PICK p \in Processors : Account(p) > 0
  BY <1>0, <1>1, AccountNat, SomebodyIdle
<1>3. PICK r \in Records(processors) : r.id = p
  BY <1>0, <1>2, NoRecord
<1>4. processors \in Seq(Load) /\ Sorted(processors)
  BY <1>0 DEF LoadsExact, Table
<1>5. Len(processors) \in Nat /\ DOMAIN processors = 1 .. Len(processors)
  BY <1>4, LenProperties
<1>6. PICK k \in 1 .. Len(processors) : r = processors[k]
  BY <1>3, <1>5 DEF Records
<1>7. Head(processors) = processors[1] /\ 1 \in DOMAIN processors
  BY <1>4, <1>5, <1>6, EmptySeq, TailFacts
<1> DEFINE h == processors[1]
<1>8. h \in Records(processors)
  BY <1>7 DEF Records
<1> HIDE DEF h
<1>9. ASSUME NEW x \in Records(processors)
      PROVE  /\ x \in Load /\ x.id \in Processors /\ Account(x.id) = Available(x)
             /\ x.currentJobs = IF maxCapacity[x.id] = 0 THEN 0 ELSE Cardinality(OnAccount(x.id)) - 1
             /\ Account(x.id) + Cardinality(OnAccount(x.id)) = maxCapacity[x.id]
             /\ Account(x.id) \in Nat /\ Cardinality(OnAccount(x.id)) \in Nat
             /\ maxCapacity[x.id] \in Nat
  <2>1. /\ x \in Load /\ x.id \in Processors /\ Account(x.id) = Available(x)
        /\ Available(x) \in Nat
    BY <1>0, RecordAccount
  <2>2. x.id \in published
        /\ x.currentJobs = IF maxCapacity[x.id] = 0 THEN 0 ELSE Cardinality(OnAccount(x.id)) - 1
    BY <1>0 DEF LoadsExact
  <2>3. Exact(x.id) /\ GuestsOf(x.id) = {}
    BY <1>0, <2>1, ExactIs DEF UsesLoad, GuestsOf
  <2>4. Cardinality(OnAccount(x.id)) \in Nat /\ maxCapacity[x.id] \in Nat
    BY <1>0, <2>1, CountsNat DEF TypeInv
  <2>5. Cardinality(GuestsOf(x.id)) = 0
    BY <2>3, FS_EmptySet
  <2>6. Account(x.id) + Cardinality(OnAccount(x.id)) = maxCapacity[x.id]
    BY <2>2, <2>3, <2>4, <2>5 DEF Exact
  <2> QED
    BY <2>1, <2>2, <2>4, <2>6
<1>10. h.currentJobs <= r.currentJobs
  <2>1. CASE k = 1
    BY <1>3, <1>6, <1>9, <2>1 DEF h, Load
  <2>2. CASE k # 1
    BY <1>4, <1>5, <1>6, <1>7, <2>2 DEF Sorted, h
  <2> QED
    BY <2>1, <2>2
<1>11. maxCapacity[h.id] = maxCapacity[r.id]
  BY <1>3, <1>8, <1>9
<1>12. Account(h.id) > 0
  <2>1. /\ Account(r.id) > 0 /\ Account(r.id) \in Nat
        /\ Account(r.id) + Cardinality(OnAccount(r.id)) = maxCapacity[r.id]
        /\ Cardinality(OnAccount(r.id)) \in Nat /\ maxCapacity[r.id] \in Nat
    BY <1>2, <1>3, <1>9
  <2>2. maxCapacity[r.id] # 0
    BY <2>1
  <2>3. /\ r.currentJobs = Cardinality(OnAccount(r.id)) - 1
        /\ h.currentJobs = Cardinality(OnAccount(h.id)) - 1
    BY <1>3, <1>8, <1>9, <1>11, <2>2
  <2>4. /\ Account(h.id) \in Nat /\ Cardinality(OnAccount(h.id)) \in Nat
        /\ Account(h.id) + Cardinality(OnAccount(h.id)) = maxCapacity[r.id]
    BY <1>8, <1>9, <1>11
  <2> QED
    BY <1>10, <2>1, <2>3, <2>4
<1> QED
  BY <1>7, <1>8, <1>9, <1>12 DEF h

(* FailsOnlyUnequal: the program is ended by a choice only if RANDOM has   *)
(* heard of no processor, or JSQ with different capacities or after a job  *)
(* that was taken in without account has finished.                         *)
THEOREM DispatcherFails == Spec => []FailsOnlyUnequal
<1>1. Init => FailsOnlyUnequal
  BY DEF Init, FailsOnlyUnequal
<1>2. ASSUME DispatcherInv, FailsOnlyUnequal, [Next]_vars
      PROVE  FailsOnlyUnequal'
  <2>1. CASE UNCHANGED vars
    BY <1>2, <2>1 DEF FailsOnlyUnequal, vars, strategyVars, serverVars, histVars
  <2>2. CASE ~failed /\ Generate /\ ~(\E j \in NextJobs : NewJob(j))
    <3>1. NewJobFails
      BY <2>2 DEF Generate
    <3>2. /\ strategy' = strategy /\ idleProcessorIds' = idleProcessorIds
          /\ maxCapacity' = maxCapacity /\ unpaid' = unpaid /\ finished' = finished
          /\ ChoiceFails
      BY <3>1 DEF NewJobFails, strategyVars, serverVars, histVars
    <3>3. CASE strategy = "RANDOM" /\ idleProcessorIds = <<>>
      BY <3>2, <3>3 DEF FailsOnlyUnequal
    <3>4. CASE strategy = "JOIN_SHORTEST_QUEUE" /\ ~NobodyIdle /\ Available(Head(processors)) <= 0
      <4>1. Guests # {} \/ \E p, q \in Processors : maxCapacity[p] # maxCapacity[q]
        <5>1. SUFFICES ASSUME Guests = {}, \A p, q \in Processors : maxCapacity[p] = maxCapacity[q]
                       PROVE  FALSE
          OBVIOUS
        <5> QED
          BY <1>2, <3>4, <5>1, EqualNeverFails
      <4> QED
        BY <3>2, <3>4, <4>1 DEF FailsOnlyUnequal, Guests
    <3> QED
      BY <3>2, <3>3, <3>4 DEF ChoiceFails
  <2>3. CASE ~failed /\ ~UNCHANGED vars /\ (Generate => \E j \in NextJobs : NewJob(j))
    <3>1. failed' = failed
      BY <1>2, <2>3 DEF Next, Generate, Internal, NewJob, Dispatch, ForwardEvent, TimePasses,
                        ProcessorPublishes, ProcessorFinishes, ProcessorDiscards
    <3> QED
      BY <2>3, <3>1 DEF FailsOnlyUnequal
  <2> QED
    BY <1>2, <2>1, <2>2, <2>3 DEF Next
<1> QED
  BY <1>1, <1>2, DispatcherInvHolds, PTL DEF Spec

(* ShortestQueue: until a job that was taken in without account has        *)
(* finished, JSQ sends a job to a processor that has, of those that have   *)
(* published, the fewest jobs on account.                                  *)
THEOREM DispatcherShortest == Spec => ShortestQueue
<1>1. ASSUME DispatcherInv, [Next]_vars, NEW j \in Arrived' \ Arrived,
             strategy = "JOIN_SHORTEST_QUEUE", j \notin unpaid', unpaid \intersect finished = {},
             NEW q \in published, maxCapacity[q] > 0
      PROVE  Cardinality(OnAccount(assigned'[j])) <= Cardinality(OnAccount(q))
  <2>0. /\ TypeInv /\ UsesLoad /\ LoadsExact /\ TotalExact /\ AccountsExact /\ Guests = {}
        /\ q \in Processors
    BY <1>1 DEF DispatcherInv, Ledger, UsesLoad, Guests, TypeInv
  <2>1. \E i \in NextJobs : NewJob(i)
    <3>1. assigned' # assigned
      BY <1>1 DEF Arrived
    <3> QED
      BY <1>1, <3>1 DEF Next, Generate, Internal, Dispatch, ForwardEvent, TimePasses, NewJobFails,
                        ProcessorPublishes, ProcessorFinishes, ProcessorDiscards, vars, histVars
  <2>2. PICK i \in NextJobs : NewJob(i)
    BY <2>1
  <2>3. ASSUME NEW p, Assign(i, p)
        PROVE  i = j /\ assigned'[j] = p
    <3>1. assigned' = [x \in Arrived \union {i} |-> IF x = i THEN p ELSE assigned[x]]
      BY <2>3 DEF Assign
    <3>2. Arrived' = Arrived \union {i}
      BY <3>1 DEF Arrived
    <3> QED
      BY <1>1, <3>1, <3>2
  <2>4. ~ChoiceFails /\ ~NobodyIdle /\ \E p \in Processors : SetProcessorBusy(p) /\ Assign(i, p)
    BY <1>1, <2>2, <2>3 DEF NewJob
  <2>5. PICK p \in Processors : SetProcessorBusy(p) /\ Assign(i, p)
    BY <2>4
  <2>6. Possible
    BY <2>0, <2>4, ChoicePossible
  <2>7. PICK old \in Records(processors) :
          /\ old.id = p /\ Available(old) > 0
          /\ \A r \in Records(processors) : old.currentJobs <= r.currentJobs
    BY <1>1, <2>0, <2>5, <2>6, SetBusyTable DEF LoadsExact, Possible
  <2>8. PICK r \in Records(processors) : r.id = q
    BY <2>0 DEF LoadsExact
  <2>9. /\ p \in published
        /\ old.currentJobs = IF maxCapacity[p] = 0 THEN 0 ELSE Cardinality(OnAccount(p)) - 1
        /\ r.currentJobs = IF maxCapacity[q] = 0 THEN 0 ELSE Cardinality(OnAccount(q)) - 1
    BY <2>0, <2>7, <2>8 DEF LoadsExact
  <2>10. /\ Cardinality(OnAccount(p)) \in Nat /\ Cardinality(OnAccount(q)) \in Nat
         /\ maxCapacity[p] \in Nat /\ maxCapacity[q] \in Nat
    BY <2>0, CountsNat DEF TypeInv
  <2>11. maxCapacity[p] # 0
    <3>1. Account(p) > 0 /\ Account(p) \in Nat
      BY <2>0, <2>7, RecordAccount
    <3>2. Exact(p) /\ GuestsOf(p) = {}
      BY <2>0, <2>5, ExactIs DEF UsesLoad, GuestsOf
    <3> QED
      BY <2>9, <2>10, <3>1, <3>2, FS_EmptySet DEF Exact
  <2>12. Cardinality(OnAccount(p)) - 1 <= Cardinality(OnAccount(q)) - 1
    BY <1>1, <2>7, <2>9, <2>10, <2>11
  <2> QED
    BY <2>3, <2>5, <2>10, <2>12
<1>2. DispatcherInv /\ [Next]_vars =>
        [\A j \in Arrived' \ Arrived :
           (strategy = "JOIN_SHORTEST_QUEUE" /\ j \notin unpaid' /\ unpaid \intersect finished = {}) =>
             \A q \in {p \in published : maxCapacity[p] > 0} :
               Cardinality(OnAccount(assigned'[j])) <= Cardinality(OnAccount(q))]_vars
  BY <1>1
<1> QED
  BY <1>2, DispatcherInvHolds, PTL DEF Spec, ShortestQueue

=============================================================================
