--------------------------- MODULE NetThreads_proofs ---------------------------
(***************************************************************************)
(* Proofs about NetThreads for any requests, ports and messages, and any   *)
(* interleaving of the threads: as long as no thread registers late, that  *)
(* is, each one has stored its socket before the next one is started and   *)
(* before cleanNet, every socket is closed and every thread has ended when *)
(* a simulation is over (AllReleased), no entry of threads is used that    *)
(* was never written, none past the tables unless the simulation asks for  *)
(* more ports than they have entries (TablesHold), and what is heard of a  *)
(* port is in the order in which it was sent (InOrder).                    *)
(***************************************************************************)
EXTENDS NetThreads, FiniteSetTheorems, SequenceTheorems, WellFoundedInduction, TLAPS

-----------------------------------------------------------------------------
(* Natural numbers. *)

(* Every non-empty set of natural numbers has a least element. *)
LEMMA LeastNatural ==
  ASSUME NEW T \in SUBSET Nat, T # {}
  PROVE  \E x \in T : \A y \in T : x <= y
<1>1. PICK x \in T : \A y \in T : ~(<<y, x>> \in OpToRel(<, Nat))
  BY WFMin, NatLessThanWellFounded, Zenon
<1>2. \A y \in T : y < x => <<y, x>> \in OpToRel(<, Nat)
  BY DEF OpToRel
<1>3. \A y \in T : ~(y < x)
  BY <1>1, <1>2, Zenon
<1> QED
  BY <1>3

(* Induction: a set that holds 0 and the successor of each of its natural  *)
(* numbers holds them all.                                                 *)
LEMMA InductiveSet ==
  ASSUME NEW T, 0 \in T, \A n \in Nat : n \in T => n + 1 \in T
  PROVE  Nat \subseteq T
<1> SUFFICES ASSUME Nat \ T # {}
             PROVE  FALSE
  OBVIOUS
<1>1. PICK x \in Nat \ T : \A y \in Nat \ T : x <= y
  BY LeastNatural
<1> QED
  BY <1>1

(* Recursion: a start and a step define a function on the natural numbers. *)
Recurs(f, S, start, G) ==
  f \in [Nat -> S] /\ f[0] = start /\ \A n \in Nat : f[n + 1] = G[n][f[n]]

LEMMA NatRecursion ==
  ASSUME NEW S, NEW start \in S, NEW G \in [Nat -> [S -> S]]
  PROVE  \E f : Recurs(f, S, start, G)
<1> DEFINE UpTo(n, f) == /\ f \in [0 .. n -> S] /\ f[0] = start
                         /\ \A i \in 0 .. n : i # n => f[i + 1] = G[i][f[i]]
<1>1. \A n \in Nat : \E f : UpTo(n, f)
  <2> DEFINE T == {n \in Nat : \E f : UpTo(n, f)}
  <2>1. 0 \in T
    <3>1. UpTo(0, [i \in 0 .. 0 |-> start])
      OBVIOUS
    <3> QED
      BY <3>1
  <2>2. ASSUME NEW n \in Nat, n \in T
        PROVE  n + 1 \in T
    <3>1. PICK f : UpTo(n, f)
      BY <2>2
    <3> DEFINE v == G[n][f[n]]
               g == [i \in 0 .. n + 1 |-> IF i = n + 1 THEN v ELSE f[i]]
    <3>2. f[n] \in S
      BY <3>1
    <3>3. v \in S
      BY <3>2
    <3> HIDE DEF v
    <3>4. g \in [0 .. n + 1 -> S] /\ g[0] = start
      BY <3>1, <3>3
    <3>5. ASSUME NEW i \in 0 .. n + 1, i # n + 1
          PROVE  g[i + 1] = G[i][g[i]]
      <4>1. i \in 0 .. n /\ g[i] = f[i]
        BY <3>5
      <4>2. CASE i = n
        BY <4>1, <4>2 DEF v
      <4>3. CASE i # n
        <5>1. f[i + 1] = G[i][f[i]] /\ i + 1 \in 0 .. n
          BY <3>1, <4>1, <4>3
        <5>2. g[i + 1] = f[i + 1]
          BY <5>1
        <5> QED
          BY <4>1, <5>1, <5>2
      <4> QED
        BY <4>2, <4>3
    <3>6. UpTo(n + 1, g)
      BY <3>4, <3>5
    <3> HIDE DEF g, UpTo
    <3> QED
      BY <3>6
  <2>3. Nat \subseteq T
    <3> HIDE DEF T
    <3> QED
      BY <2>1, <2>2, InductiveSet
  <2> QED
    BY <2>3
<1>2. ASSUME NEW m \in Nat, NEW n \in Nat, m <= n,
             NEW f, NEW g, UpTo(m, f), UpTo(n, g)
      PROVE  f[m] = g[m]
  <2> DEFINE T == {i \in Nat : i <= m => f[i] = g[i]}
  <2>1. 0 \in T
    BY <1>2
  <2>2. ASSUME NEW i \in Nat, i \in T
        PROVE  i + 1 \in T
    <3> SUFFICES ASSUME i + 1 <= m
                 PROVE  f[i + 1] = g[i + 1]
      OBVIOUS
    <3>1. f[i] = g[i] /\ i \in 0 .. m /\ i # m /\ i \in 0 .. n /\ i # n
      BY <1>2, <2>2
    <3> QED
      BY <3>1, <1>2
  <2>3. Nat \subseteq T
    <3> HIDE DEF T
    <3> QED
      BY <2>1, <2>2, InductiveSet
  <2> QED
    BY <2>3
<1> DEFINE Ch(n) == CHOOSE f : UpTo(n, f)
           F     == [n \in Nat |-> Ch(n)[n]]
<1>3. \A n \in Nat : UpTo(n, Ch(n))
  BY <1>1, Zenon
<1> HIDE DEF Ch
<1>4. F \in [Nat -> S]
  BY <1>3
<1>5. F[0] = start
  BY <1>3
<1>6. ASSUME NEW n \in Nat
      PROVE  F[n + 1] = G[n][F[n]]
  <2>1. UpTo(n, Ch(n)) /\ UpTo(n + 1, Ch(n + 1)) /\ n <= n + 1 /\ n + 1 \in Nat
    <3> HIDE DEF UpTo
    <3> QED
      BY <1>3
  <2>2. Ch(n)[n] = Ch(n + 1)[n]
    <3> HIDE DEF UpTo
    <3> QED
      BY <2>1, <1>2
  <2>3. Ch(n + 1)[n + 1] = G[n][Ch(n + 1)[n]]
    BY <2>1
  <2> QED
    BY <2>1, <2>2, <2>3
<1> HIDE DEF F
<1>7. Recurs(F, S, start, G)
  BY <1>4, <1>5, <1>6 DEF Recurs
<1> QED
  BY <1>7

-----------------------------------------------------------------------------
Atoms    == UNION {{r.atomic : r \in Range(Requests[s])} : s \in Sessions}
Listener == [atomic : Atoms, type : Types]
Message  == [id : Nat, port : Ports, type : Types, session : Sessions]
States   == {"none", "start", "write", "store", "receive", "send", "killed", "dead"}

TypeOK ==
  /\ main \in {"init", "run", "look", "kill", "join", "over"} /\ k \in Nat /\ session \in Sessions
  /\ main = "init" => k >= 1
  /\ isNetInitialized \in BOOLEAN /\ netQueue \in Seq(Message)
  /\ listeners \in [Ports -> Seq(Listener)]
  /\ qtyThreads \in Nat /\ threads \in [Slots -> Nat] /\ threadSocket \in [Slots -> Nat]
  /\ created \in Nat /\ tstate \in [Threads -> States]
  /\ tport \in [Threads -> Ports \cup {None}] /\ slot \in [Threads -> Nat]
  /\ open \subseteq Threads /\ bound \subseteq Threads
  /\ buffer \in [Threads -> Seq(Message)] /\ socketBuffer \in [Threads -> Seq(Message)]
  /\ nextMessage \in Nat
  /\ heard \in Seq(Message \X Atoms)
  /\ raced \in BOOLEAN /\ crashed \in BOOLEAN /\ overrun \in BOOLEAN
  /\ \A t \in Threads : t \in bound \/ tstate[t] \in Registering \cup Running => tport[t] \in Ports
  /\ \A t \in Threads : tstate[t] = "send" => Len(buffer[t]) = 1

(* The ports that have got a thread so far, in each simulation, and the    *)
(* threads that have written qtyThreads or been killed: they bound the     *)
(* threads that are created and the indices that are used, so that nothing *)
(* past the tables is used before more threads have been created than they *)
(* have entries.                                                           *)
Begun   == {x \in Started :
              \/ x[1] < session
              \/ x[1] = session /\ (main = "init" => listeners[x[2]] # <<>>)}
Counted == {t \in Threads : tstate[t] \notin {"none", "start", "write"}}

InBounds ==
  /\ created <= Cardinality(Begun)
  /\ \A t \in Threads : t > created => tstate[t] = "none"
  /\ \A i \in Slots : threads[i] <= created
  /\ qtyThreads <= Cardinality(Counted)
  /\ \A t \in Threads : slot[t] <= Cardinality(Counted)
  /\ \A t \in Threads : tstate[t] = "store" => slot[t] < Cardinality(Counted)
  /\ overrun => created > MaxThreads

(* There are as many threads as ports and simulations, and as many of      *)
(* these as the requests name.                                             *)
LEMMA StartedFinite ==
  IsFiniteSet(Started) /\ Cardinality(Started) \in Nat
<1>1. \A s \in Sessions : IsFiniteSet(PortsOf(s))
  <2> SUFFICES ASSUME NEW s \in Sessions
               PROVE  IsFiniteSet(PortsOf(s))
    OBVIOUS
  <2>1. DOMAIN Requests[s] = 1 .. Len(Requests[s]) /\ Len(Requests[s]) \in Nat
    BY NetAssumption DEF Sessions
  <2>2. IsFiniteSet(1 .. Len(Requests[s]))
    BY <2>1, FS_Interval
  <2> DEFINE f == [i \in 1 .. Len(Requests[s]) |-> Requests[s][i].port]
  <2>3. f \in Surjection(1 .. Len(Requests[s]), PortsOf(s))
    BY <2>1 DEF Surjection, PortsOf, Range
  <2> QED
    BY <2>2, <2>3, FS_Surjection
<1>2. Sessions = 1 .. Len(Requests) /\ Len(Requests) \in Nat
  BY NetAssumption DEF Sessions
<1>3. IsFiniteSet(Sessions)
  BY <1>2, FS_Interval
<1> DEFINE PS == {PortsOf(s) : s \in Sessions}
<1>4. IsFiniteSet(PS)
  <2>1. [s \in Sessions |-> PortsOf(s)] \in Surjection(Sessions, PS)
    BY DEF Surjection
  <2> QED
    BY <1>3, <2>1, FS_Surjection
<1>5. \A T \in PS : IsFiniteSet(T)
  BY <1>1
<1>6. IsFiniteSet(Ports)
  <2>1. IsFiniteSet(UNION PS)
    <3> HIDE DEF PS
    <3> QED
      BY <1>4, <1>5, FS_UNION
  <2> QED
    BY <2>1 DEF Ports
<1>7. IsFiniteSet(Sessions \X Ports)
  BY <1>3, <1>6, FS_Product
<1>8. Started \subseteq Sessions \X Ports
  BY DEF Started
<1>9. IsFiniteSet(Started)
  BY <1>7, <1>8, FS_Subset
<1> QED
  BY <1>9, FS_CardinalityType

LEMMA ThreadsNumbered ==
  Threads = 1 .. Cardinality(Started)
<1>1. Cardinality(1 .. Cardinality(Started)) = Cardinality(Started)
  BY StartedFinite, FS_Interval
<1> QED
  BY <1>1 DEF Threads

LEMMA SlotsInside ==
  MaxThreads \in Nat \ {0} /\ \A i \in Nat : i \in Slots <=> ~Past(i)
BY NetAssumption DEF Slots, Past

-----------------------------------------------------------------------------
(* Types. *)

LEMMA RequestType ==
  ASSUME NEW s \in Sessions, NEW i \in 1 .. Len(Requests[s])
  PROVE  /\ Requests[s][i].port \in Ports /\ <<s, Requests[s][i].port>> \in Started
         /\ [atomic |-> Requests[s][i].atomic, type |-> Requests[s][i].type] \in Listener
<1>1. i \in DOMAIN Requests[s]
  BY NetAssumption DEF Sessions
<1>2. Requests[s][i] \in Range(Requests[s])
  BY <1>1 DEF Range
<1>3. Requests[s][i].port \in PortsOf(s)
  BY <1>2 DEF PortsOf
<1>4. Requests[s][i].port \in Ports
  BY <1>3 DEF Ports
<1>5. Requests[s][i].type \in Types
  BY <1>2, NetAssumption DEF Sessions
<1>6. Requests[s][i].atomic \in Atoms
  BY <1>2 DEF Atoms
<1> QED
  BY <1>3, <1>4, <1>5, <1>6 DEF Started, Listener

(* A pass over places 1, 2, ... that appends what is at the chosen ones.   *)
Gathers(f, S, chosen, at) ==
  /\ f[0] = <<>> /\ f \in [Nat -> Seq(S)]
  /\ \A n \in Nat : f[n + 1] = IF n + 1 \in chosen THEN Append(f[n], at[n + 1]) ELSE f[n]
  /\ f = [n \in Nat |-> IF n = 0 THEN <<>>
                        ELSE IF n \in chosen THEN Append(f[n - 1], at[n])
                        ELSE f[n - 1]]

LEMMA Gathering ==
  ASSUME NEW S, NEW chosen \in SUBSET Nat, NEW at, \A n \in chosen : n > 0 => at[n] \in S
  PROVE  \E f : Gathers(f, S, chosen, at)
<1> DEFINE All == Seq(S)
           Add(n, e) == IF n + 1 \in chosen THEN Append(e, at[n + 1]) ELSE e
           G == [n \in Nat |-> [e \in All |-> Add(n, e)]]
<1>1. <<>> \in All /\ G \in [Nat -> [All -> All]]
  <2>1. \A n \in Nat, e \in All : Add(n, e) \in All
    OBVIOUS
  <2> HIDE DEF Add
  <2> QED
    BY <2>1
<1>2. PICK f : Recurs(f, All, <<>>, G)
  <2> HIDE DEF All, G
  <2> QED
    BY <1>1, NatRecursion, Zenon
<1>3. f \in [Nat -> All] /\ f[0] = <<>>
  BY <1>2, Zenon DEF Recurs
<1>4. ASSUME NEW n \in Nat
      PROVE  f[n + 1] = Add(n, f[n])
  <2>1. f[n + 1] = G[n][f[n]]
    BY <1>2, Zenon DEF Recurs
  <2>2. f[n] \in All
    <3> HIDE DEF All
    <3> QED
      BY <1>3
  <2> HIDE DEF Add, All
  <2> QED
    BY <2>1, <2>2
<1> DEFINE Body(n) == IF n = 0 THEN <<>>
                      ELSE IF n \in chosen THEN Append(f[n - 1], at[n])
                      ELSE f[n - 1]
<1>5. ASSUME NEW n \in Nat
      PROVE  f[n] = Body(n)
  <2>1. CASE n # 0
    <3>1. n - 1 \in Nat /\ (n - 1) + 1 = n
      BY <2>1
    <3>2. f[(n - 1) + 1] = Add(n - 1, f[n - 1])
      <4> HIDE DEF Add
      <4> QED
        BY <1>4, <3>1
    <3> QED
      BY <2>1, <3>1, <3>2
  <2> QED
    BY <1>3, <2>1
<1>6. f = [n \in Nat |-> Body(n)]
  <2> HIDE DEF Body, All
  <2> QED
    BY <1>3, <1>5
<1> QED
  BY <1>3, <1>4, <1>6 DEF Gathers

(* Told goes through the listeners of the port one after the other.        *)
LEMMA ToldStep ==
  ASSUME listeners \in [Ports -> Seq(Listener)], NEW m \in Message
  PROVE  \E told :
           /\ told[0] = <<>> /\ Told(m) = told[Len(listeners[m.port])]
           /\ \A n \in Nat : told[n + 1] = IF Listens(listeners[m.port][n + 1], m)
                                          THEN Append(told[n], <<m, listeners[m.port][n + 1].atomic>>)
                                          ELSE told[n]
<1> PICK asked : asked = listeners[m.port]
  OBVIOUS
<1> DEFINE told[i \in Nat] ==
             IF i = 0 THEN <<>>
             ELSE IF Listens(asked[i], m) THEN Append(told[i - 1], <<m, asked[i].atomic>>)
             ELSE told[i - 1]
           Pair(i) == <<m, asked[i].atomic>>
           at      == [i \in Nat |-> Pair(i)]
           chosen  == {i \in Nat : Listens(asked[i], m)}
<1>1. Told(m) = told[Len(asked)]
  BY DEF Told
<1>2. PICK f : f = [n \in Nat |-> IF n = 0 THEN <<>>
                                   ELSE IF n \in chosen THEN Append(f[n - 1], at[n])
                                   ELSE f[n - 1]]
  <2> DEFINE S == Range(at)
  <2>1. chosen \in SUBSET Nat /\ \A n \in chosen : n > 0 => at[n] \in S
    <3> HIDE DEF Pair
    <3> QED
      BY DEF Range
  <2> HIDE DEF chosen, at, S
  <2>2. PICK f : Gathers(f, S, chosen, at)
    BY <2>1, Gathering, Zenon
  <2> QED
    BY <2>2, Zenon DEF Gathers
<1>3. f = [i \in Nat |->
             IF i = 0 THEN <<>>
             ELSE IF Listens(asked[i], m) THEN Append(f[i - 1], <<m, asked[i].atomic>>)
             ELSE f[i - 1]]
  BY <1>2
<1>4. told = [i \in Nat |->
               IF i = 0 THEN <<>>
               ELSE IF Listens(asked[i], m) THEN Append(told[i - 1], <<m, asked[i].atomic>>)
               ELSE told[i - 1]]
  BY <1>3
<1> HIDE DEF told
<1>5. ASSUME NEW n \in Nat
      PROVE  told[n + 1] = IF Listens(asked[n + 1], m) THEN Append(told[n], <<m, asked[n + 1].atomic>>)
                           ELSE told[n]
  <2>1. n + 1 \in Nat /\ n + 1 # 0 /\ (n + 1) - 1 = n
    OBVIOUS
  <2> QED
    BY <1>4, <2>1
<1>6. told[0] = <<>>
  BY <1>4
<1> QED
  BY <1>1, <1>5, <1>6

(* What is told is told to those who asked.                                *)
LEMMA ToldType ==
  ASSUME listeners \in [Ports -> Seq(Listener)], NEW m \in Message
  PROVE  Told(m) \in Seq({m} \X Atoms)
<1> PICK asked : asked = listeners[m.port]
  OBVIOUS
<1> DEFINE Pair(i) == <<m, asked[i].atomic>>
           Add(n, e) == IF Listens(asked[n + 1], m) THEN Append(e, Pair(n + 1)) ELSE e
<1>0. PICK told : /\ told[0] = <<>> /\ Told(m) = told[Len(asked)]
                  /\ \A n \in Nat : told[n + 1] = Add(n, told[n])
  BY ToldStep
<1>1. Told(m) = told[Len(asked)]
  BY <1>0
<1>2. asked \in Seq(Listener) /\ Len(asked) \in Nat
  BY DEF Message
<1>3. told[0] = <<>> /\ \A n \in Nat : told[n + 1] = Add(n, told[n])
  BY <1>0
<1> DEFINE T == {n \in Nat : n <= Len(asked) => told[n] \in Seq({m} \X Atoms)}
<1>4. 0 \in T
  <2>1. <<>> \in Seq({m} \X Atoms)
    OBVIOUS
  <2>2. told[0] \in Seq({m} \X Atoms)
    BY <1>3, <2>1, Zenon
  <2> QED
    BY <2>2
<1>5. ASSUME NEW n \in Nat, n \in T
      PROVE  n + 1 \in T
  <2>1. CASE n + 1 <= Len(asked)
    <3>1. asked[n + 1] \in Listener
      BY <1>2, <2>1
    <3>2. asked[n + 1].atomic \in Atoms /\ told[n] \in Seq({m} \X Atoms)
      BY <1>2, <1>5, <2>1, <3>1 DEF Listener
    <3>3. told[n + 1] = Add(n, told[n])
      BY <1>3
    <3>4. Pair(n + 1) \in {m} \X Atoms
      BY <3>2
    <3>5. Add(n, told[n]) \in Seq({m} \X Atoms)
      <4> HIDE DEF Pair
      <4> QED
        BY <3>2, <3>4
    <3>6. told[n + 1] \in Seq({m} \X Atoms)
      BY <3>3, <3>5, Zenon
    <3> QED
      BY <3>6
  <2> QED
    BY <2>1, <1>2
<1>6. Len(asked) \in T
  <2>1. Nat \subseteq T
    <3> HIDE DEF T
    <3> QED
      BY <1>4, <1>5, InductiveSet
  <2> QED
    BY <2>1, <1>2
<1> QED
  BY <1>1, <1>6, <1>2

LEMMA BegunFinite ==
  IsFiniteSet(Begun) /\ Cardinality(Begun) \in Nat /\ Cardinality(Begun) <= Cardinality(Started)
<1>1. Begun \subseteq Started
  BY DEF Begun
<1> QED
  BY <1>1, StartedFinite, FS_Subset, FS_CardinalityType

(* A port that has begun stays so; one that gets its thread had not begun. *)
LEMMA BegunGrows ==
  ASSUME TypeOK, Next
  PROVE  /\ Begun \subseteq Begun'
         /\ created' # created =>
              created' = created + 1 /\ Begun' # Begun
<1>0. session' = session \/ main = "over"
  BY DEF Next, Main, RequestNET, Run, TimeLeft, Look, CleanNet, CloseAndKill, AllKilled, JoinThread,
         AllJoined, ReadPast, NextSession, Handler, OpenSocket, WriteQty, StoreSocket, Receive,
         SendToQueue, EndNet, NetworkSends, mainVars
<1>1. CASE RequestNET
  <2> PICK r : r = Requests[session][k]
    OBVIOUS
  <2> PICK q : q = [atomic |-> r.atomic, type |-> r.type]
    OBVIOUS
  <2>1. Len(Requests[session]) \in Nat
    BY NetAssumption DEF TypeOK, Sessions
  <2>2. k \in 1 .. Len(Requests[session])
    BY <1>1, <2>1 DEF RequestNET, TypeOK
  <2>3. r.port \in Ports /\ <<session, r.port>> \in Started
    BY <2>2, RequestType DEF TypeOK
  <2>4. main = "init" /\ main' = main /\ session' = session
    BY <1>1 DEF RequestNET
  <2>5. listeners' = [listeners EXCEPT ![r.port] = AddListener(@, q)]
    BY <1>1 DEF RequestNET
  <2>6. AddListener(listeners[r.port], q) # <<>>
    <3>1. listeners[r.port] \in Seq(Listener) /\ MaxListeners > 0
      BY <2>3, NetAssumption DEF TypeOK
    <3>2. CASE listeners[r.port] = <<>>
      BY <3>1, <3>2 DEF AddListener
    <3>3. CASE listeners[r.port] # <<>>
      BY <3>1, <3>3, AppendProperties DEF AddListener
    <3> QED
      BY <3>2, <3>3
  <2>7. listeners'[r.port] # <<>> /\ \A p \in Ports : listeners[p] # <<>> => listeners'[p] # <<>>
    BY <2>3, <2>5, <2>6 DEF TypeOK
  <2>8. \A x \in Started : x[1] \in Sessions /\ x[2] \in Ports
    BY DEF Started
  <2>9. Begun \subseteq Begun'
    BY <2>4, <2>7, <2>8 DEF Begun
  <2>10. CASE listeners[r.port] = <<>>
    <3>1. created' = created + 1
      BY <1>1, <2>10 DEF RequestNET, StartThread
    <3> PICK x : x = <<session, r.port>>
      OBVIOUS
    <3>2. x \in Started /\ x[1] = session /\ x[2] = r.port /\ session \in Nat
      BY <2>3, NetAssumption DEF TypeOK, Sessions
    <3>3. x \in Begun' /\ x \notin Begun
      BY <2>4, <2>7, <2>10, <3>2 DEF Begun
    <3> QED
      BY <2>9, <3>1, <3>3
  <2>11. CASE listeners[r.port] # <<>>
    BY <1>1, <2>9, <2>11 DEF RequestNET
  <2> QED
    BY <2>10, <2>11
<1>2. ASSUME ~RequestNET
      PROVE  created' = created
  BY <1>2 DEF Next, Main, RequestNET, Run, TimeLeft, Look, CleanNet, CloseAndKill, AllKilled, JoinThread,
         AllJoined, ReadPast, NextSession, Handler, OpenSocket, WriteQty, StoreSocket, Receive,
         SendToQueue, EndNet, NetworkSends, threadVars
<1>3. ASSUME ~RequestNET
      PROVE  main' = "init" => main = "over" \/ (main = "init" /\ listeners' = listeners)
  BY <1>3 DEF Next, Main, RequestNET, Run, TimeLeft, Look, CleanNet, CloseAndKill, AllKilled, JoinThread,
         AllJoined, ReadPast, NextSession, Handler, OpenSocket, WriteQty, StoreSocket, Receive,
         SendToQueue, EndNet, NetworkSends, mainVars, netVars
<1>4. main = "over" /\ session' # session => session' = session + 1
  BY DEF Next, Main, RequestNET, Run, TimeLeft, Look, CleanNet, CloseAndKill, AllKilled, JoinThread,
         AllJoined, ReadPast, NextSession, Handler, OpenSocket, WriteQty, StoreSocket, Receive,
         SendToQueue, EndNet, NetworkSends, mainVars
<1>5. main = "over" /\ session' = session => main' # "init"
  <2>1. session \in Nat
    BY NetAssumption DEF TypeOK, Sessions
  <2> QED
    BY <2>1 DEF Next, Main, RequestNET, Run, TimeLeft, Look, CleanNet, CloseAndKill, AllKilled, JoinThread,
         AllJoined, ReadPast, NextSession, Handler, OpenSocket, WriteQty, StoreSocket, Receive,
         SendToQueue, EndNet, NetworkSends, mainVars
<1>6. CASE ~RequestNET
  <2>1. \A x \in Started : x[1] \in Sessions
    BY DEF Started
  <2>2. session \in Nat /\ \A s \in Sessions : s \in Nat
    BY NetAssumption DEF TypeOK, Sessions
  <2>3. Begun \subseteq Begun'
    BY <1>0, <1>3, <1>4, <1>5, <1>6, <2>1, <2>2 DEF Begun
  <2> QED
    BY <1>2, <1>6, <2>3
<1> QED
  BY <1>1, <1>6

LEMMA CountedFinite ==
  IsFiniteSet(Threads) /\ IsFiniteSet(Counted)
  /\ Cardinality(Counted) \in Nat /\ Cardinality(Counted) <= Cardinality(Started)
<1>1. IsFiniteSet(Threads) /\ Cardinality(Threads) = Cardinality(Started)
  BY ThreadsNumbered, StartedFinite, FS_Interval
<1>2. Counted \subseteq Threads
  BY DEF Counted
<1> QED
  BY <1>1, <1>2, FS_Subset, FS_CardinalityType

(* What the bounds mean: what threads holds are threads that have been     *)
(* created.                                                                *)
LEMMA Inside ==
  ASSUME TypeOK, InBounds
  PROVE  /\ Cardinality(Started) \in Nat /\ created <= Cardinality(Started)
         /\ \A i \in Slots : threads[i] # None => threads[i] \in Threads /\ threads[i] <= created
<1>1. created <= Cardinality(Started) /\ Cardinality(Started) \in Nat
  BY BegunFinite, StartedFinite DEF TypeOK, InBounds
<1>2. \A i \in Slots : threads[i] # None => threads[i] \in Threads /\ threads[i] <= created
  BY <1>1, ThreadsNumbered DEF TypeOK, InBounds, None
<1> QED
  BY <1>1, <1>2

LEMMA MoreCounted ==
  ASSUME Counted \subseteq Counted', TypeOK, InBounds, UNCHANGED <<qtyThreads, slot>>,
         \A t \in Threads : tstate'[t] = "store" => tstate[t] = "store"
  PROVE  /\ qtyThreads' <= Cardinality(Counted') /\ \A t \in Threads : slot'[t] <= Cardinality(Counted')
         /\ \A t \in Threads : tstate'[t] = "store" => slot'[t] < Cardinality(Counted')
<1>1. Counted' \subseteq Threads
  BY DEF Counted
<1>2. Cardinality(Counted) <= Cardinality(Counted') /\ Cardinality(Counted') \in Nat
  BY <1>1, CountedFinite, FS_Subset, FS_CardinalityType
<1>3. \A n \in Nat : /\ n <= Cardinality(Counted) => n <= Cardinality(Counted')
                     /\ n < Cardinality(Counted) => n < Cardinality(Counted')
  BY <1>2, CountedFinite
<1> QED
  BY <1>3 DEF InBounds, TypeOK

(* There is room for one more thread whenever one is started.              *)
LEMMA RoomForThread ==
  ASSUME TypeOK, InBounds, Next, created' # created
  PROVE  created' = created + 1 /\ created' \in Threads /\ created' <= Cardinality(Begun')
<1>1. Begun \subseteq Begun' /\ Begun' # Begun /\ created' = created + 1
  BY BegunGrows
<1>2. Begun' \subseteq Started
  BY DEF Begun
<1>3. IsFiniteSet(Begun') /\ Cardinality(Begun') \in Nat
      /\ Cardinality(Begun') <= Cardinality(Started) /\ Cardinality(Started) \in Nat
  BY <1>2, StartedFinite, FS_Subset, FS_CardinalityType
<1>4. Cardinality(Begun) < Cardinality(Begun')
  BY <1>1, <1>3, BegunFinite, FS_Subset
<1> QED
  BY <1>1, <1>3, <1>4, BegunFinite, ThreadsNumbered DEF TypeOK, InBounds

LEMMA TypeStep ==
  ASSUME TypeOK, InBounds, [Next]_vars
  PROVE  TypeOK'
<1> USE DEF TypeOK, Registering, Running
<1>0. /\ \A i \in Nat : i \in Slots <=> ~Past(i)
      /\ \A i \in Slots : threads[i] # None => threads[i] \in Threads
  BY Inside, SlotsInside
<1>1. CASE Next /\ RequestNET
  <2> PICK r : r = Requests[session][k]
    OBVIOUS
  <2>1. k \in 1 .. Len(Requests[session])
    <3>1. Len(Requests[session]) \in Nat
      BY NetAssumption DEF Sessions
    <3> QED
      BY <1>1, <3>1 DEF RequestNET
  <2>2. r.port \in Ports /\ [atomic |-> r.atomic, type |-> r.type] \in Listener
    BY <2>1, RequestType
  <2>3. listeners' \in [Ports -> Seq(Listener)]
    <3>1. listeners' = [listeners EXCEPT ![r.port] =
                          AddListener(@, [atomic |-> r.atomic, type |-> r.type])]
      BY <1>1 DEF RequestNET
    <3> QED
      BY <2>2, <3>1 DEF AddListener
  <2>4. /\ created' \in Nat /\ threads' \in [Slots -> Nat] /\ tstate' \in [Threads -> States]
        /\ tport' \in [Threads -> Ports \cup {None}] /\ raced' \in BOOLEAN /\ overrun' \in BOOLEAN
        /\ \A t \in Threads : t \in bound \/ tstate'[t] \in Registering \cup Running => tport'[t] \in Ports
        /\ \A t \in Threads : tstate'[t] = "send" => Len(buffer[t]) = 1
    <3>1. CASE StartThread(r.port)
      <4>1. raced' \in BOOLEAN /\ overrun' \in BOOLEAN
        BY <3>1 DEF StartThread, Past
      <4>2. created' \in Nat /\ created' \in Threads
        <5>1. created' # created
          BY <3>1 DEF StartThread
        <5> QED
          BY <1>1, <5>1, RoomForThread
      <4>5. threads' \in [Slots -> Nat]
        BY <3>1, <4>2 DEF StartThread
      <4>3. tstate' \in [Threads -> States]
            /\ \A t \in Threads : tstate'[t] = "send" => tstate[t] = "send"
        BY <3>1, <4>2 DEF StartThread, States
      <4>4. /\ tport' \in [Threads -> Ports \cup {None}]
            /\ \A t \in Threads : t \in bound \/ tstate'[t] \in Registering \cup Running => tport'[t] \in Ports
        BY <3>1, <2>2, <4>2 DEF StartThread
      <4> QED
        BY <4>1, <4>2, <4>3, <4>4, <4>5
    <3>2. CASE UNCHANGED <<created, threads, tstate, tport, raced, overrun>>
      BY <3>2
    <3> QED
      BY <1>1, <3>1, <3>2 DEF RequestNET
  <2>5. netQueue' \in Seq(Message) /\ isNetInitialized' \in BOOLEAN
    BY <1>1 DEF RequestNET
  <2>6. k' \in Nat /\ k' >= 1
    BY <1>1 DEF RequestNET
  <2>7. UNCHANGED <<main, session, qtyThreads, threadSocket, slot, buffer, socketVars,
                    heard, crashed>>
    BY <1>1 DEF RequestNET
  <2> QED
    BY <2>3, <2>4, <2>5, <2>6, <2>7 DEF socketVars
<1>2. CASE Run \/ TimeLeft \/ ReadPast
  BY <1>2 DEF Run, TimeLeft, ReadPast, mainVars, netVars, shared, threadVars, socketVars
<1>3. CASE Look
  <2>0. UNCHANGED <<k, session, isNetInitialized, listeners, shared, threadVars, socketVars,
                    raced, crashed, overrun>> /\ main' = "run"
    BY <1>3 DEF Look
  <2>1. CASE isNetInitialized /\ netQueue # <<>>
    <3> PICK m : m = Head(netQueue)
      OBVIOUS
    <3>0. netQueue' = Tail(netQueue) /\ netQueue \in Seq(Message) /\ netQueue # <<>>
      BY <1>3, <2>1 DEF Look
    <3>1. m \in Message /\ netQueue' \in Seq(Message)
      <4> HIDE DEF TypeOK
      <4> QED
        BY <3>0
    <3>2. heard' \in Seq(Message \X Atoms)
      <4>1. Told(m) \in Seq({m} \X Atoms)
        BY <3>1, ToldType
      <4>2. Told(m) \in Seq(Message \X Atoms)
        <5>1. {m} \X Atoms \subseteq Message \X Atoms
          BY <3>1
        <5> QED
          BY <4>1, <5>1
      <4>3. heard' = heard \o Told(m)
        BY <1>3, <2>1 DEF Look
      <4> QED
        BY <4>2, <4>3, ConcatProperties
    <3> QED
      BY <2>0, <3>1, <3>2 DEF shared, threadVars, socketVars
  <2>2. CASE ~(isNetInitialized /\ netQueue # <<>>)
    BY <1>3, <2>0, <2>2 DEF Look, shared, threadVars, socketVars
  <2> QED
    BY <2>1, <2>2
<1>4. CASE CleanNet
  <2>1. raced' \in BOOLEAN /\ listeners' \in [Ports -> Seq(Listener)]
    BY <1>4 DEF CleanNet
  <2>2. netQueue' \in Seq(Message) /\ isNetInitialized' = FALSE /\ main' = "kill" /\ k' = 0
    BY <1>4 DEF CleanNet
  <2>3. UNCHANGED <<session, shared, threadVars, socketVars, heard, crashed, overrun>>
    BY <1>4 DEF CleanNet
  <2> QED
    BY <2>1, <2>2, <2>3 DEF shared, threadVars, socketVars
<1>5. CASE CloseAndKill
  <2>1. tstate' \in [Threads -> States] /\ crashed' \in BOOLEAN
    BY <1>5, <1>0 DEF CloseAndKill, States
  <2>2. socketBuffer' \in [Threads -> Seq(Message)]
    BY <1>5 DEF CloseAndKill
  <2>3. \A t \in Threads : tstate'[t] = tstate[t] \/ tstate'[t] \in {"dead", "killed"}
    BY <1>5, <1>0 DEF CloseAndKill
  <2>4. /\ main = "kill" /\ k' = k + 1 /\ open' \subseteq open /\ bound' \subseteq bound
        /\ UNCHANGED <<main, session, netVars, shared, created, tport, slot, buffer,
                       nextMessage, heard, raced, overrun>>
    BY <1>5 DEF CloseAndKill
  <2>5. \A t \in Threads :
          /\ t \in bound' \/ tstate'[t] \in Registering \cup Running => tport'[t] \in Ports
          /\ tstate'[t] = "send" => Len(buffer'[t]) = 1
    BY <2>3, <2>4
  <2> QED
    BY <2>1, <2>2, <2>4, <2>5 DEF netVars, shared
<1>6. CASE AllKilled
  BY <1>6 DEF AllKilled, netVars, shared, threadVars, socketVars
<1>7. CASE JoinThread
  <2>1. threads' \in [Slots -> Nat] /\ crashed' \in BOOLEAN
    <3>1. CASE threads[k] = None
      BY <1>7, <3>1 DEF JoinThread
    <3>2. CASE threads[k] # None
      <4>1. threads' = [threads EXCEPT ![k] = 0] /\ crashed' = crashed
        BY <1>7, <3>2 DEF JoinThread, None
      <4> QED
        BY <4>1
    <3> QED
      BY <3>1, <3>2
  <2> QED
    BY <1>7, <2>1 DEF JoinThread, netVars, threadVars, socketVars
<1>8. CASE AllJoined
  BY <1>8 DEF AllJoined, netVars, threadVars, socketVars
<1>9. CASE NextSession
  BY <1>9 DEF NextSession, netVars, shared, threadVars, socketVars
<1>10. ASSUME NEW t \in Threads, Handler(t)
       PROVE  TypeOK'
  <2>1. CASE OpenSocket(t)
    BY <2>1 DEF OpenSocket, Goto, States, mainVars, netVars, shared
  <2>2. CASE WriteQty(t)
    BY <2>2 DEF WriteQty, Goto, States, mainVars, netVars, socketVars
  <2>3. CASE StoreSocket(t)
    <3>1. t \in Nat
      BY ThreadsNumbered, StartedFinite
    <3>2. bound' \subseteq Threads /\ \A u \in bound' : tport[u] \in Ports /\ tport' = tport
      BY <2>3 DEF StoreSocket, Goto
    <3>3. overrun' \in BOOLEAN
      BY <2>3 DEF StoreSocket, Past
    <3> QED
      BY <2>3, <3>1, <3>2, <3>3 DEF StoreSocket, Goto, States, mainVars, netVars
  <2>4. CASE Receive(t)
    <3>1. Head(socketBuffer[t]) \in Message /\ Tail(socketBuffer[t]) \in Seq(Message)
      BY <2>4 DEF Receive
    <3> QED
      BY <2>4, <3>1 DEF Receive, Goto, States, mainVars, netVars, shared
  <2>5. CASE SendToQueue(t)
    BY <2>5 DEF SendToQueue, Goto, States, mainVars, shared, socketVars
  <2>6. CASE EndNet(t)
    BY <2>6 DEF EndNet, Goto, States, mainVars, netVars, shared, socketVars
  <2> QED
    BY <1>10, <2>1, <2>2, <2>3, <2>4, <2>5, <2>6 DEF Handler
<1>11. CASE NetworkSends
  <2>1. PICK t \in bound, y \in MessageTypes[nextMessage] :
          socketBuffer' = [socketBuffer EXCEPT ![t] = Append(@,
            [id |-> nextMessage, port |-> tport[t], type |-> y, session |-> session])]
    BY <1>11 DEF NetworkSends
  <2>2. y \in Types
    <3>1. nextMessage \in DOMAIN MessageTypes
      BY <1>11 DEF NetworkSends, Messages
    <3>2. MessageTypes \in Seq(SUBSET Types)
      BY NetAssumption
    <3>3. MessageTypes[nextMessage] \in SUBSET Types
      <4> HIDE DEF TypeOK
      <4> QED
        BY <3>1, <3>2
    <3> QED
      BY <2>1, <3>3
  <2>3. [id |-> nextMessage, port |-> tport[t], type |-> y, session |-> session] \in Message
    BY <2>1, <2>2 DEF Message
  <2>4. socketBuffer' \in [Threads -> Seq(Message)]
    BY <2>1, <2>3
  <2> QED
    BY <1>11, <2>4 DEF NetworkSends, mainVars, netVars, shared, threadVars
<1>12. CASE UNCHANGED vars
  BY <1>12 DEF vars, mainVars, netVars, shared, threadVars, socketVars
<1> QED
  BY <1>1, <1>2, <1>3, <1>4, <1>5, <1>6, <1>7, <1>8, <1>9, <1>10, <1>11, <1>12
  DEF Next, Main

LEMMA TypeInit ==
  ASSUME Init
  PROVE  TypeOK
<1> USE DEF Init
<1>6. main = "init" /\ k = 1 /\ session = 1 /\ isNetInitialized = FALSE /\ qtyThreads = 0
      /\ created = 0 /\ open = {} /\ bound = {} /\ nextMessage = 1
      /\ raced = FALSE /\ crashed = FALSE /\ overrun = FALSE
  OBVIOUS
<1>1. 1 \in Sessions
  BY NetAssumption DEF Sessions
<1>2. threads \in [Slots -> Nat] /\ threadSocket \in [Slots -> Nat]
  BY DEF None
<1>3. tstate \in [Threads -> States] /\ \A t \in Threads : tstate[t] = "none"
  BY DEF States
<1>4. netQueue \in Seq(Message) /\ listeners \in [Ports -> Seq(Listener)]
      /\ heard \in Seq(Message \X Atoms)
  OBVIOUS
<1>5. buffer \in [Threads -> Seq(Message)] /\ socketBuffer \in [Threads -> Seq(Message)]
      /\ slot \in [Threads -> Nat] /\ tport \in [Threads -> Ports \cup {None}]
  OBVIOUS
<1>7. \A t \in Threads : ~(t \in bound \/ tstate[t] \in Registering \cup Running)
                        /\ tstate[t] # "send"
  BY <1>3, <1>6 DEF Registering, Running
<1> HIDE DEF Init
<1>8. main \in {"init", "run", "look", "kill", "join", "over"} /\ k \in Nat /\ k >= 1
      /\ session \in Sessions /\ qtyThreads \in Nat /\ created \in Nat /\ nextMessage \in Nat
      /\ open \subseteq Threads /\ bound \subseteq Threads
  BY <1>1, <1>6
<1>9. isNetInitialized \in BOOLEAN /\ raced \in BOOLEAN /\ crashed \in BOOLEAN
      /\ overrun \in BOOLEAN
  BY <1>6
<1> QED
  BY <1>2, <1>3, <1>4, <1>5, <1>7, <1>8, <1>9, Zenon DEF TypeOK

(* The threads that count have been created.                               *)
LEMMA CountedCreated ==
  ASSUME TypeOK, InBounds
  PROVE  created \in Nat /\ Cardinality(Counted) <= created
<1>1. created \in Nat /\ \A t \in Counted : t \in Threads /\ t <= created
  BY ThreadsNumbered, StartedFinite, SMTT(30) DEF TypeOK, InBounds, Counted
<1>2. Counted \subseteq 1 .. created
  BY <1>1, ThreadsNumbered, StartedFinite
<1>3. IsFiniteSet(1 .. created) /\ Cardinality(1 .. created) = created
  BY <1>1, FS_Interval
<1>4. Cardinality(Counted) <= Cardinality(1 .. created)
  BY <1>2, <1>3, FS_Subset
<1> QED
  BY <1>1, <1>3, <1>4

(* An entry past the tables is used by the thread after the last entry.    *)
LEMMA OverrunMeansMany ==
  ASSUME TypeOK, TypeOK', InBounds, Next, overrun'
  PROVE  created' > MaxThreads
<1>0. ~overrun /\ MaxThreads \in Nat
  BY SlotsInside DEF Next, Going
<1>1. /\ created \in Nat /\ qtyThreads \in Nat /\ k \in Nat /\ Cardinality(Counted) \in Nat
      /\ qtyThreads <= Cardinality(Counted) /\ Cardinality(Counted) <= created
  BY CountedCreated, CountedFinite DEF TypeOK, InBounds
<1>2. CASE RequestNET
  <2>1. Past(qtyThreads) /\ created' = created + 1
    BY <1>0, <1>2 DEF RequestNET, StartThread
  <2> QED
    BY <1>0, <1>1, <2>1 DEF Past
<1>3. CASE ReadPast
  <2>1. k < qtyThreads /\ Past(k) /\ created' = created
    BY <1>3 DEF ReadPast, threadVars
  <2> QED
    BY <1>0, <1>1, <2>1 DEF Past
<1>4. ASSUME NEW t \in Threads, StoreSocket(t)
      PROVE  created' > MaxThreads
  <2>1. Past(slot[t]) /\ created' = created /\ tstate[t] = "store"
    BY <1>4 DEF StoreSocket, Goto
  <2>2. slot[t] \in Nat /\ slot[t] < Cardinality(Counted)
    BY <2>1 DEF TypeOK, InBounds
  <2> QED
    BY <1>0, <1>1, <2>1, <2>2 DEF Past
<1>5. RequestNET \/ ReadPast \/ \E t \in Threads : StoreSocket(t)
  BY <1>0 DEF Next, Main, Run, TimeLeft, Look, CleanNet, CloseAndKill, AllKilled, JoinThread,
         AllJoined, NextSession, Handler, OpenSocket, WriteQty, Receive, SendToQueue, EndNet,
         NetworkSends
<1> QED
  BY <1>2, <1>3, <1>4, <1>5

LEMMA BoundsStep ==
  ASSUME TypeOK, TypeOK', InBounds, [Next]_vars
  PROVE  InBounds'
<1>1. CASE UNCHANGED vars
  BY <1>1 DEF vars, mainVars, netVars, shared, threadVars, InBounds, Begun, Counted
<1> SUFFICES ASSUME Next
             PROVE  InBounds'
  BY <1>1
<1>0. overrun' => created' > MaxThreads
  BY OverrunMeansMany
<1>2. created' <= Cardinality(Begun') /\ created <= created'
  <2>1. CASE created' # created
    BY <2>1, RoomForThread DEF TypeOK
  <2>2. CASE created' = created
    <3>1. Begun \subseteq Begun' /\ Begun' \subseteq Started
      BY BegunGrows DEF Begun
    <3>2. IsFiniteSet(Begun')
      BY <3>1, StartedFinite, FS_Subset
    <3>3. Cardinality(Begun) <= Cardinality(Begun') /\ Cardinality(Begun') \in Nat
      BY <3>1, <3>2, FS_Subset, FS_CardinalityType
    <3> QED
      BY <2>2, <3>3, BegunFinite DEF InBounds, TypeOK
  <2> QED
    BY <2>1, <2>2
<1>3. CASE RequestNET /\ created' # created
  <2>1. PICK p : StartThread(p)
    BY <1>3 DEF RequestNET
  <2> PICK c : c = created'
    OBVIOUS
  <2>2. c = created + 1 /\ c \in Threads /\ c \in Nat
    BY <1>3, RoomForThread DEF TypeOK
  <2>3. tstate[c] = "none"
    BY <2>2 DEF TypeOK, InBounds
  <2>4. /\ tstate' = [tstate EXCEPT ![c] = "start"] /\ threads' = [threads EXCEPT ![qtyThreads] = c]
        /\ UNCHANGED <<qtyThreads, slot>>
    BY <1>3, <2>1 DEF RequestNET, StartThread
  <2>5. Counted' = Counted
    BY <2>2, <2>3, <2>4 DEF Counted, TypeOK
  <2>6. ASSUME NEW t \in Threads, t > c
        PROVE  tstate'[t] = "none"
    <3>1. t \in Nat /\ created \in Nat
      BY ThreadsNumbered, StartedFinite DEF TypeOK
    <3>2. t > created /\ t # c
      BY <2>2, <2>6, <3>1
    <3> QED
      BY <2>4, <3>2 DEF TypeOK, InBounds
  <2>7. \A i \in Slots : threads'[i] <= c
    <3> SUFFICES ASSUME NEW i \in Slots
                 PROVE  threads'[i] <= c
      OBVIOUS
    <3>1. threads[i] \in Nat /\ created \in Nat
      BY DEF TypeOK
    <3>2. threads[i] <= created
      BY DEF InBounds
    <3>3. threads'[i] = threads[i] \/ threads'[i] = c
      BY <2>4 DEF TypeOK
    <3> QED
      BY <2>2, <3>1, <3>2, <3>3
  <2>8. \A t \in Threads : tstate'[t] = "store" => tstate[t] = "store"
    BY <2>4 DEF TypeOK
  <2> QED
    BY <1>0, <1>2, <2>4, <2>5, <2>6, <2>7, <2>8 DEF InBounds
<1>4. CASE CloseAndKill
  <2> PICK u : u = threads[k]
    OBVIOUS
  <2>1. UNCHANGED <<created, qtyThreads, threads, slot>> /\ k \in Slots
    BY <1>4, SlotsInside DEF CloseAndKill, shared, TypeOK
  <2>2. tstate' = tstate \/ (u # None /\ \E x \in {"killed", "dead"} : tstate' = [tstate EXCEPT ![u] = x])
    <3>1. [tstate EXCEPT ![u] = IF @ = "dead" THEN @ ELSE "killed"]
            = [tstate EXCEPT ![u] = IF tstate[u] = "dead" THEN "dead" ELSE "killed"]
      BY DEF TypeOK
    <3> QED
      BY <1>4, <3>1 DEF CloseAndKill
  <2>3. u # None => u \in Threads /\ u <= created
    BY <2>1, Inside
  <2>4. Counted \subseteq Counted'
    BY <2>2, <2>3 DEF Counted, TypeOK
  <2>5. ASSUME NEW t \in Threads, t > created
        PROVE  tstate'[t] = "none"
    <3>1. tstate[t] = "none" /\ (u # None => t # u)
      BY <2>3, <2>5, ThreadsNumbered, StartedFinite, SMTT(30) DEF TypeOK, InBounds
    <3> QED
      BY <2>2, <2>3, <3>1 DEF TypeOK
  <2>6. \A t \in Threads : tstate'[t] = "store" => tstate[t] = "store"
    BY <2>2 DEF TypeOK
  <2> QED
    BY <1>0, <1>2, <2>1, <2>4, <2>5, <2>6, MoreCounted DEF InBounds
<1>5. CASE JoinThread
  <2>1. UNCHANGED <<created, qtyThreads, tstate, slot>>
    BY <1>5 DEF JoinThread, threadVars
  <2>2. \A i \in Slots : threads'[i] = threads[i] \/ threads'[i] = 0
    BY <1>5, <2>1 DEF JoinThread, None, TypeOK
  <2>3. Counted' = Counted /\ 0 <= created
    BY <2>1 DEF Counted, TypeOK
  <2>4. \A i \in Slots : threads'[i] <= created
    BY <2>2, <2>3 DEF InBounds
  <2> QED
    BY <1>0, <1>2, <2>1, <2>3, <2>4 DEF InBounds
<1>6. CASE AllJoined
  <2>1. UNCHANGED <<created, threads, tstate, slot>> /\ qtyThreads' = 0
    BY <1>6 DEF AllJoined, threadVars
  <2>2. Counted' = Counted
    BY <2>1 DEF Counted
  <2> QED
    BY <1>0, <1>2, <2>1, <2>2, CountedFinite DEF InBounds
<1>7. ASSUME NEW t \in Threads, Handler(t)
      PROVE  InBounds'
  <2> DEFINE Moves(to) == tstate[t] # "none" /\ tstate' = [tstate EXCEPT ![t] = to]
  <2>1. UNCHANGED <<created, threads>>
    BY <1>7 DEF Handler, OpenSocket, WriteQty, StoreSocket, Receive, SendToQueue, EndNet, shared
  <2>2. tstate[t] # "none" => t <= created
    BY ThreadsNumbered, StartedFinite DEF InBounds, TypeOK
  <2>3. CASE OpenSocket(t)
    <3>1. Moves("write") /\ tstate[t] = "start" /\ slot' = [slot EXCEPT ![t] = qtyThreads]
          /\ qtyThreads' = qtyThreads
      BY <2>3 DEF OpenSocket, Goto, shared
    <3>2. Counted' = Counted /\ \A u \in Threads : u > created => tstate'[u] = "none"
      BY <3>1, <2>2 DEF Counted, TypeOK, InBounds
    <3>3. ASSUME NEW u \in Threads
          PROVE  /\ slot'[u] <= Cardinality(Counted)
                 /\ tstate'[u] = "store" => slot'[u] < Cardinality(Counted)
      BY <3>1 DEF InBounds, TypeOK
    <3> QED
      BY <1>0, <1>2, <2>1, <3>1, <3>2, <3>3 DEF InBounds
  <2>4. CASE WriteQty(t)
    <3>1. Moves("store") /\ tstate[t] = "write" /\ qtyThreads' = slot[t] + 1 /\ slot' = slot
      BY <2>4 DEF WriteQty, Goto
    <3>0. /\ tstate'[t] = "store" /\ t <= created /\ t \in Threads /\ created \in Nat
          /\ \A u \in Threads : u # t => tstate'[u] = tstate[u]
      BY <3>1, <2>2 DEF TypeOK
    <3>8. \A u \in Threads : u > created => tstate'[u] = "none"
      <4>0. t \in Nat
        BY ThreadsNumbered, StartedFinite
      <4>1. \A u \in Threads : u > created => u # t
        BY <3>0, <4>0
      <4> QED
        BY <3>0, <4>1 DEF InBounds
    <3>9. Counted' = Counted \cup {t} /\ t \notin Counted
      BY <3>0, <3>1 DEF Counted
    <3>2. Counted' = Counted \cup {t} /\ t \notin Counted
          /\ \A u \in Threads : u > created => tstate'[u] = "none"
      BY <3>8, <3>9
    <3>3. Cardinality(Counted') = Cardinality(Counted) + 1
      BY <3>2, CountedFinite, FS_AddElement
    <3>4. \A n \in Nat : n <= Cardinality(Counted) => n <= Cardinality(Counted')
      BY <3>3, CountedFinite
    <3>5. \A u \in Threads : slot'[u] <= Cardinality(Counted')
      BY <3>1, <3>4 DEF InBounds, TypeOK
    <3>6. qtyThreads' <= Cardinality(Counted')
      <4>1. slot[t] \in Nat /\ slot[t] <= Cardinality(Counted)
        BY DEF InBounds, TypeOK
      <4> QED
        BY <3>1, <3>3, <4>1, CountedFinite
    <3>7. ASSUME NEW u \in Threads, tstate'[u] = "store"
          PROVE  slot'[u] < Cardinality(Counted')
      <4>1. slot[u] \in Nat /\ slot[u] <= Cardinality(Counted) /\ slot'[u] = slot[u]
        BY <3>1 DEF InBounds, TypeOK
      <4> QED
        BY <3>3, <4>1, CountedFinite
    <3> QED
      BY <1>0, <1>2, <2>1, <3>2, <3>5, <3>6, <3>7 DEF InBounds
  <2>5. CASE StoreSocket(t)
    <3>1. Moves("receive") /\ tstate[t] = "store" /\ slot' = [slot EXCEPT ![t] = 0]
          /\ qtyThreads' = qtyThreads
      BY <2>5 DEF StoreSocket, Goto
    <3>2. Counted' = Counted /\ \A u \in Threads : u > created => tstate'[u] = "none"
      BY <3>1, <2>2 DEF Counted, TypeOK, InBounds
    <3> QED
      BY <1>0, <1>2, <2>1, <3>1, <3>2, CountedFinite DEF InBounds, TypeOK
  <2>6. CASE Receive(t) \/ SendToQueue(t)
    <3>1. \E to \in {"send", "receive"} : Moves(to) /\ tstate[t] \in {"receive", "send"}
      BY <2>6 DEF Receive, SendToQueue, Goto
    <3>2. UNCHANGED <<qtyThreads, slot>>
      BY <2>6 DEF Receive, SendToQueue, shared
    <3>3. Counted' = Counted /\ \A u \in Threads : u > created => tstate'[u] = "none"
      BY <3>1, <2>2 DEF Counted, TypeOK, InBounds
    <3> QED
      BY <1>0, <1>2, <2>1, <3>1, <3>2, <3>3 DEF InBounds, TypeOK
  <2>7. CASE EndNet(t)
    <3>1. Moves("dead") /\ tstate[t] = "killed" /\ slot' = [slot EXCEPT ![t] = 0]
          /\ qtyThreads' = qtyThreads
      BY <2>7 DEF EndNet, Goto, shared
    <3>2. Counted' = Counted /\ \A u \in Threads : u > created => tstate'[u] = "none"
      BY <3>1, <2>2 DEF Counted, TypeOK, InBounds
    <3> QED
      BY <1>0, <1>2, <2>1, <3>1, <3>2, CountedFinite DEF InBounds, TypeOK
  <2> QED
    BY <1>7, <2>3, <2>4, <2>5, <2>6, <2>7 DEF Handler
<1>8. CASE UNCHANGED <<created, qtyThreads, threads, tstate, slot>>
  BY <1>0, <1>2, <1>8 DEF InBounds, Counted
<1>9. RequestNET /\ created' = created => UNCHANGED <<created, qtyThreads, threads, tstate, slot>>
  BY DEF RequestNET, StartThread, TypeOK
<1>10. Run \/ TimeLeft \/ Look \/ CleanNet \/ AllKilled \/ ReadPast \/ NextSession \/ NetworkSends
         => UNCHANGED <<created, qtyThreads, threads, tstate, slot>>
  BY DEF Run, TimeLeft, Look, CleanNet, AllKilled, ReadPast, NextSession, NetworkSends, shared, threadVars
<1> QED
  BY <1>3, <1>4, <1>5, <1>6, <1>7, <1>8, <1>9, <1>10 DEF Next, Main

LEMMA TypeInvariant ==
  Spec => [](TypeOK /\ InBounds)
<1>1. Init => TypeOK /\ InBounds
  <2> SUFFICES ASSUME Init
               PROVE  InBounds
    BY TypeInit
  <2>1. created = 0 /\ qtyThreads = 0 /\ ~overrun /\ \A t \in Threads : slot[t] = 0 /\ tstate[t] = "none"
    BY DEF Init
  <2>2. \A i \in Slots : threads[i] = 0
    BY DEF Init, None
  <2> QED
    BY <2>1, <2>2, BegunFinite, CountedFinite DEF InBounds
<1>2. TypeOK /\ InBounds /\ [Next]_vars => (TypeOK /\ InBounds)'
  BY TypeStep, BoundsStep
<1> QED
  BY <1>1, <1>2, PTL DEF Spec

-----------------------------------------------------------------------------
(* Nobody is late: lo is the number of threads that earlier simulations    *)
(* had; those of this one are in the order in which they were started, in  *)
(* threads and in threadSocket, and no more than these have entries, nor   *)
(* than ports have begun.                                                  *)
Own(lo) == {t \in Threads : lo < t /\ t <= created}
Place(lo, t) == t - lo - 1

Registered(lo) ==
  /\ qtyThreads = IF created > lo /\ tstate[created] \in {"start", "write"}
                  THEN created - lo - 1 ELSE created - lo
  /\ \A t \in Own(lo) :
       /\ tstate[t] \in Running \/ (t = created /\ tstate[t] \in Registering)
       /\ threads[Place(lo, t)] = t
       /\ tstate[t] \in {"write", "store"} => slot[t] = Place(lo, t) /\ t \in open
       /\ tstate[t] \in Running => threadSocket[Place(lo, t)] = t

Killing(lo) ==
  /\ qtyThreads = created - lo /\ k <= qtyThreads
  /\ \A t \in Own(lo) :
       /\ threads[Place(lo, t)] = t /\ threadSocket[Place(lo, t)] = t
       /\ IF Place(lo, t) < k THEN tstate[t] \in {"killed", "dead"} /\ t \notin open
                              ELSE tstate[t] \in Running

Joining(lo) ==
  /\ qtyThreads = created - lo /\ k <= qtyThreads /\ open = {}
  /\ \A t \in Own(lo) :
       IF Place(lo, t) < k THEN tstate[t] = "dead"
       ELSE tstate[t] \in {"killed", "dead"} /\ threads[Place(lo, t)] = t

Orderly(lo) ==
  /\ lo <= created /\ created - lo <= MaxThreads
  /\ \A t \in Threads : t <= lo => tstate[t] = "dead"
  /\ \A t \in Threads : t > created => tstate[t] = "none"
  /\ open \subseteq Own(lo) /\ bound \subseteq open
  /\ main \in {"init", "run", "look"} => Registered(lo)
  /\ main = "kill" => Killing(lo)
  /\ main = "join" => Joining(lo)
  /\ main = "over" => lo = created /\ qtyThreads = 0

Present == {p \in PortsOf(session) : main = "init" => listeners[p] # <<>>}
Few(lo) == created - lo <= Cardinality(Present)

Timely ==
  ~raced =>
    /\ ~crashed
    /\ overrun => main # "over" /\ Cardinality(PortsOf(session)) > MaxThreads
    /\ ~overrun => \E lo \in 0 .. created : Orderly(lo) /\ Few(lo)

LEMMA PlaceFacts ==
  ASSUME TypeOK, InBounds, NEW lo \in 0 .. created, created - lo <= MaxThreads
  PROVE  /\ created \in Nat /\ lo \in Nat /\ lo <= created /\ created <= Cardinality(Started)
         /\ Cardinality(Started) \in Nat
         /\ \A t : t \in Own(lo) <=> t \in Nat /\ lo < t /\ t <= created
         /\ \A t \in Own(lo) : /\ t \in Threads /\ Place(lo, t) \in Slots /\ t # None
                              /\ Place(lo, t) \in Nat /\ Place(lo, t) < created - lo
         /\ \A t, u \in Own(lo) : Place(lo, t) = Place(lo, u) => t = u
         /\ \A i \in Nat : i < created - lo => lo + i + 1 \in Own(lo) /\ Place(lo, lo + i + 1) = i
<1>1. created \in Nat /\ lo \in Nat /\ lo <= created
  BY DEF TypeOK
<1>2. created <= Cardinality(Started) /\ Cardinality(Started) \in Nat
  BY <1>1, BegunFinite, StartedFinite DEF InBounds
<1>3. \A t : t \in Own(lo) <=> t \in Nat /\ lo < t /\ t <= created
  BY <1>1, <1>2, ThreadsNumbered DEF Own
<1>4. Slots = 0 .. MaxThreads - 1 /\ MaxThreads \in Nat
  BY SlotsInside DEF Slots
<1> QED
  BY <1>1, <1>2, <1>3, <1>4, ThreadsNumbered DEF Place, None

Kept == TypeOK /\ InBounds /\ TypeOK' /\ InBounds'

LEMMA PlaceKnown ==
  ASSUME Kept, NEW lo \in 0 .. created, Orderly(lo)
  PROVE  /\ created \in Nat /\ lo \in Nat /\ lo <= created /\ created <= Cardinality(Started)
         /\ created - lo <= MaxThreads /\ MaxThreads \in Nat /\ Cardinality(Started) \in Nat
         /\ \A t : t \in Own(lo) <=> t \in Nat /\ lo < t /\ t <= created
         /\ \A t \in Own(lo) : /\ t \in Threads /\ Place(lo, t) \in Slots /\ t # None
                              /\ Place(lo, t) \in Nat /\ Place(lo, t) < created - lo
         /\ \A t, u \in Own(lo) : Place(lo, t) = Place(lo, u) => t = u
         /\ \A i \in Nat : i < created - lo => lo + i + 1 \in Own(lo) /\ Place(lo, lo + i + 1) = i
<1>1. created - lo <= MaxThreads
  BY DEF Orderly
<1> QED
  BY <1>1, PlaceFacts, SlotsInside DEF Kept

(* One step, by what it leaves alone: the order is kept by every step that *)
(* is not about the threads.                                               *)
OrderVars == <<main, k, qtyThreads, threads, threadSocket, created, tstate, slot, open, bound>>

LEMMA OrderUndisturbed ==
  ASSUME NEW lo, Orderly(lo), UNCHANGED OrderVars
  PROVE  Orderly(lo)'
BY DEF OrderVars, Orderly, Registered, Killing, Joining, Own, Place

LEMMA OrderlyRequestNET ==
  ASSUME Kept, NEW lo \in 0 .. created, Orderly(lo), Next, RequestNET, ~raced', ~overrun'
  PROVE  Orderly(lo)'
<1> PICK p : p = Requests[session][k].port
  OBVIOUS
<1> PICK c : c = created'
  OBVIOUS
<1>1. main = "init" /\ main' = main /\ UNCHANGED <<qtyThreads, threadSocket, slot, open, bound>>
  BY DEF RequestNET, socketVars
<1>2. CASE StartThread(p)
  <2>1. ~SomeRegistering /\ threads' = [threads EXCEPT ![qtyThreads] = c]
        /\ tstate' = [tstate EXCEPT ![c] = "start"]
    BY <1>2 DEF StartThread
  <2>2. c = created + 1 /\ c \in Threads /\ c \in Nat
    <3>1. created' # created
      BY <1>2 DEF StartThread, Kept, TypeOK
    <3> QED
      BY <3>1, RoomForThread DEF Kept, TypeOK
  <2>3. Registered(lo) /\ lo \in Nat /\ created \in Nat /\ lo <= created
    BY <1>1 DEF Orderly, Kept, TypeOK
  <2>4. \A t \in Own(lo) : tstate[t] \in Running
    BY <2>1, <2>3 DEF Registered, Own, SomeRegistering
  <2>5. qtyThreads = created - lo /\ qtyThreads \in Slots
    <3>1. created > lo => created \in Own(lo)
      BY PlaceKnown
    <3>2. qtyThreads \in Slots
      BY <1>2, SlotsInside DEF StartThread, Kept, TypeOK
    <3> QED
      BY <2>3, <2>4, <3>1, <3>2 DEF Registered, Running
  <2>6. \A t : t \in Own(lo)' <=> t \in Own(lo) \/ t = c
    BY <2>2, <2>3, ThreadsNumbered, StartedFinite DEF Own
  <2>7. \A t \in Own(lo) : t # c /\ Place(lo, t) # qtyThreads
    BY <2>2, <2>5, PlaceKnown DEF Kept
  <2>8. \A t \in Own(lo) : /\ tstate'[t] = tstate[t]
                           /\ threads'[Place(lo, t)] = threads[Place(lo, t)]
    BY <2>1, <2>2, <2>5, <2>7, PlaceKnown DEF Kept, TypeOK
  <2>9. tstate'[c] = "start" /\ threads'[Place(lo, c)] = c
    <3>1. Place(lo, c) = qtyThreads
      BY <2>2, <2>3, <2>5 DEF Place
    <3> QED
      BY <2>1, <2>2, <2>5, <3>1 DEF Kept, TypeOK
  <2>10. Registered(lo)'
    <3>2. \A t \in Own(lo) :
            /\ tstate'[t] \in Running
            /\ threads'[Place(lo, t)] = t
            /\ tstate'[t] \notin {"write", "store"}
            /\ threadSocket'[Place(lo, t)] = t
      BY <1>1, <2>3, <2>4, <2>8 DEF Registered, Running
    <3>3. qtyThreads' = IF created' > lo /\ tstate'[created'] \in {"start", "write"}
                        THEN created' - lo - 1 ELSE created' - lo
      BY <1>1, <2>2, <2>3, <2>5, <2>9
    <3> QED
      BY <2>6, <2>9, <3>2, <3>3 DEF Registered, Place, Registering, Running
  <2>11. (\A t \in Threads : t <= lo => tstate'[t] = "dead")
         /\ (\A t \in Threads : t > created' => tstate'[t] = "none")
    BY <2>1, <2>2, <2>3, ThreadsNumbered, StartedFinite, SMTT(30) DEF Orderly, Kept, TypeOK
  <2>12. open' \subseteq Own(lo)' /\ bound' \subseteq open'
    BY <1>1, <2>6 DEF Orderly
  <2>13. lo <= created' /\ created' - lo <= MaxThreads
    BY <2>2, <2>3, <2>5, SlotsInside DEF Slots
  <2> QED
    BY <1>1, <2>10, <2>11, <2>12, <2>13 DEF Orderly
<1>3. CASE UNCHANGED <<created, threads, tstate, tport, raced, overrun>>
  BY <1>1, <1>3 DEF Orderly, Registered, Own, Place
<1> QED
  BY <1>2, <1>3 DEF RequestNET

(* cleanNet begins: no thread is registering.                              *)
LEMMA OrderlyCleanNet ==
  ASSUME Kept, NEW lo \in 0 .. created, Orderly(lo), CleanNet, ~raced'
  PROVE  Orderly(lo)'
<1>1. ~SomeRegistering /\ main = "run" /\ main' = "kill" /\ k' = 0
      /\ UNCHANGED <<qtyThreads, threads, threadSocket, created, tstate, slot, open, bound>>
  BY DEF CleanNet, shared, threadVars, socketVars
<1>2. Registered(lo) /\ lo \in Nat /\ created \in Nat /\ lo <= created
  BY <1>1 DEF Orderly, Kept, TypeOK
<1>3. \A t \in Own(lo) : tstate[t] \in Running /\ Place(lo, t) \in Nat
  BY <1>1, <1>2, PlaceKnown DEF Registered, Own, SomeRegistering, Kept
<1>4. qtyThreads = created - lo
  <2>1. created > lo => created \in Own(lo)
    BY PlaceKnown DEF Kept
  <2> QED
    BY <1>2, <1>3, <2>1 DEF Registered, Running
<1>5. Killing(lo)'
  <2>1. \A t \in Own(lo) : /\ threads[Place(lo, t)] = t /\ threadSocket[Place(lo, t)] = t
                           /\ ~(Place(lo, t) < 0)
    BY <1>2, <1>3 DEF Registered
  <2>2. 0 <= created - lo
    BY <1>2
  <2> QED
    BY <1>1, <1>3, <1>4, <2>1, <2>2 DEF Killing, Own, Place
<1> QED
  BY <1>1, <1>5 DEF Orderly, Own

(* One turn of the first loop closes and kills the thread at its place.    *)
LEMMA OrderlyCloseAndKill ==
  ASSUME Kept, NEW lo \in 0 .. created, Orderly(lo), CloseAndKill
  PROVE  Orderly(lo)' /\ crashed' = crashed
<1> PICK u : u = lo + k + 1
  OBVIOUS
<1>1. main = "kill" /\ main' = main /\ k < qtyThreads /\ k' = k + 1
      /\ UNCHANGED <<qtyThreads, threads, threadSocket, created, slot>>
  BY DEF CloseAndKill, shared
<1>2. Killing(lo) /\ k \in Nat /\ lo \in Nat /\ created \in Nat
  BY <1>1 DEF Orderly, Kept, TypeOK
<1>3. u \in Own(lo) /\ Place(lo, u) = k /\ u \in Threads /\ u # None
  BY <1>1, <1>2, PlaceKnown DEF Killing, Kept
<1>4. threads[k] = u /\ threadSocket[k] = u /\ tstate[u] \in Running
  BY <1>2, <1>3 DEF Killing
<1>5. tstate' = [tstate EXCEPT ![u] = "killed"] /\ crashed' = crashed
      /\ open' = open \ {u} /\ bound' = bound \ {u}
  BY <1>3, <1>4 DEF CloseAndKill, Running
<1>6. ASSUME NEW t \in Own(lo), t # u
      PROVE  tstate'[t] = tstate[t] /\ (Place(lo, t) < k + 1 <=> Place(lo, t) < k)
  <2>1. t \in Threads /\ Place(lo, t) \in Nat /\ Place(lo, t) # k
    BY <1>3, <1>6, PlaceKnown DEF Kept
  <2>2. tstate'[t] = tstate[t]
    BY <1>5, <1>6, <2>1 DEF Kept, TypeOK
  <2> QED
    BY <1>2, <2>1, <2>2
<1>7. Killing(lo)'
  <2>1. tstate'[u] = "killed" /\ u \notin open' /\ Place(lo, u) < k + 1
    BY <1>2, <1>3, <1>5 DEF Kept, TypeOK
  <2>2. ASSUME NEW t \in Own(lo)
        PROVE  /\ threads[Place(lo, t)] = t /\ threadSocket[Place(lo, t)] = t
               /\ IF Place(lo, t) < k + 1 THEN tstate'[t] \in {"killed", "dead"} /\ t \notin open'
                                          ELSE tstate'[t] \in Running
    BY <1>2, <1>5, <1>6, <2>1 DEF Killing
  <2>3. k + 1 <= qtyThreads
    BY <1>1, <1>2 DEF Killing
  <2> QED
    BY <1>1, <1>2, <2>2, <2>3 DEF Killing, Own, Place
<1>8. \A t \in Threads : (t <= lo => tstate'[t] = "dead") /\ (t > created => tstate'[t] = "none")
  <2>1. lo < u /\ u <= created /\ u \in Nat
    BY <1>3, PlaceKnown DEF Kept
  <2>2. \A t \in Threads : t \in Nat /\ (t <= lo \/ t > created => t # u)
    BY <1>2, <2>1, ThreadsNumbered, StartedFinite
  <2>3. \A t \in Threads : t # u => tstate'[t] = tstate[t]
    BY <1>5 DEF Kept, TypeOK
  <2> QED
    BY <2>2, <2>3 DEF Orderly
<1> QED
  BY <1>1, <1>5, <1>7, <1>8 DEF Orderly, Own

(* After it every thread has been signalled and no socket is open.         *)
LEMMA OrderlyAllKilled ==
  ASSUME Kept, NEW lo \in 0 .. created, Orderly(lo), AllKilled
  PROVE  Orderly(lo)'
<1>1. main = "kill" /\ main' = "join" /\ k >= qtyThreads /\ k' = 0
      /\ UNCHANGED <<qtyThreads, threads, threadSocket, created, tstate, slot, open, bound>>
  BY DEF AllKilled, shared, threadVars, socketVars
<1>2. Killing(lo) /\ k \in Nat /\ qtyThreads = created - lo /\ qtyThreads >= 0
  BY <1>1 DEF Orderly, Kept, TypeOK, Killing
<1>3. \A t \in Own(lo) : /\ tstate[t] \in {"killed", "dead"} /\ t \notin open
                         /\ threads[Place(lo, t)] = t /\ ~(Place(lo, t) < 0)
  BY <1>1, <1>2, PlaceKnown DEF Killing, Kept
<1>4. open = {}
  BY <1>3 DEF Orderly
<1>5. Joining(lo)'
  BY <1>1, <1>2, <1>3, <1>4 DEF Joining, Own, Place
<1> QED
  BY <1>1, <1>5 DEF Orderly, Own

LEMMA OrderlyJoinThread ==
  ASSUME Kept, NEW lo \in 0 .. created, Orderly(lo), JoinThread
  PROVE  Orderly(lo)' /\ crashed' = crashed
<1> PICK u : u = lo + k + 1
  OBVIOUS
<1>1. main = "join" /\ main' = main /\ k < qtyThreads /\ k' = k + 1
      /\ UNCHANGED <<qtyThreads, threadSocket, created, tstate, slot, open, bound>>
  BY DEF JoinThread, threadVars, socketVars
<1>2. Joining(lo) /\ k \in Nat /\ lo \in Nat /\ created \in Nat
  BY <1>1 DEF Orderly, Kept, TypeOK
<1>3. u \in Own(lo) /\ Place(lo, u) = k /\ k \in Slots /\ u # None
  BY <1>1, <1>2, PlaceKnown DEF Joining, Kept
<1>4. threads[k] = u
  BY <1>2, <1>3 DEF Joining
<1>5. tstate[u] = "dead" /\ threads' = [threads EXCEPT ![k] = None] /\ crashed' = crashed
  BY <1>3, <1>4 DEF JoinThread
<1>6. ASSUME NEW t \in Own(lo), t # u
      PROVE  threads'[Place(lo, t)] = threads[Place(lo, t)]
             /\ (Place(lo, t) < k + 1 <=> Place(lo, t) < k)
  <2>1. Place(lo, t) \in Slots /\ Place(lo, t) \in Nat /\ Place(lo, t) # k
    BY <1>3, <1>6, PlaceKnown DEF Kept
  <2>2. threads'[Place(lo, t)] = threads[Place(lo, t)]
    BY <1>5, <2>1 DEF Kept, TypeOK
  <2> QED
    BY <1>2, <2>1, <2>2
<1>7. Joining(lo)'
  <2>1. Place(lo, u) < k + 1
    BY <1>2, <1>3
  <2>2. ASSUME NEW t \in Own(lo)
        PROVE  IF Place(lo, t) < k + 1 THEN tstate[t] = "dead"
               ELSE tstate[t] \in {"killed", "dead"} /\ threads'[Place(lo, t)] = t
    BY <1>2, <1>5, <1>6, <2>1 DEF Joining
  <2>3. k + 1 <= qtyThreads
    BY <1>1, <1>2 DEF Joining
  <2> QED
    BY <1>1, <1>2, <2>2, <2>3 DEF Joining, Own, Place
<1> QED
  BY <1>1, <1>5, <1>7 DEF Orderly, Own

(* When all are joined they are counted among the dead.                    *)
LEMMA OrderlyAllJoined ==
  ASSUME Kept, NEW lo \in 0 .. created, Orderly(lo), AllJoined
  PROVE  Orderly(created)'
<1>1. main = "join" /\ main' = "over" /\ k >= qtyThreads /\ qtyThreads' = 0
      /\ UNCHANGED <<created, tstate, open, bound>>
  BY DEF AllJoined, threadVars, socketVars
<1>2. Joining(lo) /\ k \in Nat /\ lo \in Nat /\ created \in Nat
  BY <1>1 DEF Orderly, Kept, TypeOK
<1>3. \A t \in Own(lo) : tstate[t] = "dead"
  BY <1>1, <1>2, PlaceKnown DEF Joining, Kept
<1>6. created <= created /\ created - created <= MaxThreads
  BY <1>2, SlotsInside
<1>4. \A t \in Threads : t <= created => tstate[t] = "dead"
  <2>1. \A t \in Threads : t \in Nat
    BY ThreadsNumbered, StartedFinite
  <2> QED
    BY <1>2, <1>3, <2>1 DEF Orderly, Own
<1>5. open = {} /\ bound = {}
  BY <1>2 DEF Joining, Orderly
<1> QED
  BY <1>1, <1>2, <1>4, <1>5, <1>6 DEF Orderly

LEMMA OrderlyNextSession ==
  ASSUME Kept, NEW lo \in 0 .. created, Orderly(lo), NextSession
  PROVE  Orderly(lo)'
<1>1. main = "over" /\ main' = "init"
      /\ UNCHANGED <<qtyThreads, threads, threadSocket, created, tstate, slot, open, bound>>
  BY DEF NextSession, shared, threadVars, socketVars
<1>2. lo = created /\ qtyThreads = 0 /\ created \in Nat
  BY <1>1 DEF Orderly, Kept, TypeOK
<1>3. Registered(lo)'
  <2>1. Own(lo)' = {}
    BY <1>1, <1>2, ThreadsNumbered, StartedFinite DEF Own
  <2>2. ~(created > lo) /\ created - lo = 0
    BY <1>2
  <2> QED
    BY <1>1, <1>2, <2>1, <2>2 DEF Registered
<1> QED
  BY <1>1, <1>3 DEF Orderly, Own

LEMMA OrderlyRun ==
  ASSUME Kept, NEW lo \in 0 .. created, Orderly(lo), Run \/ TimeLeft \/ Look
  PROVE  Orderly(lo)'
<1>1. main \in {"init", "run", "look"} /\ main' \in {"run", "look"}
      /\ UNCHANGED <<qtyThreads, threads, threadSocket, created, tstate, slot, open, bound>>
  BY DEF Run, TimeLeft, Look, shared, threadVars, socketVars
<1> QED
  BY <1>1 DEF Orderly, Registered, Own, Place

(* A thread that can take a step belongs to this simulation.               *)
LEMMA Active ==
  ASSUME Kept, NEW lo \in 0 .. created, Orderly(lo), NEW t \in Threads,
         tstate[t] \notin {"none", "dead"}
  PROVE  /\ t \in Own(lo) /\ main \in {"init", "run", "look", "kill", "join"}
         /\ tstate[t] \in Registering => main \in {"init", "run", "look"} /\ t = created
         /\ tstate[t] = "killed" => main \in {"kill", "join"}
         /\ tstate[t] \in Running => main \in {"init", "run", "look", "kill"}
<1>1. t \in Nat /\ lo \in Nat /\ created \in Nat
  BY ThreadsNumbered, StartedFinite DEF Kept, TypeOK
<1>2. t \in Own(lo)
  BY <1>1 DEF Orderly, Own
<1>3. main # "over"
  BY <1>1, <1>2 DEF Orderly, Own
<1>4. CASE main \in {"init", "run", "look"}
  BY <1>2, <1>4 DEF Orderly, Registered, Registering, Running
<1>5. CASE main = "kill"
  BY <1>2, <1>5 DEF Orderly, Killing, Registering, Running
<1>6. CASE main = "join"
  BY <1>2, <1>6 DEF Orderly, Joining, Registering, Running
<1> QED
  BY <1>2, <1>3, <1>4, <1>5, <1>6 DEF Kept, TypeOK

LEMMA OrderlyOpenSocket ==
  ASSUME Kept, NEW lo \in 0 .. created, Orderly(lo), NEW t \in Threads, OpenSocket(t)
  PROVE  Orderly(lo)'
<1>1. tstate[t] = "start" /\ tstate' = [tstate EXCEPT ![t] = "write"]
      /\ slot' = [slot EXCEPT ![t] = qtyThreads] /\ open' = open \union {t}
      /\ UNCHANGED <<main, k, qtyThreads, threads, threadSocket, created, bound>>
  BY DEF OpenSocket, Goto, mainVars, shared
<1>2. t \in Own(lo) /\ main \in {"init", "run", "look"} /\ t = created /\ created > lo
  BY <1>1, Active, PlaceKnown DEF Registering, Kept
<1>3. Registered(lo)
  BY <1>2 DEF Orderly
<1>4. tstate'[t] = "write" /\ slot'[t] = qtyThreads /\ qtyThreads = Place(lo, t)
      /\ threads[Place(lo, t)] = t /\ qtyThreads = created - lo - 1
  BY <1>1, <1>2, <1>3 DEF Registered, Place, Kept, TypeOK
<1>5. \A u \in Threads : u # t => tstate'[u] = tstate[u] /\ slot'[u] = slot[u]
  BY <1>1 DEF Kept, TypeOK
<1>6. Registered(lo)'
  <2>1. ASSUME NEW u \in Own(lo)
        PROVE  /\ tstate'[u] \in Running \/ (u = created /\ tstate'[u] \in Registering)
               /\ threads[Place(lo, u)] = u
               /\ tstate'[u] \in {"write", "store"} => slot'[u] = Place(lo, u) /\ u \in open'
               /\ tstate'[u] \in Running => threadSocket[Place(lo, u)] = u
    <3>1. CASE u = t
      BY <1>1, <1>2, <1>4, <3>1 DEF Registering, Running
    <3>2. CASE u # t
      <4>1. u \in Threads
        BY DEF Own
      <4> QED
        BY <1>1, <1>3, <1>5, <3>2, <4>1 DEF Registered
    <3> QED
      BY <3>1, <3>2
  <2>2. qtyThreads = IF created > lo /\ tstate'[created] \in {"start", "write"}
                     THEN created - lo - 1 ELSE created - lo
    BY <1>2, <1>4
  <2> QED
    BY <1>1, <2>1, <2>2 DEF Registered, Own, Place
<1>7. (\A u \in Threads : u <= lo => tstate'[u] = "dead")
      /\ (\A u \in Threads : u > created => tstate'[u] = "none")
  BY <1>1, <1>2, <1>5 DEF Orderly
<1> QED
  BY <1>1, <1>2, <1>6, <1>7 DEF Orderly, Own

LEMMA OrderlyWriteQty ==
  ASSUME Kept, NEW lo \in 0 .. created, Orderly(lo), NEW t \in Threads, WriteQty(t)
  PROVE  Orderly(lo)'
<1>1. tstate[t] = "write" /\ tstate' = [tstate EXCEPT ![t] = "store"]
      /\ qtyThreads' = slot[t] + 1
      /\ UNCHANGED <<main, k, slot, threads, threadSocket, created, open, bound>>
  BY DEF WriteQty, Goto, mainVars, socketVars
<1>2. t \in Own(lo) /\ main \in {"init", "run", "look"} /\ t = created /\ created > lo
      /\ created \in Nat /\ lo \in Nat
  BY <1>1, Active, PlaceKnown DEF Registering, Kept
<1>3. Registered(lo)
  BY <1>2 DEF Orderly
<1>4. tstate'[t] = "store" /\ slot[t] = Place(lo, t) /\ t \in open
      /\ threads[Place(lo, t)] = t /\ qtyThreads' = created - lo
  <2>1. slot[t] = Place(lo, t) /\ t \in open /\ threads[Place(lo, t)] = t
    BY <1>1, <1>2, <1>3 DEF Registered
  <2>2. Place(lo, t) + 1 = created - lo
    BY <1>2 DEF Place
  <2> QED
    BY <1>1, <2>1, <2>2 DEF Kept, TypeOK
<1>5. \A u \in Threads : u # t => tstate'[u] = tstate[u]
  BY <1>1 DEF Kept, TypeOK
<1>6. Registered(lo)'
  <2>1. ASSUME NEW u \in Own(lo)
        PROVE  /\ tstate'[u] \in Running \/ (u = created /\ tstate'[u] \in Registering)
               /\ threads[Place(lo, u)] = u
               /\ tstate'[u] \in {"write", "store"} => slot[u] = Place(lo, u) /\ u \in open
               /\ tstate'[u] \in Running => threadSocket[Place(lo, u)] = u
    <3>1. CASE u = t
      BY <1>2, <1>4, <3>1 DEF Registering, Running
    <3>2. CASE u # t
      <4>1. u \in Threads
        BY DEF Own
      <4> QED
        BY <1>3, <1>5, <3>2, <4>1 DEF Registered
    <3> QED
      BY <3>1, <3>2
  <2>2. qtyThreads' = IF created > lo /\ tstate'[created] \in {"start", "write"}
                      THEN created - lo - 1 ELSE created - lo
    BY <1>2, <1>4
  <2> QED
    BY <1>1, <2>1, <2>2 DEF Registered, Own, Place
<1>7. (\A u \in Threads : u <= lo => tstate'[u] = "dead")
      /\ (\A u \in Threads : u > created => tstate'[u] = "none")
  BY <1>1, <1>2, <1>5 DEF Orderly
<1> QED
  BY <1>1, <1>2, <1>6, <1>7 DEF Orderly, Own

LEMMA OrderlyStoreSocket ==
  ASSUME Kept, NEW lo \in 0 .. created, Orderly(lo), NEW t \in Threads, StoreSocket(t)
  PROVE  Orderly(lo)' /\ ~overrun'
<1>1. tstate[t] = "store" /\ tstate' = [tstate EXCEPT ![t] = "receive"]
      /\ threadSocket' = [threadSocket EXCEPT ![slot[t]] = t]
      /\ slot' = [slot EXCEPT ![t] = 0] /\ bound' \subseteq bound \cup {t}
      /\ UNCHANGED <<main, k, qtyThreads, threads, created, open>>
  BY DEF StoreSocket, Goto, mainVars
<1>2. t \in Own(lo) /\ main \in {"init", "run", "look"} /\ t = created /\ created > lo
  BY <1>1, Active, PlaceKnown DEF Registering, Kept
<1>3. Registered(lo)
  BY <1>2 DEF Orderly
<1>4. slot[t] = Place(lo, t) /\ Place(lo, t) \in Slots /\ t \in open
      /\ threads[Place(lo, t)] = t /\ qtyThreads = created - lo
  BY <1>1, <1>2, <1>3, PlaceKnown DEF Registered, Kept
<1>10. ~overrun'
  BY <1>4, SlotsInside DEF StoreSocket, Kept, TypeOK
<1>5. tstate'[t] = "receive" /\ threadSocket'[Place(lo, t)] = t
  BY <1>1, <1>4 DEF Kept, TypeOK
<1>6. \A u \in Threads : u # t => tstate'[u] = tstate[u] /\ slot'[u] = slot[u]
  BY <1>1 DEF Kept, TypeOK
<1>7. ASSUME NEW u \in Own(lo), u # t
      PROVE  threadSocket'[Place(lo, u)] = threadSocket[Place(lo, u)]
  <2>1. Place(lo, u) # Place(lo, t) /\ Place(lo, u) \in Slots
    BY <1>2, <1>7, PlaceKnown DEF Kept
  <2> QED
    BY <1>1, <1>4, <2>1 DEF Kept, TypeOK
<1>8. Registered(lo)'
  <2>1. ASSUME NEW u \in Own(lo)
        PROVE  /\ tstate'[u] \in Running \/ (u = created /\ tstate'[u] \in Registering)
               /\ threads[Place(lo, u)] = u
               /\ tstate'[u] \in {"write", "store"} => slot'[u] = Place(lo, u) /\ u \in open
               /\ tstate'[u] \in Running => threadSocket'[Place(lo, u)] = u
    <3>1. CASE u = t
      BY <1>4, <1>5, <3>1 DEF Running
    <3>2. CASE u # t
      <4>1. u \in Threads
        BY DEF Own
      <4> QED
        BY <1>3, <1>6, <1>7, <3>2, <4>1 DEF Registered
    <3> QED
      BY <3>1, <3>2
  <2>2. qtyThreads = IF created > lo /\ tstate'[created] \in {"start", "write"}
                     THEN created - lo - 1 ELSE created - lo
    BY <1>2, <1>4, <1>5
  <2> QED
    BY <1>1, <2>1, <2>2 DEF Registered, Own, Place
<1>9. (\A u \in Threads : u <= lo => tstate'[u] = "dead")
      /\ (\A u \in Threads : u > created => tstate'[u] = "none")
  BY <1>1, <1>2, <1>6 DEF Orderly
<1> QED
  BY <1>1, <1>2, <1>4, <1>8, <1>9, <1>10 DEF Orderly, Own

(* Receiving and sending change nothing here, nor does the end of a thread *)
(* that has been killed.                                                   *)
LEMMA OrderlyRunning ==
  ASSUME Kept, NEW lo \in 0 .. created, Orderly(lo), NEW t \in Threads,
         tstate[t] \in Running, NEW to \in Running, tstate' = [tstate EXCEPT ![t] = to],
         UNCHANGED <<main, k, qtyThreads, threads, threadSocket, created, slot, open, bound>>
  PROVE  Orderly(lo)'
<1>1. tstate'[t] = to /\ \A u \in Threads : u # t => tstate'[u] = tstate[u]
  BY DEF Kept, TypeOK
<1>2. t \in Own(lo) /\ main \in {"init", "run", "look", "kill"}
  BY Active DEF Running
<1>3. Registered(lo) => Registered(lo)'
  BY <1>1, <1>2 DEF Registered, Own, Place, Registering, Running
<1>4. Killing(lo) => Killing(lo)'
  BY <1>1, <1>2 DEF Killing, Own, Place, Running
<1>5. (\A u \in Threads : u <= lo => tstate'[u] = "dead")
      /\ (\A u \in Threads : u > created => tstate'[u] = "none")
  BY <1>1, <1>2, PlaceKnown DEF Orderly, Kept
<1> QED
  BY <1>2, <1>3, <1>4, <1>5 DEF Orderly, Own

LEMMA OrderlyEndNet ==
  ASSUME Kept, NEW lo \in 0 .. created, Orderly(lo), NEW t \in Threads, EndNet(t)
  PROVE  Orderly(lo)'
<1>1. tstate[t] = "killed" /\ tstate' = [tstate EXCEPT ![t] = "dead"]
      /\ UNCHANGED <<main, k, qtyThreads, threads, threadSocket, created, open, bound>>
  BY DEF EndNet, Goto, mainVars, shared, socketVars
<1>2. tstate'[t] = "dead" /\ \A u \in Threads : u # t => tstate'[u] = tstate[u]
  BY <1>1 DEF Kept, TypeOK
<1>3. t \in Own(lo) /\ main \in {"kill", "join"}
  BY <1>1, Active
<1>4. Killing(lo) => Killing(lo)'
  BY <1>1, <1>2, <1>3 DEF Killing, Own, Place, Running
<1>5. Joining(lo) => Joining(lo)'
  BY <1>1, <1>2, <1>3 DEF Joining, Own, Place
<1>6. (\A u \in Threads : u <= lo => tstate'[u] = "dead")
      /\ (\A u \in Threads : u > created => tstate'[u] = "none")
  BY <1>1, <1>2, <1>3, PlaceKnown DEF Orderly, Kept
<1> QED
  BY <1>1, <1>3, <1>4, <1>5, <1>6 DEF Orderly, Own

(* A thread that is started has a port of its own that begins.             *)
LEMMA PortsFinite ==
  ASSUME NEW s \in Sessions
  PROVE  IsFiniteSet(PortsOf(s)) /\ Cardinality(PortsOf(s)) \in Nat
<1>1. DOMAIN Requests[s] = 1 .. Len(Requests[s]) /\ Len(Requests[s]) \in Nat
  BY NetAssumption DEF Sessions
<1>2. IsFiniteSet(1 .. Len(Requests[s]))
  BY <1>1, FS_Interval
<1> DEFINE f == [i \in 1 .. Len(Requests[s]) |-> Requests[s][i].port]
<1>3. f \in Surjection(1 .. Len(Requests[s]), PortsOf(s))
  BY <1>1 DEF Surjection, PortsOf, Range
<1> QED
  BY <1>2, <1>3, FS_Surjection, FS_CardinalityType

LEMMA PresentGrows ==
  ASSUME TypeOK, TypeOK', Next, session' = session
  PROVE  /\ Cardinality(Present) \in Nat /\ Cardinality(Present') \in Nat
         /\ Cardinality(PortsOf(session)) \in Nat
         /\ Cardinality(Present) <= Cardinality(Present')
         /\ Cardinality(Present') <= Cardinality(PortsOf(session))
         /\ created' # created => Cardinality(Present) < Cardinality(Present')
<1>1. \A p : p \in Present <=> <<session, p>> \in Begun /\ p \in PortsOf(session)
  <2>1. \A p \in PortsOf(session) : <<session, p>> \in Started
    BY DEF Started, Ports, TypeOK
  <2>2. ~(session < session)
    BY NetAssumption DEF TypeOK, Sessions
  <2> QED
    BY <2>1, <2>2 DEF Present, Begun
<1>2. \A p : p \in Present' <=> <<session, p>> \in Begun' /\ p \in PortsOf(session)
  <2>1. \A p \in PortsOf(session) : <<session, p>> \in Started
    BY DEF Started, Ports, TypeOK
  <2>2. ~(session < session)
    BY NetAssumption DEF TypeOK, Sessions
  <2> QED
    BY <2>1, <2>2 DEF Present, Begun
<1>3. Present \subseteq Present' /\ Present' \subseteq PortsOf(session)
  BY <1>1, <1>2, BegunGrows
<1>4. created' # created => Present' # Present
  <2> SUFFICES ASSUME created' # created
               PROVE  Present' # Present
    OBVIOUS
  <2>1. Begun' # Begun /\ Begun \subseteq Begun'
    BY BegunGrows
  <2>2. PICK x : x \in Begun' /\ x \notin Begun
    BY <2>1
  <2>3. x \in Started /\ x = <<x[1], x[2]>> /\ x[2] \in PortsOf(x[1])
    BY <2>2 DEF Begun, Started
  <2>4. x[1] = session
    BY <2>2 DEF Begun
  <2> QED
    BY <1>1, <1>2, <2>2, <2>3, <2>4
<1>5. IsFiniteSet(PortsOf(session)) /\ Cardinality(PortsOf(session)) \in Nat
  BY PortsFinite DEF TypeOK
<1>6. IsFiniteSet(Present') /\ Cardinality(Present') <= Cardinality(PortsOf(session))
  BY <1>3, <1>5, FS_Subset
<1>7. Cardinality(Present) <= Cardinality(Present') /\ IsFiniteSet(Present)
  BY <1>3, <1>6, FS_Subset
<1>8. Cardinality(Present) = Cardinality(Present') => Present = Present'
  BY <1>3, <1>6, FS_Subset
<1>9. Cardinality(Present) \in Nat /\ Cardinality(Present') \in Nat
  BY <1>6, <1>7, FS_CardinalityType
<1> QED
  BY <1>4, <1>5, <1>6, <1>7, <1>8, <1>9

LEMMA FewKept ==
  ASSUME TypeOK, TypeOK', NEW lo \in 0 .. created, Few(lo), Next, session' = session
  PROVE  Few(lo)'
<1>1. created' = created \/ created' = created + 1
  BY BegunGrows
<1>2. created \in Nat /\ lo \in Nat
  BY DEF TypeOK
<1> QED
  BY <1>1, <1>2, PresentGrows DEF Few

(* A thread that is started past the tables is that of one port more than  *)
(* they have entries.                                                      *)
LEMMA OverrunByPorts ==
  ASSUME Kept, NEW lo \in 0 .. created, Orderly(lo), Few(lo), Next, RequestNET, overrun', ~overrun
  PROVE  main' # "over" /\ Cardinality(PortsOf(session')) > MaxThreads
<1>1. main = "init" /\ main' = main /\ session' = session
  BY DEF RequestNET
<1>2. created' = created + 1 /\ Past(qtyThreads)
  BY DEF RequestNET, StartThread
<1>3. qtyThreads <= created - lo
  BY <1>1, PlaceKnown DEF Orderly, Registered
<1>4. created \in Nat /\ qtyThreads \in Nat /\ lo \in Nat /\ created' # created
  BY <1>2 DEF Kept, TypeOK
<1> QED
  BY <1>1, <1>2, <1>3, <1>4, SlotsInside, PresentGrows DEF Few, Past, Kept

LEMMA TimelyStep ==
  ASSUME TypeOK, InBounds, TypeOK', InBounds', Timely, [Next]_vars
  PROVE  Timely'
<1>0. Kept
  BY DEF Kept
<1>1. CASE UNCHANGED vars
  <2>1. UNCHANGED OrderVars /\ UNCHANGED <<session, listeners, raced, crashed, overrun>>
    BY <1>1 DEF vars, mainVars, netVars, shared, threadVars, socketVars, OrderVars
  <2>2. Present' = Present /\ created' = created /\ main' = main
    BY <2>1 DEF Present, OrderVars
  <2>3. ASSUME NEW lo \in 0 .. created, Orderly(lo), Few(lo)
        PROVE  Orderly(lo)' /\ Few(lo)'
    <3>1. Few(lo)'
      BY <2>2, <2>3 DEF Few
    <3> QED
      BY <2>1, <2>3, <3>1, OrderUndisturbed
  <2> QED
    BY <2>1, <2>2, <2>3 DEF Timely
<1> SUFFICES ASSUME Next, ~raced'
             PROVE  Timely'
  BY <1>1 DEF Timely
<1>2. ~raced
  BY DEF Next, Main, RequestNET, StartThread, Run, TimeLeft, Look, CleanNet, CloseAndKill, AllKilled,
         JoinThread, AllJoined, ReadPast, NextSession, Handler, OpenSocket, WriteQty, StoreSocket, Receive,
         SendToQueue, EndNet, NetworkSends
<1>3. ~crashed /\ ~overrun
  BY DEF Next, Going
<1>4. PICK lo \in 0 .. created : Orderly(lo) /\ Few(lo)
  BY <1>2, <1>3 DEF Timely
<1>5. created' \in Nat /\ created <= created'
  BY RoomForThread DEF TypeOK
<1>6. lo \in 0 .. created' /\ created \in 0 .. created'
  BY <1>4, <1>5 DEF TypeOK
<1>7. ASSUME Orderly(lo)', session' = session, ~crashed', ~overrun'
      PROVE  Timely'
  <2>1. Few(lo)'
    BY <1>4, <1>7, FewKept
  <2> QED
    BY <1>6, <1>7, <2>1 DEF Timely
<1>8. CASE RequestNET
  <2>1. crashed' = crashed /\ session' = session
    BY <1>8 DEF RequestNET
  <2>2. CASE overrun'
    BY <1>0, <1>3, <1>4, <1>8, <2>1, <2>2, OverrunByPorts DEF Timely
  <2>3. CASE ~overrun'
    <3>1. Orderly(lo)'
      BY <1>0, <1>4, <1>8, <2>3, OrderlyRequestNET
    <3> QED
      BY <1>3, <1>7, <2>1, <2>3, <3>1
  <2> QED
    BY <2>2, <2>3
<1>14. CASE CleanNet
  <2>1. crashed' = crashed /\ session' = session /\ overrun' = overrun
    BY <1>14 DEF CleanNet
  <2>2. Orderly(lo)'
    BY <1>0, <1>4, <1>14, OrderlyCleanNet
  <2> QED
    BY <1>3, <1>7, <2>1, <2>2
<1>9. CASE CloseAndKill \/ JoinThread
  <2>1. session' = session /\ overrun' = overrun
    BY <1>9 DEF CloseAndKill, JoinThread
  <2>2. Orderly(lo)' /\ ~crashed'
    BY <1>0, <1>3, <1>4, <1>9, OrderlyCloseAndKill, OrderlyJoinThread
  <2> QED
    BY <1>3, <1>7, <2>1, <2>2
<1>10. CASE Run \/ TimeLeft \/ Look \/ AllKilled
  <2>1. crashed' = crashed /\ session' = session /\ overrun' = overrun
    BY <1>10 DEF Run, TimeLeft, Look, AllKilled
  <2>2. Orderly(lo)'
    BY <1>0, <1>4, <1>10, OrderlyRun, OrderlyAllKilled
  <2> QED
    BY <1>3, <1>7, <2>1, <2>2
<1>15. ReadPast => FALSE
  <2> SUFFICES ASSUME ReadPast
               PROVE  FALSE
    OBVIOUS
  <2>1. main \in {"kill", "join"} /\ k < qtyThreads /\ Past(k)
    BY DEF ReadPast
  <2>2. qtyThreads = created - lo
    BY <1>4, <2>1 DEF Orderly, Killing, Joining
  <2>3. created - lo <= MaxThreads /\ MaxThreads \in Nat /\ created \in Nat /\ lo \in Nat
    BY <1>0, <1>4, PlaceKnown
  <2> QED
    BY <2>1, <2>2, <2>3 DEF Past, TypeOK
<1>11. CASE AllJoined \/ NextSession
  <2>1. crashed' = crashed /\ overrun' = overrun /\ created' = created
    BY <1>11 DEF AllJoined, NextSession, threadVars
  <2>2. PICK l \in {lo, created'} : Orderly(l)' /\ l = created'
    <3>1. CASE AllJoined
      BY <1>0, <1>4, <3>1, OrderlyAllJoined
    <3>2. CASE NextSession
      <4>1. Orderly(lo)' /\ lo = created
        BY <1>0, <1>4, <3>2, OrderlyNextSession DEF NextSession, Orderly
      <4> QED
        BY <2>1, <4>1
    <3> QED
      BY <1>11, <3>1, <3>2
  <2>3. Few(l)'
    <3>1. IsFiniteSet(Present')
      <4>1. Present' \subseteq PortsOf(session') /\ IsFiniteSet(PortsOf(session'))
        BY PortsFinite DEF Present, TypeOK
      <4> QED
        BY <4>1, FS_Subset
    <3>2. Cardinality(Present') \in Nat
      BY <3>1, FS_CardinalityType
    <3> QED
      BY <1>5, <2>2, <3>2 DEF Few
  <2>4. l \in 0 .. created'
    BY <1>5, <2>2
  <2> QED
    BY <1>3, <1>5, <2>1, <2>2, <2>3, <2>4 DEF Timely
<1>12. CASE NetworkSends
  <2>1. crashed' = crashed /\ overrun' = overrun /\ session' = session /\ UNCHANGED OrderVars
    BY <1>12 DEF NetworkSends, OrderVars, mainVars, shared, threadVars, socketVars
  <2>2. Orderly(lo)'
    BY <1>4, <2>1, OrderUndisturbed
  <2> QED
    BY <1>3, <1>7, <2>1, <2>2
<1>13. ASSUME NEW t \in Threads, Handler(t)
       PROVE  Timely'
  <2>1. crashed' = crashed /\ session' = session
    BY <1>13 DEF Handler, OpenSocket, WriteQty, StoreSocket, Receive, SendToQueue, EndNet, mainVars
  <2>2. CASE StoreSocket(t)
    BY <1>0, <1>3, <1>4, <1>7, <2>1, <2>2, OrderlyStoreSocket
  <2>3. CASE OpenSocket(t) \/ WriteQty(t) \/ EndNet(t)
    <3>1. overrun' = overrun
      BY <2>3 DEF OpenSocket, WriteQty, EndNet
    <3>2. Orderly(lo)'
      BY <1>0, <1>4, <2>3, OrderlyOpenSocket, OrderlyWriteQty, OrderlyEndNet
    <3> QED
      BY <1>3, <1>7, <2>1, <3>1, <3>2
  <2>4. CASE Receive(t) \/ SendToQueue(t)
    <3>1. /\ tstate[t] \in Running /\ \E to \in Running : tstate' = [tstate EXCEPT ![t] = to]
          /\ UNCHANGED <<main, k, qtyThreads, threads, threadSocket, created, slot, open, bound>>
          /\ overrun' = overrun
      BY <2>4 DEF Receive, SendToQueue, Goto, Running, mainVars, shared, socketVars
    <3>2. Orderly(lo)'
      BY <1>0, <1>4, <3>1, OrderlyRunning
    <3> QED
      BY <1>3, <1>7, <2>1, <3>1, <3>2
  <2> QED
    BY <1>13, <2>2, <2>3, <2>4 DEF Handler
<1> QED
  BY <1>8, <1>9, <1>10, <1>11, <1>12, <1>13, <1>14, <1>15 DEF Next, Main

LEMMA NobodyLate ==
  Spec => []Timely
<1>1. Init => Timely
  <2> SUFFICES ASSUME Init
               PROVE  Timely
    OBVIOUS
  <2>1. created = 0 /\ main = "init" /\ open = {} /\ bound = {} /\ qtyThreads = 0 /\ ~crashed
        /\ ~overrun /\ session = 1 /\ listeners = [p \in Ports |-> <<>>]
        /\ \A t \in Threads : tstate[t] = "none"
    BY DEF Init
  <2>2. \A t \in Threads : t \in Nat /\ t > 0
    BY ThreadsNumbered, StartedFinite
  <2>3. Own(0) = {}
    BY <2>1, <2>2 DEF Own
  <2>4. Orderly(0)
    BY <2>1, <2>2, <2>3, SlotsInside DEF Orderly, Registered
  <2>6. Few(0)
    <3>1. 1 \in Sessions
      BY NetAssumption DEF Sessions
    <3>2. Present \subseteq PortsOf(1)
      BY <2>1 DEF Present
    <3>3. Cardinality(Present) \in Nat
      BY <3>1, <3>2, PortsFinite, FS_Subset, FS_CardinalityType
    <3> QED
      BY <2>1, <3>3 DEF Few
  <2>5. 0 \in 0 .. created
    BY <2>1
  <2> QED
    BY <2>1, <2>4, <2>5, <2>6 DEF Timely
<1> QED
  BY <1>1, TypeInvariant, TimelyStep, PTL DEF Spec

(* After cleanNet nothing is left (pdevslib.linux.cpp:252): every socket   *)
(* of the simulation is closed and every thread has ended, as long as no   *)
(* thread was late.  A simulation with more ports than the tables have     *)
(* entries does not get so far.                                            *)
THEOREM NothingLeftOpen ==
  Spec => []AllReleased
<1>1. TypeOK /\ InBounds /\ Timely => AllReleased
  <2> SUFFICES ASSUME TypeOK, InBounds, Timely, main = "over", ~raced
               PROVE  open = {} /\ \A t \in 1 .. created : tstate[t] = "dead"
    BY DEF AllReleased
  <2>1. PICK lo \in 0 .. created : Orderly(lo)
    BY DEF Timely
  <2>2. lo = created /\ open \subseteq Own(lo) /\ \A t \in Threads : t <= lo => tstate[t] = "dead"
    BY <2>1 DEF Orderly
  <2>3. created \in Nat /\ created <= Cardinality(Started) /\ Cardinality(Started) \in Nat
    BY Inside DEF TypeOK
  <2>4. Own(lo) = {} /\ \A t \in 1 .. created : t \in Threads /\ t <= lo
    BY <2>2, <2>3, ThreadsNumbered DEF Own
  <2> QED
    BY <2>2, <2>4
<1> QED
  BY <1>1, TypeInvariant, NobodyLate, PTL

(* As long as no thread was late no entry of threads is killed or joined   *)
(* that no thread was written to (the segmentation fault of                *)
(* pdevslib.linux.cpp:266), and nothing past threads and threadSocket      *)
(* (lines 34 and 35) is written or read but by a simulation that asks for  *)
(* more ports than they have entries; late or not, nothing is before more  *)
(* threads than that have been started.                                    *)
THEOREM TablesAlwaysHold ==
  Spec => []TablesHold
<1>1. InBounds /\ Timely => TablesHold
  BY DEF InBounds, Timely, TablesHold
<1> QED
  BY <1>1, TypeInvariant, NobodyLate, PTL

-----------------------------------------------------------------------------
(* A message on its way: what was sent before it to its port is ahead of   *)
(* it, in the buffer of the thread, the socket, the queue or what has been *)
(* heard.  No two bound sockets have the same port.                        *)
Waiting(t) == Range(buffer[t]) \cup Range(socketBuffer[t])

Received(t) ==
  /\ tstate[t] \notin {"send", "killed"} => buffer[t] = <<>>
  /\ tstate[t] = "send" => t \in bound
  /\ t \notin bound => socketBuffer[t] = <<>>
  /\ \A x \in Waiting(t) : x.port = tport[t] /\ x.id < nextMessage
  /\ \A x \in Range(buffer[t]), y \in Range(socketBuffer[t]) : x.id <= y.id
  /\ \A i, j \in DOMAIN socketBuffer[t] : i < j => socketBuffer[t][i].id <= socketBuffer[t][j].id

BeforeWaiting(m) ==
  /\ m.id < nextMessage
  /\ \A t \in bound : m.port = tport[t] => \A x \in Waiting(t) : m.id <= x.id

Follows(m, n) == m.port = n.port => m.id <= n.id

OnePort == \A t, u \in bound : tport[t] = tport[u] => t = u

InLine ==
  /\ \A m \in Range(netQueue) : BeforeWaiting(m)
  /\ \A i, j \in DOMAIN netQueue : i < j => Follows(netQueue[i], netQueue[j])
  /\ \A h \in Range(heard) : BeforeWaiting(h[1]) /\ \A m \in Range(netQueue) : Follows(h[1], m)
  /\ \A i, j \in DOMAIN heard : i < j => Follows(heard[i][1], heard[j][1])

Sequenced == (\A t \in Threads : Received(t)) /\ OnePort /\ InLine

OrderKept == ~raced => Sequenced

(* What the threads are about changes nothing of a line.                   *)
LEMMA ReceivedKept ==
  ASSUME TypeOK, TypeOK', NEW u \in Threads, Received(u), nextMessage <= nextMessage',
         tstate'[u] = tstate[u], buffer'[u] = buffer[u], socketBuffer'[u] = socketBuffer[u],
         tport'[u] = tport[u], u \in bound' <=> u \in bound
  PROVE  Received(u)'
<1>1. \A x \in Waiting(u) : x \in Message
  BY DEF TypeOK, Waiting, Range
<1>2. Waiting(u)' = Waiting(u)
  BY DEF Waiting, Range
<1>3. \A x \in Waiting(u) : x.id < nextMessage => x.id < nextMessage'
  BY <1>1, SMTT(30) DEF TypeOK, Message
<1> QED
  BY <1>2, <1>3 DEF Received

LEMMA BeforeKept ==
  ASSUME TypeOK, TypeOK', NEW m \in Message, BeforeWaiting(m), nextMessage <= nextMessage',
         \A t \in bound' : \A x \in Waiting(t)' :
            \/ t \in bound /\ tport'[t] = tport[t] /\ x \in Waiting(t)
            \/ nextMessage <= x.id
  PROVE  BeforeWaiting(m)'
<1>1. m.id \in Nat /\ nextMessage \in Nat /\ nextMessage' \in Nat
  BY DEF TypeOK, Message
<1>2. ASSUME NEW t \in bound', NEW x \in Waiting(t)'
      PROVE  x.id \in Nat
  <2>1. buffer'[t] \in Seq(Message) /\ socketBuffer'[t] \in Seq(Message)
    BY DEF TypeOK
  <2>2. x \in Message
    BY <2>1 DEF Waiting, Range
  <2> QED
    BY <2>2 DEF Message
<1>3. m.id < nextMessage'
  BY <1>1 DEF BeforeWaiting
<1>4. ASSUME NEW t \in bound', m.port = tport'[t], NEW x \in Waiting(t)'
      PROVE  m.id <= x.id
  BY <1>1, <1>2, <1>4 DEF BeforeWaiting
<1> QED
  BY <1>3, <1>4 DEF BeforeWaiting

LEMMA LineKept ==
  ASSUME TypeOK, InLine, netQueue' = netQueue \/ netQueue' = <<>>, heard' = heard,
         \A m \in Message : BeforeWaiting(m) => BeforeWaiting(m)'
  PROVE  InLine'
<1>1. \A m \in Range(netQueue) : m \in Message
  BY DEF TypeOK, Range
<1>2. \A h \in Range(heard) : h[1] \in Message
  BY DEF TypeOK, Range
<1>3. \A m \in Range(netQueue) : BeforeWaiting(m)'
  BY <1>1 DEF InLine
<1>5. netQueue' = <<>> => Range(netQueue') = {} /\ DOMAIN netQueue' = {}
  BY DEF Range
<1>4. \A h \in Range(heard) : BeforeWaiting(h[1])'
  BY <1>2 DEF InLine
<1> QED
  BY <1>3, <1>4, <1>5 DEF InLine, Follows

(* A step that leaves the messages and the bound sockets alone.            *)
LEMMA LineUndisturbed ==
  ASSUME TypeOK, TypeOK', Sequenced,
         UNCHANGED <<heard, nextMessage, buffer, socketBuffer, bound>>,
         netQueue' = netQueue \/ netQueue' = <<>>,
         \A t \in bound : tport'[t] = tport[t],
         \A t \in Threads :
            \/ tstate'[t] = tstate[t] /\ tport'[t] = tport[t]
            \/ /\ buffer[t] = <<>> \/ tstate'[t] \in {"killed", "send"}
               /\ tstate'[t] = "send" => t \in bound
               /\ tport'[t] = tport[t] \/ (t \notin bound /\ buffer[t] = <<>>)
  PROVE  Sequenced'
<1>1. nextMessage \in Nat /\ bound \subseteq Threads
  BY DEF TypeOK
<1>2. \A t \in Threads : Waiting(t)' = Waiting(t)
  BY DEF Waiting, Range
<1>3. \A m \in Message : BeforeWaiting(m) => BeforeWaiting(m)'
  BY <1>1, <1>2 DEF BeforeWaiting
<1>4. InLine'
  BY <1>3, LineKept DEF Sequenced
<1>5. OnePort'
  BY DEF Sequenced, OnePort
<1>6. ASSUME NEW t \in Threads
      PROVE  Received(t)'
  <2>1. Received(t)
    BY DEF Sequenced
  <2>2. CASE tstate'[t] = tstate[t] /\ tport'[t] = tport[t]
    BY <2>1, <2>2, <1>1, ReceivedKept
  <2>3. CASE tport'[t] = tport[t] \/ (t \notin bound /\ buffer[t] = <<>>)
    <3>1. CASE tport'[t] = tport[t]
      BY <2>1, <2>2, <3>1, <1>2 DEF Received
    <3>2. CASE t \notin bound /\ buffer[t] = <<>>
      <4>1. Waiting(t) = {}
        BY <2>1, <3>2 DEF Received, Waiting, Range
      <4> QED
        BY <2>1, <2>2, <3>2, <4>1, <1>2 DEF Received
    <3> QED
      BY <2>3, <3>1, <3>2
  <2> QED
    BY <2>2, <2>3
<1> QED
  BY <1>4, <1>5, <1>6 DEF Sequenced

LEMMA InLineRequestNET ==
  ASSUME Kept, Next, Sequenced, NEW lo \in 0 .. created, Orderly(lo), RequestNET
  PROVE  Sequenced'
<1>1. UNCHANGED <<heard, nextMessage, buffer, socketBuffer, bound>>
      /\ (netQueue' = netQueue \/ netQueue' = <<>>)
  BY DEF RequestNET, socketVars
<1>2. CASE UNCHANGED <<tstate, tport>>
  BY <1>1, <1>2, LineUndisturbed DEF Kept
<1>3. ASSUME NEW p, StartThread(p)
      PROVE  Sequenced'
  <2> PICK c : c = created'
    OBVIOUS
  <2>1. c = created + 1 /\ c \in Threads /\ created \in Nat
    BY <1>3, RoomForThread DEF Kept, TypeOK, StartThread
  <2>2. tstate[c] = "none" /\ c \notin bound
    BY <2>1, PlaceKnown DEF Orderly, Kept
  <2>3. buffer[c] = <<>>
    BY <2>1, <2>2 DEF Sequenced, Received
  <2>4. tstate'[c] = "start" /\ \A t \in Threads : t # c => tstate'[t] = tstate[t] /\ tport'[t] = tport[t]
    BY <1>3, <2>1 DEF StartThread, Kept, TypeOK
  <2> QED
    BY <1>1, <2>2, <2>3, <2>4, LineUndisturbed DEF Kept, TypeOK
<1> QED
  BY <1>2, <1>3 DEF RequestNET

LEMMA InLineHeard ==
  ASSUME Kept, Sequenced, Look, netQueue # <<>>, isNetInitialized
  PROVE  Sequenced'
<1> PICK m : m = Head(netQueue)
  OBVIOUS
<1> PICK new : new = Told(m)
  OBVIOUS
<1>1. netQueue # <<>> /\ netQueue' = Tail(netQueue) /\ heard' = heard \o new
      /\ UNCHANGED <<nextMessage, buffer, socketBuffer, bound, tport, tstate>>
  BY DEF Look, threadVars, socketVars
<1>2. m \in Message /\ m \in Range(netQueue) /\ netQueue[1] = m /\ netQueue \in Seq(Message)
      /\ heard \in Seq(Message \X Atoms)
  BY <1>1 DEF Kept, TypeOK, Range
<1>3. new \in Seq({m} \X Atoms) /\ \A i \in DOMAIN new : new[i][1] = m
  <2>1. new \in Seq({m} \X Atoms)
    BY <1>2, ToldType DEF Kept, TypeOK
  <2> QED
    BY <2>1
<1>4. /\ \A i \in DOMAIN netQueue' : i + 1 \in DOMAIN netQueue /\ netQueue'[i] = netQueue[i + 1] /\ i \in Nat
      /\ \A n \in Range(netQueue') : n \in Range(netQueue) /\ Follows(m, n)
  <2>1. \A i \in DOMAIN netQueue' : i + 1 \in DOMAIN netQueue /\ netQueue'[i] = netQueue[i + 1] /\ i \in Nat
                                  /\ 1 \in DOMAIN netQueue /\ 1 < i + 1
    BY <1>1, <1>2
  <2>2. \A i \in DOMAIN netQueue' : Follows(m, netQueue[i + 1])
    BY <1>2, <2>1 DEF Sequenced, InLine
  <2> QED
    BY <2>1, <2>2 DEF Range
<1>5. /\ \A i \in DOMAIN heard' :
           (i \in DOMAIN heard /\ heard'[i] = heard[i]) \/ (i > Len(heard) /\ heard'[i][1] = m)
      /\ \A i \in DOMAIN heard' : i \in Nat
      /\ DOMAIN heard = 1 .. Len(heard) /\ Len(heard) \in Nat
  <2>1. Len(heard') = Len(heard) + Len(new) /\ heard' \in Seq(Message \X Atoms)
    BY <1>1, <1>2, <1>3 DEF Kept, TypeOK
  <2>2. ASSUME NEW i \in DOMAIN heard', ~(i \in DOMAIN heard /\ heard'[i] = heard[i])
        PROVE  i > Len(heard) /\ heard'[i][1] = m
    <3>1. i \in Nat /\ i > Len(heard) /\ i <= Len(heard) + Len(new)
      BY <1>1, <1>2, <1>3, <2>1, <2>2
    <3>2. heard'[i] = new[i - Len(heard)] /\ i - Len(heard) \in DOMAIN new
      BY <1>1, <1>2, <1>3, <3>1
    <3> QED
      BY <1>3, <3>1, <3>2
  <2> QED
    BY <1>2, <2>1, <2>2
<1>6. \A n : BeforeWaiting(n)' <=> BeforeWaiting(n)
  BY <1>1 DEF BeforeWaiting, Waiting
<1>7. InLine'
  <2>1. \A n \in Range(netQueue') : BeforeWaiting(n)
    BY <1>4 DEF Sequenced, InLine
  <2>2. \A i, j \in DOMAIN netQueue' : i < j => Follows(netQueue'[i], netQueue'[j])
    <3>1. \A i, j \in Nat : i < j => i + 1 < j + 1
      OBVIOUS
    <3> QED
      BY <1>4, <3>1 DEF Sequenced, InLine
  <2>3. \A h \in Range(heard') : BeforeWaiting(h[1]) /\ \A n \in Range(netQueue') : Follows(h[1], n)
    <3> SUFFICES ASSUME NEW i \in DOMAIN heard'
                 PROVE  BeforeWaiting(heard'[i][1]) /\ \A n \in Range(netQueue') : Follows(heard'[i][1], n)
      BY DEF Range
    <3>1. CASE i \in DOMAIN heard /\ heard'[i] = heard[i]
      BY <1>4, <3>1 DEF Sequenced, InLine, Range
    <3>2. CASE heard'[i][1] = m
      BY <1>2, <1>4, <3>2 DEF Sequenced, InLine
    <3> QED
      BY <1>5, <3>1, <3>2
  <2>4. ASSUME NEW i \in DOMAIN heard', NEW j \in DOMAIN heard', i < j
        PROVE  Follows(heard'[i][1], heard'[j][1])
    <3>1. m.id \in Nat
      BY <1>2 DEF Message
    <3>2. CASE i \in DOMAIN heard /\ heard'[i] = heard[i]
      <4>1. CASE j \in DOMAIN heard /\ heard'[j] = heard[j]
        BY <2>4, <3>2, <4>1 DEF Sequenced, InLine
      <4>2. CASE heard'[j][1] = m
        BY <1>2, <3>2, <4>2 DEF Sequenced, InLine, Range
      <4> QED
        BY <1>5, <4>1, <4>2
    <3>3. CASE i > Len(heard) /\ heard'[i][1] = m
      <4>1. heard'[j][1] = m
        BY <1>5, <2>4, <3>3
      <4> QED
        BY <3>1, <3>3, <4>1 DEF Follows
    <3> QED
      BY <1>5, <3>2, <3>3
  <2> QED
    BY <1>6, <2>1, <2>2, <2>3, <2>4 DEF InLine, Follows
<1>8. \A t \in Threads : Received(t)'
  BY <1>1 DEF Sequenced, Received, Waiting
<1> QED
  BY <1>1, <1>7, <1>8 DEF Sequenced, OnePort

LEMMA InLineLook ==
  ASSUME Kept, Sequenced, Look
  PROVE  Sequenced'
<1>1. CASE isNetInitialized /\ netQueue # <<>>
  BY <1>1, InLineHeard
<1>2. CASE ~(isNetInitialized /\ netQueue # <<>>)
  <2>1. UNCHANGED <<netQueue, heard, nextMessage, buffer, socketBuffer, bound, tport, tstate>>
    BY <1>2 DEF Look, threadVars, socketVars
  <2> QED
    BY <2>1, LineUndisturbed DEF Kept
<1> QED
  BY <1>1, <1>2

(* The thread that is killed is the one whose socket is closed.            *)
LEMMA InLineCloseAndKill ==
  ASSUME Kept, Sequenced, NEW lo \in 0 .. created, Orderly(lo), CloseAndKill
  PROVE  Sequenced'
<1> PICK u : u = lo + k + 1
  OBVIOUS
<1>1. main = "kill" /\ k < qtyThreads /\ UNCHANGED <<netQueue, heard, nextMessage, buffer, tport>>
  BY DEF CloseAndKill, netVars
<1>2. Killing(lo) /\ k \in Nat
  BY <1>1 DEF Orderly, Kept, TypeOK
<1>3. u \in Own(lo) /\ Place(lo, u) = k /\ u \in Threads /\ u # None
  BY <1>1, <1>2, PlaceKnown DEF Killing, Kept
<1>4. threads[k] = u /\ threadSocket[k] = u /\ tstate[u] \in Running
  BY <1>2, <1>3 DEF Killing
<1>5. tstate' = [tstate EXCEPT ![u] = "killed"] /\ bound' = bound \ {u}
      /\ socketBuffer' = [t \in Threads |-> IF t = u THEN <<>> ELSE socketBuffer[t]]
  BY <1>3, <1>4 DEF CloseAndKill, Running
<1>6. /\ tstate'[u] = "killed" /\ socketBuffer'[u] = <<>> /\ u \notin bound'
      /\ \A t \in Threads : t # u => tstate'[t] = tstate[t] /\ socketBuffer'[t] = socketBuffer[t]
                                     /\ (t \in bound' <=> t \in bound)
  BY <1>3, <1>5 DEF Kept, TypeOK
<1>7. nextMessage \in Nat /\ nextMessage <= nextMessage' /\ bound' \subseteq Threads
  BY <1>1 DEF Kept, TypeOK
<1>8. ASSUME NEW t \in Threads
      PROVE  Received(t)'
  <2>1. CASE t = u
    <3>1. Range(socketBuffer'[u]) = {} /\ DOMAIN socketBuffer'[u] = {}
      BY <1>6 DEF Range
    <3>2. Received(u)
      BY <1>3 DEF Sequenced
    <3> QED
      BY <1>1, <1>6, <2>1, <3>1, <3>2 DEF Received, Waiting
  <2>2. CASE t # u
    BY <1>1, <1>6, <1>7, <2>2, ReceivedKept DEF Sequenced, Kept
  <2> QED
    BY <2>1, <2>2
<1>9. \A m \in Message : BeforeWaiting(m) => BeforeWaiting(m)'
  <2>1. \A t \in bound' : t \in bound /\ Waiting(t)' = Waiting(t)
    BY <1>1, <1>6, <1>7 DEF Waiting
  <2> QED
    BY <1>1, <2>1 DEF BeforeWaiting
<1> QED
  BY <1>1, <1>5, <1>8, <1>9, LineKept DEF Sequenced, OnePort, Kept

LEMMA InLineStoreSocket ==
  ASSUME Kept, Sequenced, NEW t \in Threads, StoreSocket(t)
  PROVE  Sequenced'
<1>1. tstate[t] = "store" /\ tstate' = [tstate EXCEPT ![t] = "receive"]
      /\ bound' = (IF \A u \in bound : tport[u] # tport[t] THEN bound \union {t} ELSE bound)
      /\ UNCHANGED <<netQueue, heard, nextMessage, buffer, socketBuffer, tport>>
  BY DEF StoreSocket, Goto, netVars
<1>2. tstate'[t] = "receive" /\ \A u \in Threads : u # t => tstate'[u] = tstate[u]
  BY <1>1 DEF Kept, TypeOK
<1>3. Received(t) /\ buffer[t] = <<>>
  BY <1>1 DEF Sequenced, Received
<1>4. OnePort'
  BY <1>1 DEF Sequenced, OnePort
<1>5. nextMessage \in Nat /\ nextMessage <= nextMessage' /\ bound' \subseteq Threads
  BY <1>1 DEF Kept, TypeOK
<1>6. \A u \in Threads : Waiting(u)' = Waiting(u) /\ (u # t => (u \in bound' <=> u \in bound))
  BY <1>1 DEF Waiting
<1>7. ASSUME NEW u \in Threads
      PROVE  Received(u)'
  <2>1. CASE u = t
    BY <1>1, <1>2, <1>3, <1>6, <2>1 DEF Received
  <2>2. CASE u # t
    BY <1>1, <1>2, <1>5, <1>6, <2>2, ReceivedKept DEF Sequenced, Kept
  <2> QED
    BY <2>1, <2>2
<1>8. ASSUME NEW m \in Message, BeforeWaiting(m)
      PROVE  BeforeWaiting(m)'
  <2>1. CASE t \in bound
    <3>1. bound' = bound
      BY <1>1, <2>1
    <3>2. \A u \in bound' : u \in Threads
      BY <1>5
    <3> QED
      BY <1>1, <1>6, <1>8, <3>1, <3>2 DEF BeforeWaiting
  <2>2. CASE t \notin bound
    <3>1. Waiting(t) = {}
      BY <1>3, <2>2 DEF Received, Waiting, Range
    <3>2. \A u \in bound' : u \in Threads /\ (u = t \/ u \in bound)
      BY <1>1, <1>5
    <3> QED
      BY <1>1, <1>6, <1>8, <3>1, <3>2 DEF BeforeWaiting
  <2> QED
    BY <2>1, <2>2
<1> QED
  BY <1>1, <1>4, <1>7, <1>8, LineKept DEF Sequenced, Kept

LEMMA InLineReceive ==
  ASSUME Kept, Sequenced, NEW t \in Threads, Receive(t)
  PROVE  Sequenced'
<1> PICK m : m = Head(socketBuffer[t])
  OBVIOUS
<1>1. t \in bound /\ socketBuffer[t] # <<>> /\ tstate[t] = "receive"
      /\ tstate' = [tstate EXCEPT ![t] = "send"] /\ buffer' = [buffer EXCEPT ![t] = <<m>>]
      /\ socketBuffer' = [socketBuffer EXCEPT ![t] = Tail(socketBuffer[t])]
      /\ UNCHANGED <<netQueue, heard, nextMessage, bound, tport>>
  BY DEF Receive, Goto, netVars, Kept, TypeOK
<1>2. /\ tstate'[t] = "send" /\ buffer'[t] = <<m>> /\ socketBuffer'[t] = Tail(socketBuffer[t])
      /\ \A u \in Threads : u # t => /\ tstate'[u] = tstate[u] /\ buffer'[u] = buffer[u]
                                     /\ socketBuffer'[u] = socketBuffer[u]
  BY <1>1 DEF Kept, TypeOK
<1>3. Received(t) /\ socketBuffer[t] \in Seq(Message)
  BY DEF Sequenced, Kept, TypeOK
<1>4. /\ m \in Range(socketBuffer[t]) /\ m = socketBuffer[t][1] /\ 1 \in DOMAIN socketBuffer[t]
      /\ \A i \in DOMAIN Tail(socketBuffer[t]) :
           i \in Nat /\ i + 1 \in DOMAIN socketBuffer[t] /\ 1 < i + 1
           /\ Tail(socketBuffer[t])[i] = socketBuffer[t][i + 1]
  BY <1>1, <1>3 DEF Range
<1>5. Range(<<m>>) = {m}
  BY DEF Range
<1>6. \A x \in Range(Tail(socketBuffer[t])) : x \in Range(socketBuffer[t]) /\ m.id <= x.id
  BY <1>3, <1>4 DEF Range, Received
<1>7. Waiting(t)' \subseteq Waiting(t) /\ \A u \in Threads : u # t => Waiting(u)' = Waiting(u)
  BY <1>2, <1>4, <1>5, <1>6 DEF Waiting
<1>8. nextMessage \in Nat /\ nextMessage <= nextMessage' /\ bound \subseteq Threads
  BY <1>1 DEF Kept, TypeOK
<1>9. ASSUME NEW u \in Threads
      PROVE  Received(u)'
  <2>1. CASE u = t
    <3>1. \A i, j \in DOMAIN Tail(socketBuffer[t]) :
            i < j => Tail(socketBuffer[t])[i].id <= Tail(socketBuffer[t])[j].id
      <4>1. \A i, j \in Nat : i < j => i + 1 < j + 1
        OBVIOUS
      <4> QED
        BY <1>3, <1>4, <4>1 DEF Received
    <3>2. \A x \in Range(buffer'[t]), y \in Range(socketBuffer'[t]) : x.id <= y.id
      BY <1>2, <1>5, <1>6
    <3> QED
      BY <1>1, <1>2, <1>3, <1>7, <2>1, <3>1, <3>2 DEF Received
  <2>2. CASE u # t
    BY <1>1, <1>2, <1>8, <2>2, ReceivedKept DEF Sequenced, Kept
  <2> QED
    BY <2>1, <2>2
<1>10. \A n \in Message : BeforeWaiting(n) => BeforeWaiting(n)'
  BY <1>1, <1>7, <1>8 DEF BeforeWaiting
<1> QED
  BY <1>1, <1>9, <1>10, LineKept DEF Sequenced, OnePort, Kept

LEMMA InLineSendToQueue ==
  ASSUME Kept, Sequenced, NEW t \in Threads, SendToQueue(t)
  PROVE  Sequenced'
<1> PICK m : m = buffer[t][1]
  OBVIOUS
<1>1. tstate[t] = "send" /\ tstate' = [tstate EXCEPT ![t] = "receive"]
      /\ buffer' = [buffer EXCEPT ![t] = <<>>]
      /\ (netQueue' = netQueue \/ netQueue' = Append(netQueue, m))
      /\ UNCHANGED <<heard, nextMessage, bound, tport, socketBuffer>>
  BY DEF SendToQueue, Goto, socketVars
<1>2. /\ tstate'[t] = "receive" /\ buffer'[t] = <<>>
      /\ \A u \in Threads : u # t => tstate'[u] = tstate[u] /\ buffer'[u] = buffer[u]
  BY <1>1 DEF Kept, TypeOK
<1>3. Received(t) /\ t \in bound /\ buffer[t] \in Seq(Message) /\ Len(buffer[t]) = 1
  BY <1>1 DEF Sequenced, Received, Kept, TypeOK
<1>4. m \in Message /\ m \in Range(buffer[t]) /\ m \in Waiting(t)
  BY <1>3 DEF Range, Waiting
<1>5. Range(buffer'[t]) = {} /\ Waiting(t)' = Range(socketBuffer[t])
      /\ Waiting(t)' \subseteq Waiting(t) /\ \A u \in Threads : u # t => Waiting(u)' = Waiting(u)
  BY <1>1, <1>2 DEF Waiting, Range
<1>6. nextMessage \in Nat /\ nextMessage <= nextMessage' /\ bound \subseteq Threads
  BY <1>1 DEF Kept, TypeOK
<1>7. ASSUME NEW u \in Threads
      PROVE  Received(u)'
  <2>1. CASE u = t
    BY <1>1, <1>2, <1>3, <1>5, <2>1 DEF Received
  <2>2. CASE u # t
    BY <1>1, <1>2, <1>6, <2>2, ReceivedKept DEF Sequenced, Kept
  <2> QED
    BY <2>1, <2>2
<1>8. \A n \in Message : BeforeWaiting(n) => BeforeWaiting(n)'
  BY <1>1, <1>5, <1>6 DEF BeforeWaiting
<1>9. CASE netQueue' = netQueue
  <2>1. InLine'
    BY <1>1, <1>8, <1>9, LineKept DEF Sequenced, Kept
  <2>2. OnePort'
    BY <1>1 DEF Sequenced, OnePort
  <2> QED
    BY <1>7, <2>1, <2>2 DEF Sequenced
<1>10. CASE netQueue' = Append(netQueue, m)
  <2>1. netQueue \in Seq(Message) /\ \A h \in Range(heard) : h[1] \in Message
    <3>1. netQueue \in Seq(Message) /\ heard \in Seq(Message \X Atoms)
      BY DEF Kept, TypeOK
    <3> QED
      BY <3>1 DEF Range
  <2>2. \A n \in Range(netQueue) : n \in Message
    BY <2>1 DEF Range
  <2>3. m.port = tport[t] /\ m.id < nextMessage /\ \A x \in Waiting(t)' : m.id <= x.id
    BY <1>3, <1>4, <1>5 DEF Received
  <2>4. BeforeWaiting(m)'
    <3>1. \A u \in bound : tport[u] = tport[t] => u = t
      BY <1>3 DEF Sequenced, OnePort
    <3> QED
      BY <1>1, <2>3, <3>1 DEF BeforeWaiting
  <2>5. \A n : BeforeWaiting(n) => Follows(n, m)
    BY <1>3, <1>4, <2>3 DEF BeforeWaiting, Follows
  <2>6. /\ \A i \in DOMAIN netQueue' : (i \in DOMAIN netQueue /\ netQueue'[i] = netQueue[i])
                                       \/ (i = Len(netQueue) + 1 /\ netQueue'[i] = m)
        /\ \A i \in DOMAIN netQueue' : i \in Nat
        /\ DOMAIN netQueue = 1 .. Len(netQueue) /\ Len(netQueue) \in Nat
    BY <1>10, <2>1
  <2>7. \A n \in Range(netQueue') : n \in Range(netQueue) \/ n = m
    BY <2>6 DEF Range
  <2>8. \A n \in Range(netQueue') : BeforeWaiting(n)'
    BY <1>8, <2>2, <2>4, <2>7 DEF Sequenced, InLine
  <2>9. ASSUME NEW i \in DOMAIN netQueue', NEW j \in DOMAIN netQueue', i < j
        PROVE  Follows(netQueue'[i], netQueue'[j])
    <3>1. i \in DOMAIN netQueue /\ netQueue'[i] = netQueue[i]
      <4>1. j <= Len(netQueue) + 1 /\ i \in Nat /\ j \in Nat
        BY <2>6, <2>9
      <4>2. i # Len(netQueue) + 1
        BY <2>6, <2>9, <4>1
      <4> QED
        BY <2>6, <4>2
    <3>2. CASE j \in DOMAIN netQueue /\ netQueue'[j] = netQueue[j]
      BY <2>9, <3>1, <3>2 DEF Sequenced, InLine
    <3>3. CASE netQueue'[j] = m
      BY <2>5, <3>1, <3>3 DEF Sequenced, InLine, Range
    <3> QED
      BY <2>6, <3>2, <3>3
  <2>10. \A h \in Range(heard) : BeforeWaiting(h[1])' /\ \A n \in Range(netQueue') : Follows(h[1], n)
    BY <1>8, <2>1, <2>5, <2>7 DEF Sequenced, InLine
  <2>11. InLine'
    BY <1>1, <2>8, <2>9, <2>10 DEF Sequenced, InLine, Follows
  <2> QED
    BY <1>1, <1>7, <2>11 DEF Sequenced, OnePort
<1> QED
  BY <1>1, <1>9, <1>10

LEMMA InLineEndNet ==
  ASSUME Kept, Sequenced, NEW t \in Threads, EndNet(t)
  PROVE  Sequenced'
<1>1. tstate[t] = "killed" /\ tstate' = [tstate EXCEPT ![t] = "dead"]
      /\ buffer' = [buffer EXCEPT ![t] = <<>>]
      /\ UNCHANGED <<netQueue, heard, nextMessage, bound, tport, socketBuffer>>
  BY DEF EndNet, Goto, netVars, socketVars
<1>2. /\ tstate'[t] = "dead" /\ buffer'[t] = <<>>
      /\ \A u \in Threads : u # t => tstate'[u] = tstate[u] /\ buffer'[u] = buffer[u]
  BY <1>1 DEF Kept, TypeOK
<1>3. Range(buffer'[t]) = {} /\ Waiting(t)' \subseteq Waiting(t)
      /\ \A u \in Threads : u # t => Waiting(u)' = Waiting(u)
  BY <1>1, <1>2 DEF Waiting, Range
<1>4. nextMessage \in Nat /\ nextMessage <= nextMessage' /\ bound \subseteq Threads
  BY <1>1 DEF Kept, TypeOK
<1>5. ASSUME NEW u \in Threads
      PROVE  Received(u)'
  <2>1. CASE u = t
    <3>1. Received(t)
      BY DEF Sequenced
    <3> QED
      BY <1>1, <1>2, <1>3, <2>1, <3>1 DEF Received
  <2>2. CASE u # t
    BY <1>1, <1>2, <1>4, <2>2, ReceivedKept DEF Sequenced, Kept
  <2> QED
    BY <2>1, <2>2
<1>6. \A n \in Message : BeforeWaiting(n) => BeforeWaiting(n)'
  BY <1>1, <1>3, <1>4 DEF BeforeWaiting
<1> QED
  BY <1>1, <1>5, <1>6, LineKept DEF Sequenced, OnePort, Kept

LEMMA InLineNetworkSends ==
  ASSUME Kept, Sequenced, NetworkSends
  PROVE  Sequenced'
<1>1. PICK t \in bound, what \in MessageTypes[nextMessage] :
        socketBuffer' = [socketBuffer EXCEPT ![t] = Append(@,
          [id |-> nextMessage, port |-> tport[t], type |-> what, session |-> session])]
  BY DEF NetworkSends
<1> PICK m : m = [id |-> nextMessage, port |-> tport[t], type |-> what, session |-> session]
  OBVIOUS
<1>2. nextMessage' = nextMessage + 1 /\ UNCHANGED <<netQueue, heard, bound, tport, tstate, buffer>>
  BY DEF NetworkSends, netVars, threadVars
<1>3. t \in Threads /\ nextMessage \in Nat /\ nextMessage <= nextMessage' /\ bound \subseteq Threads
  BY <1>2 DEF Kept, TypeOK
<1>4. /\ socketBuffer'[t] = Append(socketBuffer[t], m)
      /\ \A u \in Threads : u # t => socketBuffer'[u] = socketBuffer[u]
      /\ m.id = nextMessage /\ m.port = tport[t]
  BY <1>1, <1>3 DEF Kept, TypeOK
<1>5. Received(t) /\ socketBuffer[t] \in Seq(Message) /\ buffer[t] \in Seq(Message)
  BY <1>3 DEF Sequenced, Kept, TypeOK
<1> PICK s : s = Append(socketBuffer[t], m)
  OBVIOUS
<1>6. /\ \A i \in DOMAIN s : (i \in DOMAIN socketBuffer[t] /\ s[i] = socketBuffer[t][i])
                             \/ (i = Len(socketBuffer[t]) + 1 /\ s[i] = m)
      /\ \A i \in DOMAIN s : i \in Nat
      /\ DOMAIN socketBuffer[t] = 1 .. Len(socketBuffer[t]) /\ Len(socketBuffer[t]) \in Nat
  BY <1>5
<1>7. \A x \in Range(s) : x \in Range(socketBuffer[t]) \/ x = m
  BY <1>6 DEF Range
<1>8. Waiting(t)' \subseteq Waiting(t) \cup {m} /\ \A u \in Threads : u # t => Waiting(u)' = Waiting(u)
  BY <1>2, <1>4, <1>7 DEF Waiting
<1>9. \A x \in Waiting(t) : x.id \in Nat /\ x.id < nextMessage
  <2>1. \A x \in Waiting(t) : x \in Message
    BY <1>5 DEF Waiting, Range
  <2> QED
    BY <1>5, <2>1 DEF Received, Message
<1>10. Received(t)'
  <2>1. \A x \in Waiting(t)' : x.port = tport[t] /\ x.id < nextMessage'
    <3>1. \A x \in Waiting(t) : x.id < nextMessage + 1
      BY <1>3, <1>9
    <3> QED
      BY <1>2, <1>3, <1>4, <1>5, <1>8, <3>1 DEF Received
  <2>2. \A x \in Range(buffer[t]), y \in Range(s) : x.id <= y.id
    <3>1. \A x \in Range(buffer[t]) : x.id <= nextMessage
      BY <1>3, <1>9 DEF Waiting
    <3> QED
      BY <1>4, <1>5, <1>7, <3>1 DEF Received
  <2>3. ASSUME NEW i \in DOMAIN s, NEW j \in DOMAIN s, i < j
        PROVE  s[i].id <= s[j].id
    <3>1. i \in DOMAIN socketBuffer[t] /\ s[i] = socketBuffer[t][i]
      <4>1. j <= Len(socketBuffer[t]) + 1 /\ i \in Nat /\ j \in Nat
        BY <1>6, <2>3
      <4>2. i # Len(socketBuffer[t]) + 1
        BY <1>6, <2>3, <4>1
      <4> QED
        BY <1>6, <4>2
    <3>2. CASE j \in DOMAIN socketBuffer[t] /\ s[j] = socketBuffer[t][j]
      BY <1>5, <2>3, <3>1, <3>2 DEF Received
    <3>3. CASE s[j] = m
      <4>1. s[i] \in Waiting(t)
        BY <3>1 DEF Waiting, Range
      <4> QED
        BY <1>3, <1>4, <1>9, <3>3, <4>1
    <3> QED
      BY <1>6, <3>2, <3>3
  <2> QED
    BY <1>2, <1>4, <1>5, <2>1, <2>2, <2>3 DEF Received
<1>11. ASSUME NEW u \in Threads
       PROVE  Received(u)'
  <2>1. CASE u # t
    BY <1>2, <1>3, <1>4, <2>1, ReceivedKept DEF Sequenced, Kept
  <2> QED
    BY <1>10, <2>1
<1>12. ASSUME NEW n \in Message, BeforeWaiting(n)
       PROVE  BeforeWaiting(n)'
  <2>1. \A u \in bound' : \A x \in Waiting(u)' :
           \/ u \in bound /\ tport'[u] = tport[u] /\ x \in Waiting(u)
           \/ nextMessage <= x.id
    BY <1>2, <1>3, <1>4, <1>8
  <2> QED
    BY <1>3, <1>12, <2>1, BeforeKept DEF Kept
<1> QED
  BY <1>2, <1>11, <1>12, LineKept DEF Sequenced, OnePort, Kept

LEMMA OrderKeptStep ==
  ASSUME TypeOK, InBounds, TypeOK', InBounds', Timely, OrderKept, [Next]_vars
  PROVE  OrderKept'
<1>0. Kept
  BY DEF Kept
<1>1. CASE UNCHANGED <<netQueue, heard, nextMessage, buffer, socketBuffer, bound, tport, tstate, raced>>
  BY <1>1, LineUndisturbed DEF OrderKept
<1>2. UNCHANGED vars =>
        UNCHANGED <<netQueue, heard, nextMessage, buffer, socketBuffer, bound, tport, tstate, raced>>
  BY DEF vars, netVars, threadVars, socketVars
<1> SUFFICES ASSUME Next, ~raced'
             PROVE  Sequenced'
  BY <1>1, <1>2 DEF OrderKept
<1>3. ~raced
  BY DEF Next, Main, RequestNET, StartThread, Run, TimeLeft, Look, CleanNet, CloseAndKill, AllKilled,
         JoinThread, AllJoined, ReadPast, NextSession, Handler, OpenSocket, WriteQty, StoreSocket, Receive,
         SendToQueue, EndNet, NetworkSends
<1>4. Sequenced
  BY <1>3 DEF OrderKept
<1>5. PICK lo \in 0 .. created : Orderly(lo)
  BY <1>3 DEF Timely, Next, Going
<1>6. CASE RequestNET \/ Look \/ CloseAndKill \/ NetworkSends
  BY <1>0, <1>4, <1>5, <1>6, InLineRequestNET, InLineLook, InLineCloseAndKill, InLineNetworkSends
<1>7. CASE CleanNet
  <2>1. netQueue' = <<>>
        /\ UNCHANGED <<heard, nextMessage, buffer, socketBuffer, bound, tport, tstate>>
    BY <1>7 DEF CleanNet, threadVars, socketVars
  <2> QED
    BY <1>4, <2>1, LineUndisturbed
<1>8. CASE Run \/ TimeLeft \/ AllKilled \/ JoinThread \/ ReadPast \/ AllJoined \/ NextSession
  <2>1. UNCHANGED <<netQueue, heard, nextMessage, buffer, socketBuffer, bound, tport, tstate>>
    BY <1>8 DEF Run, TimeLeft, AllKilled, JoinThread, ReadPast, AllJoined, NextSession, netVars, threadVars, socketVars
  <2> QED
    BY <1>4, <2>1, LineUndisturbed
<1>9. ASSUME NEW t \in Threads, Handler(t)
      PROVE  Sequenced'
  <2>1. CASE OpenSocket(t) \/ WriteQty(t)
    <3>1. UNCHANGED <<netQueue, heard, nextMessage, buffer, socketBuffer, bound, tport>>
          /\ tstate[t] \in {"start", "write"}
          /\ \E to \in {"write", "store"} : tstate' = [tstate EXCEPT ![t] = to]
      BY <2>1 DEF OpenSocket, WriteQty, Goto, netVars, socketVars
    <3>2. buffer[t] = <<>>
      BY <1>4, <3>1 DEF Sequenced, Received
    <3>3. tstate'[t] # "send" /\ \A u \in Threads : u # t => tstate'[u] = tstate[u]
      BY <3>1 DEF TypeOK
    <3> QED
      BY <1>4, <3>1, <3>2, <3>3, LineUndisturbed
  <2>2. CASE StoreSocket(t) \/ Receive(t) \/ SendToQueue(t) \/ EndNet(t)
    BY <1>0, <1>4, <2>2, InLineStoreSocket, InLineReceive, InLineSendToQueue, InLineEndNet
  <2> QED
    BY <1>9, <2>1, <2>2 DEF Handler
<1> QED
  BY <1>6, <1>7, <1>8, <1>9 DEF Next, Main

LEMMA InOrderInvariant ==
  Spec => []OrderKept
<1>1. Init => OrderKept
  <2> SUFFICES ASSUME Init
               PROVE  Sequenced
    BY DEF OrderKept
  <2>1. netQueue = <<>> /\ heard = <<>> /\ bound = {}
        /\ \A t \in Threads : buffer[t] = <<>> /\ socketBuffer[t] = <<>> /\ tstate[t] = "none"
    BY DEF Init
  <2>2. Range(<<>>) = {} /\ DOMAIN <<>> = {}
    BY DEF Range
  <2>3. \A t \in Threads : Received(t)
    BY <2>1, <2>2 DEF Received, Waiting
  <2>4. InLine
    BY <2>1, <2>2 DEF InLine
  <2> QED
    BY <2>1, <2>3, <2>4 DEF Sequenced, OnePort
<1> QED
  BY <1>1, TypeInvariant, NobodyLate, OrderKeptStep, PTL DEF Spec

(* The messages of a port are heard in the order in which they were sent,  *)
(* through the socket, the thread's buffer, the queue and alertOfMsg, as   *)
(* long as no thread was late.                                             *)
THEOREM HeardInOrder ==
  Spec => []InOrder
<1>1. TypeOK /\ OrderKept => InOrder
  BY DEF OrderKept, Sequenced, InLine, Follows, InOrder
<1> QED
  BY <1>1, TypeInvariant, InOrderInvariant, PTL

-----------------------------------------------------------------------------
(* Who listens: the n-th request for a port is the n-th listener of the    *)
(* port, as long as there is room.                                         *)
NewListener(n) == [atomic |-> Requests[session][n].atomic, type |-> Requests[session][n].type]

Places(p, n) == IF RequestsAhead(p, n) < MaxListeners THEN RequestsAhead(p, n) ELSE MaxListeners

ListedUpTo(p, n) ==
  /\ Len(listeners[p]) = Places(p, n + 1)
  /\ \A i \in 1 .. n :
       (Requests[session][i].port = p /\ RequestsAhead(p, i) < MaxListeners) =>
         listeners[p][RequestsAhead(p, i) + 1] = NewListener(i)

Listed ==
  /\ main = "init" => k <= Len(Requests[session]) + 1 /\ \A p \in Ports : ListedUpTo(p, k - 1)
  /\ main \in {"run", "look"} => \A p \in Ports : ListedUpTo(p, Len(Requests[session]))
  /\ main \in {"kill", "join", "over"} => \A p \in Ports : listeners[p] = <<>>

LEMMA AheadStep ==
  ASSUME NEW p, NEW n \in Nat, n > 0
  PROVE  /\ RequestsAhead(p, 1) = 0 /\ RequestsAhead(p, n) \in Nat
         /\ RequestsAhead(p, n + 1) = IF Requests[session][n].port = p THEN RequestsAhead(p, n) + 1
                                      ELSE RequestsAhead(p, n)
<1> DEFINE Ahead(i) == {j \in 1 .. i - 1 : Requests[session][j].port = p}
<1>1. Ahead(1) = {}
  OBVIOUS
<1>2. IsFiniteSet(Ahead(n)) /\ n \notin Ahead(n)
  <2>1. IsFiniteSet(1 .. n - 1)
    BY FS_Interval
  <2>2. Ahead(n) \subseteq 1 .. n - 1
    OBVIOUS
  <2> QED
    BY <2>1, <2>2, FS_Subset
<1>3. Ahead(n + 1) = IF Requests[session][n].port = p THEN Ahead(n) \cup {n} ELSE Ahead(n)
  OBVIOUS
<1>4. RequestsAhead(p, 1) = Cardinality(Ahead(1)) /\ RequestsAhead(p, n) = Cardinality(Ahead(n))
      /\ RequestsAhead(p, n + 1) = Cardinality(Ahead(n + 1))
  BY DEF RequestsAhead
<1> HIDE DEF Ahead
<1>5. Cardinality(Ahead(1)) = 0
  BY <1>1, FS_EmptySet
<1>6. Cardinality(Ahead(n)) \in Nat
  BY <1>2, FS_CardinalityType
<1>7. Cardinality(Ahead(n) \cup {n}) = Cardinality(Ahead(n)) + 1
  BY <1>2, FS_AddElement
<1> QED
  BY <1>3, <1>4, <1>5, <1>6, <1>7

LEMMA AheadGrows ==
  ASSUME NEW p, NEW n \in Nat, NEW i \in 1 .. n - 1, Requests[session][i].port = p
  PROVE  RequestsAhead(p, i) < RequestsAhead(p, n)
<1> DEFINE Ahead(j) == {l \in 1 .. j - 1 : Requests[session][l].port = p}
<1>1. Ahead(i) \cup {i} \subseteq Ahead(n) /\ i \notin Ahead(i)
  OBVIOUS
<1>2. IsFiniteSet(Ahead(n)) /\ IsFiniteSet(Ahead(i))
  <2>1. IsFiniteSet(1 .. n - 1) /\ IsFiniteSet(1 .. i - 1)
    BY FS_Interval
  <2>2. Ahead(n) \subseteq 1 .. n - 1 /\ Ahead(i) \subseteq 1 .. i - 1
    OBVIOUS
  <2> QED
    BY <2>1, <2>2, FS_Subset
<1>3. RequestsAhead(p, i) = Cardinality(Ahead(i)) /\ RequestsAhead(p, n) = Cardinality(Ahead(n))
  BY DEF RequestsAhead
<1> HIDE DEF Ahead
<1>4. Cardinality(Ahead(i) \cup {i}) = Cardinality(Ahead(i)) + 1
  BY <1>1, <1>2, FS_AddElement
<1>5. Cardinality(Ahead(i) \cup {i}) <= Cardinality(Ahead(n))
  BY <1>1, <1>2, FS_Subset
<1> QED
  BY <1>2, <1>3, <1>4, <1>5, FS_CardinalityType

LEMMA ListedFirst ==
  ASSUME NEW p \in Ports
  PROVE  /\ listeners[p] = <<>> => ListedUpTo(p, 0)
         /\ listeners'[p] = <<>> => ListedUpTo(p, 0)'
<1>1. RequestsAhead(p, 1) = 0 /\ RequestsAhead(p, 1)' = 0
  BY FS_EmptySet DEF RequestsAhead
<1>2. Places(p, 1) = 0 /\ Places(p, 1)' = 0
  BY <1>1, NetAssumption DEF Places
<1> QED
  BY <1>2 DEF ListedUpTo

(* One more request.                                                       *)
LEMMA ListedMore ==
  ASSUME TypeOK, NEW p \in Ports, NEW n \in Nat \ {0}, ListedUpTo(p, n - 1),
         session' = session,
         listeners'[p] = IF Requests[session][n].port = p
                         THEN AddListener(listeners[p], NewListener(n)) ELSE listeners[p]
  PROVE  ListedUpTo(p, n)'
<1> PICK before : before = listeners[p]
  OBVIOUS
<1> PICK added : added = NewListener(n)
  OBVIOUS
<1>1. \A i \in Nat : i > 0 => RequestsAhead(p, i) \in Nat
  BY AheadStep
<1>2. RequestsAhead(p, n + 1) = IF Requests[session][n].port = p THEN RequestsAhead(p, n) + 1
                                ELSE RequestsAhead(p, n)
  BY AheadStep
<1>3. before \in Seq(Listener) /\ Len(before) \in Nat /\ (n - 1) + 1 = n
  BY DEF TypeOK
<1>4. Len(before) = Places(p, n)
  BY <1>3 DEF ListedUpTo
<1>5. \A i \in 1 .. n - 1 :
        (Requests[session][i].port = p /\ RequestsAhead(p, i) < MaxListeners) =>
          before[RequestsAhead(p, i) + 1] = NewListener(i)
  BY DEF ListedUpTo
<1>6. /\ \A i : NewListener(i)' = NewListener(i)
      /\ \A i : RequestsAhead(p, i)' = RequestsAhead(p, i) /\ Places(p, i)' = Places(p, i)
  BY DEF NewListener, RequestsAhead, Places
<1>7. MaxListeners \in Nat \ {0}
  BY NetAssumption
<1>8. CASE Requests[session][n].port = p /\ RequestsAhead(p, n) < MaxListeners
  <2>1. Len(before) = RequestsAhead(p, n) /\ RequestsAhead(p, n) \in Nat
    BY <1>1, <1>4, <1>8 DEF Places
  <2>2. listeners'[p] = Append(before, added)
    <3>1. listeners'[p] = AddListener(before, added)
      BY <1>8
    <3> QED
      BY <1>8, <2>1, <3>1 DEF AddListener
  <2>3. Len(Append(before, added)) = Places(p, n + 1)
    BY <1>2, <1>3, <1>7, <1>8, <2>1 DEF Places
  <2>4. ASSUME NEW i \in 1 .. n,
               Requests[session][i].port = p /\ RequestsAhead(p, i) < MaxListeners
        PROVE  Append(before, added)[RequestsAhead(p, i) + 1] = NewListener(i)
    <3>1. CASE i = n
      BY <1>3, <2>1, <3>1
    <3>2. CASE i # n
      <4>1. i \in 1 .. n - 1 /\ RequestsAhead(p, i) \in Nat
        BY <1>1, <3>2
      <4>2. RequestsAhead(p, i) < RequestsAhead(p, n)
        BY <2>4, <4>1, AheadGrows
      <4>3. RequestsAhead(p, i) + 1 \in 1 .. Len(before)
        BY <2>1, <4>1, <4>2
      <4>4. Append(before, added)[RequestsAhead(p, i) + 1] = before[RequestsAhead(p, i) + 1]
        BY <1>3, <4>3
      <4> QED
        BY <1>5, <2>4, <4>1, <4>4
    <3> QED
      BY <3>1, <3>2
  <2> QED
    BY <1>6, <2>2, <2>3, <2>4 DEF ListedUpTo
<1>9. CASE ~(Requests[session][n].port = p /\ RequestsAhead(p, n) < MaxListeners)
  <2>1. listeners'[p] = before
    <3>1. CASE Requests[session][n].port = p
      <4>1. Len(before) = MaxListeners
        BY <1>4, <1>9, <3>1 DEF Places
      <4> QED
        BY <3>1, <4>1, <1>7 DEF AddListener
    <3> QED
      BY <3>1
  <2>2. Len(before) = Places(p, n + 1)
    BY <1>1, <1>2, <1>4, <1>7, <1>9 DEF Places
  <2>3. ASSUME NEW i \in 1 .. n,
               Requests[session][i].port = p /\ RequestsAhead(p, i) < MaxListeners
        PROVE  before[RequestsAhead(p, i) + 1] = NewListener(i)
    <3>1. i \in 1 .. n - 1
      BY <1>9, <2>3
    <3> QED
      BY <1>5, <2>3, <3>1
  <2> QED
    BY <1>6, <2>1, <2>2, <2>3 DEF ListedUpTo
<1> QED
  BY <1>8, <1>9

(* Every other step leaves the list, the requests and the count alone.     *)
LEMMA ListedKept ==
  ASSUME UNCHANGED <<session, listeners>>, NEW p, NEW n, ListedUpTo(p, n)
  PROVE  ListedUpTo(p, n)'
<1>1. \A i : RequestsAhead(p, i)' = RequestsAhead(p, i)
  BY DEF RequestsAhead
<1>2. Places(p, n + 1)' = Places(p, n + 1) /\ \A i : NewListener(i)' = NewListener(i)
  BY <1>1 DEF Places, NewListener
<1> QED
  BY <1>1, <1>2 DEF ListedUpTo

LEMMA ListedUnchanged ==
  ASSUME Listed, UNCHANGED <<main, k, session, listeners>>
  PROVE  Listed'
BY ListedKept DEF Listed

LEMMA ListedRequestNET ==
  ASSUME TypeOK, TypeOK', Listed, RequestNET
  PROVE  Listed'
<1>1. main = "init" /\ main' = "init" /\ session' = session /\ k' = k + 1
      /\ k <= Len(Requests[session]) /\ k \in Nat \ {0} /\ Len(Requests[session]) \in Nat
  BY NetAssumption DEF RequestNET, TypeOK, Sessions
<1>2. listeners' = [listeners EXCEPT ![Requests[session][k].port] = AddListener(@, NewListener(k))]
  BY DEF RequestNET, NewListener
<1>3. k' <= Len(Requests[session]) + 1 /\ k' - 1 = k
  BY <1>1
<1> PICK n : n = k
  OBVIOUS
<1>4. ASSUME NEW p \in Ports
      PROVE  ListedUpTo(p, n)'
  <2>1. ListedUpTo(p, n - 1)
    BY <1>1 DEF Listed
  <2>2. listeners'[p] = IF Requests[session][n].port = p
                        THEN AddListener(listeners[p], NewListener(n)) ELSE listeners[p]
    BY <1>2 DEF TypeOK
  <2> QED
    BY <1>1, <2>1, <2>2, ListedMore
<1> QED
  BY <1>1, <1>3, <1>4, Zenon DEF Listed

LEMMA ListedStep ==
  ASSUME TypeOK, TypeOK', Listed, [Next]_vars
  PROVE  Listed'
<1>1. CASE RequestNET
  BY <1>1, ListedRequestNET
<1>2. CASE Run
  <2>1. main = "init" /\ main' = "run" /\ k > Len(Requests[session])
        /\ UNCHANGED <<k, session, listeners>>
    BY <1>2 DEF Run, netVars
  <2>2. k - 1 = Len(Requests[session])
    <3>1. k \in Nat /\ session \in Sessions
      BY DEF TypeOK
    <3>2. Len(Requests[session]) \in Nat
      BY <3>1, NetAssumption DEF Sessions
    <3>3. k <= Len(Requests[session]) + 1
      BY <2>1 DEF Listed
    <3> QED
      BY <2>1, <3>1, <3>2, <3>3
  <2>3. \A p \in Ports : ListedUpTo(p, Len(Requests[session]))
    BY <2>1, <2>2 DEF Listed
  <2>4. \A p \in Ports : ListedUpTo(p, Len(Requests[session]))'
    BY <2>1, <2>3, ListedKept
  <2> QED
    BY <2>1, <2>4 DEF Listed
<1>3. CASE CleanNet
  BY <1>3 DEF CleanNet, Listed
<1>4. CASE NextSession
  <2>1. main = "over" /\ main' = "init" /\ k' = 1 /\ listeners' = listeners /\ session' \in Sessions
    BY <1>4 DEF NextSession, netVars
  <2>2. \A p \in Ports : ListedUpTo(p, 0)'
    BY <2>1, ListedFirst DEF Listed
  <2>3. k' <= Len(Requests[session']) + 1 /\ k' - 1 = 0
    BY <2>1, NetAssumption DEF Sessions
  <2> QED
    BY <2>1, <2>2, <2>3 DEF Listed
<1>5. CASE CloseAndKill \/ AllKilled \/ JoinThread \/ AllJoined
  <2>1. listeners' = listeners /\ main \in {"kill", "join"} /\ main' \in {"kill", "join", "over"}
    BY <1>5 DEF CloseAndKill, AllKilled, JoinThread, AllJoined, netVars
  <2> QED
    BY <2>1 DEF Listed
<1>7. CASE TimeLeft \/ Look
  <2>1. main \in {"run", "look"} /\ main' \in {"run", "look"} /\ UNCHANGED <<k, session, listeners>>
    BY <1>7 DEF TimeLeft, Look, netVars
  <2>2. \A p \in Ports : ListedUpTo(p, Len(Requests[session]))
    BY <2>1 DEF Listed
  <2>3. \A p \in Ports : ListedUpTo(p, Len(Requests[session]))'
    BY <2>1, <2>2, ListedKept
  <2> QED
    BY <2>1, <2>3 DEF Listed
<1>6. CASE ReadPast \/ (\E t \in Threads : Handler(t)) \/ NetworkSends \/ UNCHANGED vars
  <2>1. UNCHANGED <<main, k, session, listeners>>
    BY <1>6 DEF ReadPast, Handler, OpenSocket, WriteQty, StoreSocket, Receive, SendToQueue, EndNet,
                NetworkSends, vars, mainVars, netVars
  <2> QED
    BY <2>1, ListedUnchanged
<1> QED
  BY <1>1, <1>2, <1>3, <1>4, <1>5, <1>6, <1>7 DEF Next, Main

(* So Told, which goes through the list, tells those whom the requests     *)
(* name.                                                                   *)
LEMMA ToHearStep ==
  ASSUME NEW m
  PROVE  \E hear :
           /\ hear[0] = <<>> /\ ToHear(m) = hear[Len(Requests[session])]
           /\ \A n \in Nat : hear[n + 1] =
                IF /\ Requests[session][n + 1].port = m.port
                   /\ RequestsAhead(m.port, n + 1) < MaxListeners
                   /\ Listens(Requests[session][n + 1], m)
                THEN Append(hear[n], <<m, Requests[session][n + 1].atomic>>)
                ELSE hear[n]
<1> PICK asked : asked = Requests[session]
  OBVIOUS
<1> DEFINE hears(n) == /\ asked[n].port = m.port /\ RequestsAhead(m.port, n) < MaxListeners
                       /\ AnyType \in {asked[n].type, m.type} \/ asked[n].type = m.type
           toHear[n \in Nat] ==
             IF n = 0 THEN <<>>
             ELSE IF /\ asked[n].port = m.port /\ RequestsAhead(m.port, n) < MaxListeners
                     /\ AnyType \in {asked[n].type, m.type} \/ asked[n].type = m.type
                  THEN Append(toHear[n - 1], <<m, asked[n].atomic>>)
             ELSE toHear[n - 1]
           Pair(n) == <<m, asked[n].atomic>>
           at      == [n \in Nat |-> Pair(n)]
           chosen  == {n \in Nat : hears(n)}
<1>1. ToHear(m) = toHear[Len(asked)]
  BY DEF ToHear
<1>2. PICK f : f = [n \in Nat |-> IF n = 0 THEN <<>>
                                   ELSE IF n \in chosen THEN Append(f[n - 1], at[n])
                                   ELSE f[n - 1]]
  <2> DEFINE S == Range(at)
  <2>1. chosen \in SUBSET Nat /\ \A n \in chosen : n > 0 => at[n] \in S
    <3> HIDE DEF Pair
    <3> QED
      BY DEF Range
  <2> HIDE DEF chosen, at, S
  <2>2. PICK f : Gathers(f, S, chosen, at)
    BY <2>1, Gathering, Zenon
  <2> QED
    BY <2>2, Zenon DEF Gathers
<1>3. f = [n \in Nat |->
             IF n = 0 THEN <<>>
             ELSE IF /\ asked[n].port = m.port /\ RequestsAhead(m.port, n) < MaxListeners
                     /\ AnyType \in {asked[n].type, m.type} \/ asked[n].type = m.type
                  THEN Append(f[n - 1], <<m, asked[n].atomic>>)
             ELSE f[n - 1]]
  <2> DEFINE Gathered(n) == IF n = 0 THEN <<>>
                            ELSE IF n \in chosen THEN Append(f[n - 1], at[n]) ELSE f[n - 1]
             Heard(n)    == IF n = 0 THEN <<>>
                            ELSE IF /\ asked[n].port = m.port
                                    /\ RequestsAhead(m.port, n) < MaxListeners
                                    /\ AnyType \in {asked[n].type, m.type} \/ asked[n].type = m.type
                                 THEN Append(f[n - 1], <<m, asked[n].atomic>>)
                            ELSE f[n - 1]
  <2>1. \A n \in Nat : n \in chosen <=> hears(n)
    OBVIOUS
  <2>2. ASSUME NEW n \in Nat
        PROVE  Gathered(n) = Heard(n)
    <3>1. at[n] = <<m, asked[n].atomic>>
      OBVIOUS
    <3> HIDE DEF chosen, at
    <3> QED
      BY <2>1, <3>1
  <2>3. [n \in Nat |-> Gathered(n)] = [n \in Nat |-> Heard(n)]
    <3> HIDE DEF Gathered, Heard
    <3> QED
      BY <2>2
  <2> HIDE DEF chosen, at
  <2> QED
    BY <1>2, <2>3, Zenon
<1>4. toHear = [n \in Nat |->
             IF n = 0 THEN <<>>
             ELSE IF /\ asked[n].port = m.port /\ RequestsAhead(m.port, n) < MaxListeners
                     /\ AnyType \in {asked[n].type, m.type} \/ asked[n].type = m.type
                  THEN Append(toHear[n - 1], <<m, asked[n].atomic>>)
             ELSE toHear[n - 1]]
  BY <1>3
<1> HIDE DEF toHear
<1>5. ASSUME NEW n \in Nat
      PROVE  toHear[n + 1] = IF hears(n + 1) THEN Append(toHear[n], <<m, asked[n + 1].atomic>>)
                             ELSE toHear[n]
  <2>1. n + 1 \in Nat /\ n + 1 # 0 /\ (n + 1) - 1 = n
    OBVIOUS
  <2> QED
    BY <1>4, <2>1
<1>6. toHear[0] = <<>>
  BY <1>4
<1>7. \A n : AnyType \in {asked[n].type, m.type} \/ asked[n].type = m.type <=> Listens(asked[n], m)
  BY DEF Listens
<1> QED
  BY <1>1, <1>5, <1>6, <1>7

LEMMA ToldToThoseWhoAsked ==
  ASSUME TypeOK, NEW m \in Message, ListedUpTo(m.port, Len(Requests[session]))
  PROVE  Told(m) = ToHear(m)
<1> PICK p : p = m.port
  OBVIOUS
<1> PICK L : L = Len(Requests[session])
  OBVIOUS
<1>1. p \in Ports /\ L \in Nat /\ MaxListeners \in Nat \ {0} /\ listeners \in [Ports -> Seq(Listener)]
  BY NetAssumption DEF Message, TypeOK, Sessions
<1>2. PICK told :
        /\ told[0] = <<>> /\ Told(m) = told[Len(listeners[m.port])]
        /\ \A n \in Nat : told[n + 1] = IF Listens(listeners[m.port][n + 1], m)
                                       THEN Append(told[n], <<m, listeners[m.port][n + 1].atomic>>)
                                       ELSE told[n]
  BY <1>1, ToldStep, Zenon
<1>0. PICK hear : /\ hear[0] = <<>> /\ ToHear(m) = hear[Len(Requests[session])]
                  /\ \A n \in Nat : hear[n + 1] =
                       IF /\ Requests[session][n + 1].port = m.port
                          /\ RequestsAhead(m.port, n + 1) < MaxListeners
                          /\ Listens(Requests[session][n + 1], m)
                       THEN Append(hear[n], <<m, Requests[session][n + 1].atomic>>)
                       ELSE hear[n]
  BY ToHearStep, Zenon
<1>3. /\ hear[0] = <<>> /\ ToHear(m) = hear[L]
      /\ \A n \in Nat : hear[n + 1] =
           IF /\ Requests[session][n + 1].port = p
              /\ RequestsAhead(p, n + 1) < MaxListeners
              /\ Listens(Requests[session][n + 1], m)
           THEN Append(hear[n], <<m, Requests[session][n + 1].atomic>>)
           ELSE hear[n]
  BY <1>0, Zenon
<1>4. \A n \in Nat : /\ RequestsAhead(p, n + 1) \in Nat
                     /\ RequestsAhead(p, n + 1 + 1) = IF Requests[session][n + 1].port = p
                                                      THEN RequestsAhead(p, n + 1) + 1
                                                      ELSE RequestsAhead(p, n + 1)
  <2> SUFFICES ASSUME NEW n \in Nat
               PROVE  /\ RequestsAhead(p, n + 1) \in Nat
                      /\ RequestsAhead(p, n + 1 + 1) = IF Requests[session][n + 1].port = p
                                                       THEN RequestsAhead(p, n + 1) + 1
                                                       ELSE RequestsAhead(p, n + 1)
    OBVIOUS
  <2>1. n + 1 \in Nat /\ n + 1 > 0
    OBVIOUS
  <2> QED
    BY <2>1, AheadStep
<1> DEFINE T == {n \in Nat : n <= L => hear[n] = told[Places(p, n + 1)]}
<1>5. 0 \in T
  <2>1. Places(p, 0 + 1) = 0
    BY <1>1, AheadStep DEF Places
  <2> QED
    BY <1>2, <1>3, <2>1
<1>6. ASSUME NEW n \in Nat, n \in T
      PROVE  n + 1 \in T
  <2> SUFFICES ASSUME n + 1 <= L
               PROVE  hear[n + 1] = told[Places(p, n + 1 + 1)]
    OBVIOUS
  <2> PICK a : a = RequestsAhead(p, n + 1)
    OBVIOUS
  <2>1. hear[n] = told[Places(p, n + 1)]
    BY <1>1, <1>6
  <2>2. a \in Nat /\ Places(p, n + 1) = IF a < MaxListeners THEN a ELSE MaxListeners
    BY <1>4 DEF Places
  <2>3. CASE Requests[session][n + 1].port = p /\ a < MaxListeners
    <3>1. Places(p, n + 1 + 1) = a + 1
      BY <1>1, <1>4, <2>2, <2>3 DEF Places
    <3>2. listeners[p][a + 1] = NewListener(n + 1)
      BY <1>1, <2>3 DEF ListedUpTo
    <3>3. /\ listeners[p][a + 1].atomic = Requests[session][n + 1].atomic
          /\ Listens(listeners[p][a + 1], m) <=> Listens(Requests[session][n + 1], m)
      BY <3>2 DEF NewListener, Listens
    <3>4. told[a + 1] = IF Listens(listeners[p][a + 1], m)
                        THEN Append(told[a], <<m, listeners[p][a + 1].atomic>>) ELSE told[a]
      BY <1>2, <2>2
    <3>5. hear[n + 1] = IF Listens(Requests[session][n + 1], m)
                        THEN Append(hear[n], <<m, Requests[session][n + 1].atomic>>) ELSE hear[n]
      BY <1>3, <2>3
    <3>6. hear[n] = told[a]
      BY <2>1, <2>2, <2>3
    <3> QED
      BY <3>1, <3>3, <3>4, <3>5, <3>6, Zenon
  <2>4. CASE ~(Requests[session][n + 1].port = p /\ a < MaxListeners)
    <3>1. hear[n + 1] = hear[n]
      BY <1>3, <2>4
    <3>2. Places(p, n + 1 + 1) = Places(p, n + 1)
      BY <1>1, <1>4, <2>2, <2>4 DEF Places
    <3> QED
      BY <2>1, <3>1, <3>2, Zenon
  <2> QED
    BY <2>3, <2>4
<1>7. hear[L] = told[Places(p, L + 1)]
  <2>1. Nat \subseteq T
    <3> HIDE DEF T
    <3> QED
      BY <1>5, <1>6, InductiveSet
  <2> QED
    BY <1>1, <2>1
<1>8. Len(listeners[p]) = Places(p, L + 1)
  BY DEF ListedUpTo
<1>9. Told(m) = told[Places(p, L + 1)]
  BY <1>2, <1>8
<1> QED
  BY <1>3, <1>7, <1>9, Zenon

-----------------------------------------------------------------------------
(* What is under way was sent during this simulation; nothing is put into  *)
(* the queue between cleanNet and the next RequestNET.                     *)
SentNow(s) == \A m \in Range(s) : m.session = session

OfThisSession ==
  /\ ~isNetInitialized => netQueue = <<>>
  /\ main \in {"kill", "join", "over"} => ~isNetInitialized
  /\ ~raced => /\ SentNow(netQueue)
               /\ \A t \in Threads : SentNow(buffer[t]) /\ SentNow(socketBuffer[t])

LEMMA SentNowFacts ==
  /\ Range(<<>>) = {}
  /\ \A s \in Seq(Message) : s # <<>> =>
       /\ Head(s) \in Range(s) /\ Range(Tail(s)) \subseteq Range(s) /\ Range(<<Head(s)>>) \subseteq Range(s)
  /\ \A s \in Seq(Message), m \in Message : Range(Append(s, m)) \subseteq Range(s) \cup {m}
<1>1. Range(<<>>) = {}
  BY DEF Range
<1>2. ASSUME NEW s \in Seq(Message), s # <<>>
      PROVE  /\ Head(s) \in Range(s) /\ Range(Tail(s)) \subseteq Range(s)
             /\ Range(<<Head(s)>>) \subseteq Range(s)
  <2>1. 1 \in DOMAIN s /\ Head(s) = s[1]
    BY <1>2
  <2>2. Head(s) \in Range(s)
    BY <2>1 DEF Range
  <2>3. \A i \in DOMAIN Tail(s) : i + 1 \in DOMAIN s /\ Tail(s)[i] = s[i + 1]
    BY <1>2
  <2>4. Range(<<Head(s)>>) = {Head(s)}
    BY DEF Range
  <2> QED
    BY <2>2, <2>3, <2>4 DEF Range
<1>3. ASSUME NEW s \in Seq(Message), NEW m \in Message
      PROVE  Range(Append(s, m)) \subseteq Range(s) \cup {m}
  <2>1. \A i \in DOMAIN Append(s, m) :
           (i \in DOMAIN s /\ Append(s, m)[i] = s[i]) \/ Append(s, m)[i] = m
    OBVIOUS
  <2> QED
    BY <2>1 DEF Range
<1> QED
  BY <1>1, <1>2, <1>3

LEMMA MessageSent ==
  ASSUME TypeOK, NetworkSends, NEW t \in bound, NEW what \in MessageTypes[nextMessage]
  PROVE  [id |-> nextMessage, port |-> tport[t], type |-> what, session |-> session] \in Message
<1>1. nextMessage \in Nat /\ tport[t] \in Ports /\ session \in Sessions
  BY DEF TypeOK
<1>2. what \in Types
  BY NetAssumption DEF NetworkSends, Messages
<1> QED
  BY <1>1, <1>2 DEF Message

LEMMA OfThisSessionStep ==
  ASSUME TypeOK, InBounds, TypeOK', Timely, OrderKept, OfThisSession, [Next]_vars
  PROVE  OfThisSession'
<1>1. /\ \A s : Range(s)' = Range(s')
      /\ netQueue \in Seq(Message)
      /\ \A t \in Threads : buffer[t] \in Seq(Message) /\ socketBuffer[t] \in Seq(Message)
  BY DEF TypeOK
<1>2. CASE \/ RequestNET \/ Run \/ TimeLeft \/ AllKilled \/ JoinThread \/ ReadPast \/ AllJoined
         \/ UNCHANGED vars
  <2>1. /\ UNCHANGED <<session, buffer, socketBuffer>>
        /\ netQueue' = netQueue \/ netQueue' = <<>>
    BY <1>2 DEF RequestNET, Run, TimeLeft, AllKilled, JoinThread, ReadPast, AllJoined, vars,
                mainVars, netVars, threadVars, socketVars
  <2>2. ~raced' => ~raced
    BY <1>2 DEF RequestNET, StartThread, Run, TimeLeft, AllKilled, JoinThread, ReadPast, AllJoined,
                vars
  <2>3. CASE RequestNET
    BY <2>1, <2>2, <2>3, SentNowFacts DEF RequestNET, OfThisSession, SentNow
  <2>4. CASE ~RequestNET
    <3>1. UNCHANGED <<isNetInitialized, netQueue>>
          /\ (main' \in {"kill", "join", "over"} => main \in {"kill", "join", "over"})
      BY <1>2, <2>4 DEF Run, TimeLeft, AllKilled, JoinThread, ReadPast, AllJoined, vars,
                        mainVars, netVars
    <3> QED
      BY <2>1, <2>2, <3>1 DEF OfThisSession, SentNow
  <2> QED
    BY <2>3, <2>4
<1>3. CASE Look
  <2>1. /\ UNCHANGED <<session, isNetInitialized, raced, buffer, socketBuffer>>
        /\ main' = "run"
        /\ netQueue' = netQueue \/ (netQueue # <<>> /\ netQueue' = Tail(netQueue) /\ isNetInitialized)
    BY <1>3 DEF Look, threadVars, socketVars
  <2>2. Range(netQueue') \subseteq Range(netQueue)
    BY <1>1, <2>1, SentNowFacts
  <2> QED
    BY <2>1, <2>2 DEF OfThisSession, SentNow
<1>4. CASE CleanNet
  <2>1. netQueue' = <<>> /\ ~isNetInitialized' /\ UNCHANGED <<session, buffer, socketBuffer>>
        /\ (~raced' => ~raced)
    BY <1>4 DEF CleanNet, threadVars, socketVars
  <2> QED
    BY <2>1, SentNowFacts DEF OfThisSession, SentNow
<1>5. CASE CloseAndKill
  <2>1. /\ UNCHANGED <<session, isNetInitialized, netQueue, raced, buffer>> /\ main = "kill"
        /\ \A t \in Threads : socketBuffer'[t] = socketBuffer[t] \/ socketBuffer'[t] = <<>>
    BY <1>5 DEF CloseAndKill, netVars
  <2> QED
    BY <2>1, SentNowFacts DEF OfThisSession, SentNow
<1>6. CASE NextSession
  <2>1. main = "over" /\ main' = "init"
        /\ UNCHANGED <<isNetInitialized, netQueue, raced, buffer, socketBuffer>>
    BY <1>6 DEF NextSession, netVars, threadVars, socketVars
  <2>2. ASSUME ~raced, NEW t \in Threads
        PROVE  buffer[t] = <<>> /\ socketBuffer[t] = <<>>
    <3>0. ~overrun
      BY <2>1 DEF Next, Going, vars, mainVars
    <3>1. PICK lo \in 0 .. created : Orderly(lo)
      BY <2>2, <3>0 DEF Timely
    <3>2. Own(lo) = {} /\ bound = {}
      BY <2>1, <3>1 DEF Orderly, Own, TypeOK
    <3>3. tstate[t] \in {"dead", "none"}
      BY <2>1, <3>1 DEF Orderly, Threads, TypeOK
    <3> QED
      BY <2>2, <3>2, <3>3 DEF OrderKept, Sequenced, Received
  <2>3. netQueue = <<>>
    BY <2>1 DEF OfThisSession
  <2> QED
    BY <2>1, <2>2, <2>3, SentNowFacts DEF OfThisSession, SentNow
<1>7. ASSUME NEW t \in Threads, OpenSocket(t) \/ WriteQty(t) \/ StoreSocket(t)
      PROVE  OfThisSession'
  <2>1. UNCHANGED <<main, session, isNetInitialized, netQueue, raced, buffer, socketBuffer>>
    BY <1>7 DEF OpenSocket, WriteQty, StoreSocket, mainVars, netVars, socketVars
  <2> QED
    BY <2>1 DEF OfThisSession, SentNow
<1>8. ASSUME NEW t \in Threads, Receive(t)
      PROVE  OfThisSession'
  <2>1. /\ UNCHANGED <<main, session, isNetInitialized, netQueue, raced>> /\ socketBuffer[t] # <<>>
        /\ buffer'[t] = <<Head(socketBuffer[t])>> /\ socketBuffer'[t] = Tail(socketBuffer[t])
        /\ \A u \in Threads : u # t => buffer'[u] = buffer[u] /\ socketBuffer'[u] = socketBuffer[u]
    BY <1>8 DEF Receive, mainVars, netVars, TypeOK
  <2>2. /\ Range(buffer'[t]) \subseteq Range(socketBuffer[t])
        /\ Range(socketBuffer'[t]) \subseteq Range(socketBuffer[t])
    BY <1>1, <2>1, SentNowFacts
  <2> QED
    BY <2>1, <2>2 DEF OfThisSession, SentNow
<1>9. ASSUME NEW t \in Threads, SendToQueue(t)
      PROVE  OfThisSession'
  <2>1. /\ UNCHANGED <<main, session, isNetInitialized, raced, socketBuffer>>
        /\ netQueue' = IF isNetInitialized THEN Append(netQueue, buffer[t][1]) ELSE netQueue
        /\ buffer'[t] = <<>> /\ tstate[t] = "send"
        /\ \A u \in Threads : u # t => buffer'[u] = buffer[u]
    BY <1>9 DEF SendToQueue, Goto, mainVars, socketVars, TypeOK
  <2>2. buffer[t] # <<>> /\ buffer[t][1] = Head(buffer[t]) /\ buffer[t][1] \in Message
    BY <1>1, <2>1 DEF TypeOK
  <2>3. buffer[t][1] \in Range(buffer[t])
    BY <1>1, <2>2, SentNowFacts
  <2>4. Range(netQueue') \subseteq Range(netQueue) \cup Range(buffer[t])
    BY <1>1, <2>1, <2>2, <2>3, SentNowFacts
  <2> QED
    BY <2>1, <2>4, SentNowFacts DEF OfThisSession, SentNow
<1>10. ASSUME NEW t \in Threads, EndNet(t)
       PROVE  OfThisSession'
  <2>1. /\ UNCHANGED <<main, session, isNetInitialized, netQueue, raced, socketBuffer>>
        /\ buffer'[t] = <<>> /\ \A u \in Threads : u # t => buffer'[u] = buffer[u]
    BY <1>10 DEF EndNet, mainVars, netVars, socketVars, TypeOK
  <2> QED
    BY <2>1, SentNowFacts DEF OfThisSession, SentNow
<1>11. CASE NetworkSends
  <2>1. PICK t \in bound, what \in MessageTypes[nextMessage] :
          socketBuffer' = [socketBuffer EXCEPT ![t] = Append(@,
            [id |-> nextMessage, port |-> tport[t], type |-> what, session |-> session])]
    BY <1>11 DEF NetworkSends
  <2> PICK m : m = [id |-> nextMessage, port |-> tport[t], type |-> what, session |-> session]
    OBVIOUS
  <2>2. /\ UNCHANGED <<main, session, isNetInitialized, netQueue, raced, buffer>> /\ t \in Threads
        /\ socketBuffer'[t] = Append(socketBuffer[t], m) /\ m.session = session
        /\ \A u \in Threads : u # t => socketBuffer'[u] = socketBuffer[u]
    BY <1>11, <2>1 DEF NetworkSends, mainVars, netVars, threadVars, TypeOK
  <2>3. m \in Message
    BY <1>11, <2>2, MessageSent
  <2>4. Range(socketBuffer'[t]) \subseteq Range(socketBuffer[t]) \cup {m}
    BY <1>1, <2>2, <2>3, SentNowFacts
  <2> QED
    BY <2>2, <2>4 DEF OfThisSession, SentNow
<1> QED
  BY <1>2, <1>3, <1>4, <1>5, <1>6, <1>7, <1>8, <1>9, <1>10, <1>11 DEF Next, Main, Handler

(* A message that leaves the queue while the simulation runs is told to    *)
(* all that asked for its port and type in this simulation, up to          *)
(* MaxListeners for a port, and to nobody else; it was sent during this    *)
(* simulation, as long as no thread was late (pdevslib.linux.cpp:250).     *)
THEOREM ToldToTheRight ==
  Spec => RightListeners
<1>1. Init => Listed /\ OfThisSession
  <2> SUFFICES ASSUME Init
               PROVE  Listed /\ OfThisSession
    OBVIOUS
  <2>1. /\ main = "init" /\ k = 1 /\ session = 1 /\ netQueue = <<>>
        /\ listeners = [p \in Ports |-> <<>>] /\ ~isNetInitialized
        /\ \A t \in Threads : buffer[t] = <<>> /\ socketBuffer[t] = <<>>
    BY DEF Init
  <2>2. 1 \in Sessions /\ Len(Requests[1]) \in Nat
    BY NetAssumption DEF Sessions
  <2>3. k <= Len(Requests[session]) + 1 /\ k - 1 = 0
    BY <2>1, <2>2
  <2>4. Listed
    BY <2>1, <2>3, ListedFirst DEF Listed
  <2> QED
    BY <2>1, <2>4, SentNowFacts DEF OfThisSession, SentNow
<1>2. TypeOK /\ TypeOK' /\ Listed /\ OfThisSession /\ [Next]_vars =>
        [(main = "look" /\ main' = "run" /\ netQueue # <<>>) =>
           /\ netQueue' = Tail(netQueue)
           /\ heard' = heard \o ToHear(Head(netQueue))
           /\ raced \/ Head(netQueue).session = session]_vars
  <2> SUFFICES ASSUME TypeOK, TypeOK', Listed, OfThisSession, Next,
                      main = "look", main' = "run", netQueue # <<>>
               PROVE  /\ netQueue' = Tail(netQueue)
                      /\ heard' = heard \o ToHear(Head(netQueue))
                      /\ raced \/ Head(netQueue).session = session
    OBVIOUS
  <2> PICK m : m = Head(netQueue)
    OBVIOUS
  <2>0. netQueue \in Seq(Message)
    BY DEF TypeOK
  <2>1. m \in Message /\ m \in Range(netQueue)
    <3>1. m \in Message
      BY <2>0
    <3>2. Head(netQueue) \in Range(netQueue)
      BY <2>0, SentNowFacts, Zenon
    <3> QED
      BY <3>1, <3>2
  <2>8. Look
    BY DEF Next, Main, RequestNET, Run, TimeLeft, CleanNet, CloseAndKill, AllKilled, JoinThread,
       AllJoined, ReadPast, NextSession, Handler, OpenSocket, WriteQty, StoreSocket, Receive,
       SendToQueue, EndNet, NetworkSends, mainVars
  <2>9. isNetInitialized
    BY DEF OfThisSession
  <2>4. heard' = heard \o Told(m) /\ netQueue' = Tail(netQueue)
    BY <2>8, <2>9 DEF Look
  <2>5. ListedUpTo(m.port, Len(Requests[session]))
    BY <2>1 DEF Listed, Message
  <2>6. Told(m) = ToHear(m)
    BY <2>1, <2>5, ToldToThoseWhoAsked
  <2>7. raced \/ m.session = session
    BY <2>1 DEF OfThisSession, SentNow
  <2> QED
    BY <2>4, <2>6, <2>7
<1>3. Spec => [](Listed /\ OfThisSession /\ TypeOK)
  BY <1>1, ListedStep, OfThisSessionStep, TypeInvariant, NobodyLate, InOrderInvariant, PTL DEF Spec
<1> QED
  BY <1>2, <1>3, PTL DEF Spec, RightListeners

=============================================================================
