----------------------------- MODULE ChildHeap ------------------------------
(***************************************************************************)
(* The tournament tree of src/engine/common/coupling.cpp in which a        *)
(* Coupling keeps the times of next transition of its children.  Row 0     *)
(* holds one node per child; each node of row l+1 repeats the winner of    *)
(* nodes 2q and 2q+1 of row l; row Depth holds one node, which next()      *)
(* reads.  create() builds the rows bottom up, one per iteration; update() *)
(* replays the matches of one child and leaves its loop as soon as a match *)
(* is lost to the model that had already won it.                           *)
(***************************************************************************)
EXTENDS Integers

CONSTANTS Size,     \* number of children, the argument s of create()
          Depth,    \* log_size - 1: the index of the last row
          Times,    \* the values D[c]->tn takes
          PadTime   \* 1e100, the time of the node that pads an odd row

(* The nodes of row l that come from children, before padding. *)
Entrants[l \in Nat] == IF l = 0 THEN Size ELSE (Entrants[l - 1] + 1) \div 2

ASSUME SizeAssumption == Size \in Nat \ {0}
ASSUME TimesAssumption == Times \subseteq Int /\ PadTime \in Int
                          /\ \A v \in Times : v < PadTime
(* Depth = ceil(log2(Size)): halving rounds the size down to one node. *)
ASSUME DepthAssumption == /\ Depth \in Nat
                          /\ Entrants[Depth] = 1
                          /\ \A l \in 0 .. Depth - 1 : Entrants[l] > 1

Children == 0 .. Size - 1
Width(l) == IF l = Depth THEN Entrants[l] ELSE Entrants[l] + (Entrants[l] % 2)
Node     == [model : Nat, tn : Times \cup {PadTime}]
PadNode  == [model |-> 0, tn |-> PadTime]

VARIABLES tn,      \* tn[c] = D[c]->tn
          heap,    \* heap[l][q] is a node; rows not built yet are empty
          pc,      \* "create", "idle" or "update": the function under way
          level,   \* the next row of create(), the level of update()
          p        \* the position of update() on its level

vars == <<tn, heap, pc, level, p>>

(* The winner of a match: the earlier time, the lower position on a tie.   *)
(* create() compares the models instead; MatchOrder (ChildHeap_proofs)     *)
(* shows that it makes no difference.                                      *)
Match(a, b) == IF a.tn <= b.tn THEN a ELSE b

CreateMatch(a, b) ==
  IF a.tn < b.tn \/ (a.tn = b.tn /\ a.model < b.model) THEN a ELSE b

next == heap[Depth][0].model

Init ==
  /\ tn \in [Children -> Times]
  /\ heap = [l \in 0 .. Depth |-> [q \in {} |-> PadNode]]
  /\ pc = "create" /\ level = 0 /\ p = 0

(* One row of create(): its children or the winners of the row below, and  *)
(* a padding node at the end of an odd row that is not the last.           *)
CreateRow ==
  /\ pc = "create"
  /\ heap' = [heap EXCEPT ![level] =
       [q \in 0 .. Width(level) - 1 |->
          IF q >= Entrants[level] THEN PadNode
          ELSE IF level = 0 THEN [model |-> q, tn |-> tn[q]]
          ELSE CreateMatch(heap[level - 1][2 * q], heap[level - 1][2 * q + 1])]]
  /\ IF level = Depth THEN pc' = "idle" /\ level' = 0
                      ELSE pc' = "create" /\ level' = level + 1
  /\ UNCHANGED <<tn, p>>

(* A message that the coupling sends leaves child c with a new time. *)
ChildMoves(c) ==
  /\ pc = "idle"
  /\ \E v \in Times : tn' = [tn EXCEPT ![c] = v]
  /\ UNCHANGED <<heap, pc, level, p>>

(* The head of update(c).  A heap of one row has no matches to replay. *)
Update(c) ==
  /\ pc = "idle"
  /\ heap' = [heap EXCEPT ![0][c].tn = tn[c]]
  /\ pc' = IF Depth > 0 THEN "update" ELSE "idle"
  /\ level' = 0 /\ p' = c
  /\ UNCHANGED tn

Rival == IF p % 2 = 0 THEN p + 1 ELSE p - 1
(* Slip: a tie goes to the upper position. *)
Upper == IF p < Rival THEN Rival ELSE p

Lower == IF p < Rival THEN p ELSE Rival

(* The match at (level, p) goes to the node at position w of this level,   *)
(* and the loop goes on one level up while there is one.                   *)
Promote(w) ==
  /\ heap' = [heap EXCEPT ![level + 1][p \div 2] = heap[level][w]]
  /\ level' = level + 1 /\ p' = p \div 2
  /\ pc' = IF level' < Depth THEN "update" ELSE "idle"
  /\ UNCHANGED tn

Mine   == heap[level][p]
Other  == heap[level][Rival]
Parent == heap[level + 1][p \div 2]

Wins == pc = "update" /\ Mine.tn < Other.tn /\ Promote(p)

Ties == pc = "update" /\ Mine.tn = Other.tn /\ Promote(Lower)

LosesToNewWinner ==
  /\ pc = "update" /\ Mine.tn > Other.tn
  /\ Other.model # Parent.model
  /\ Promote(Rival)

(* Slip: update() stops at any match that is lost. *)
LosesStops ==
  /\ pc = "update" /\ Mine.tn > Other.tn
  /\ pc' = "idle"
  /\ UNCHANGED <<tn, heap, level, p>>

(* The rival had won this match before: nothing above changes (b = false). *)
LosesAgain ==
  /\ pc = "update" /\ Mine.tn > Other.tn
  /\ Other.model = Parent.model
  /\ pc' = "idle"
  /\ UNCHANGED <<tn, heap, level, p>>

Replay == Wins \/ Ties \/ LosesToNewWinner \/ LosesAgain

Next ==
  \/ CreateRow
  \/ \E c \in Children : ChildMoves(c) \/ Update(c)
  \/ Replay

Spec == Init /\ [][Next]_vars

-----------------------------------------------------------------------------
(* Every variable keeps its type; a row that is built keeps its width. *)
TypeOK ==
  /\ tn \in [Children -> Times]
  /\ pc \in {"create", "idle", "update"}
  /\ level \in 0 .. Depth
  /\ p \in Nat
  /\ pc = "update" => level < Depth /\ p < Entrants[level]
  /\ DOMAIN heap = 0 .. Depth
  /\ \A l \in 0 .. Depth :
       (pc # "create" \/ l < level) => heap[l] \in [0 .. Width(l) - 1 -> Node]

(* When no call is under way next() names the first of the recorded        *)
(* children: the smallest recorded time and, on a tie, the lowest index.   *)
(* update() gives it back although it stops climbing early.                *)
NextIsFirst ==
  pc = "idle" =>
    \A d \in Children :
      /\ next \in Children
      /\ \/ heap[0][next].tn < heap[0][d].tn
         \/ heap[0][next].tn = heap[0][d].tn /\ next <= d

(* The inductive invariant behind NextIsFirst.  Rows are padded at their   *)
(* end only, the models of a row increase from left to right, every node   *)
(* above row 0 repeats the winner of its match except the one update() is  *)
(* about to decide, and there a parent that has the rival's model is the   *)
(* rival: this is what entitles update() to stop.                          *)
Built(l)   == pc # "create" \/ l < level
Deciding(l, q) == pc = "update" /\ l = level /\ q = p \div 2

RowOK(l, row) ==
  /\ row \in [0 .. Width(l) - 1 -> Node]
  /\ \A q \in 0 .. Entrants[l] - 1 : row[q].tn \in Times /\ row[q].model \in Children
  /\ \A q \in Entrants[l] .. Width(l) - 1 : row[q] = PadNode
  /\ \A q, r \in 0 .. Entrants[l] - 1 : q < r => row[q].model < row[r].model

Rows == \A l \in 0 .. Depth : Built(l) => RowOK(l, heap[l])

Leaves == Built(0) => \A c \in Children : heap[0][c].model = c

Matches ==
  \A l \in 0 .. Depth - 1 : \A q \in 0 .. Entrants[l + 1] - 1 :
    (Built(l + 1) /\ ~Deciding(l, q)) =>
      heap[l + 1][q] = Match(heap[l][2 * q], heap[l][2 * q + 1])

EarlyExit ==
  (pc = "update" /\ Rival < Entrants[level] /\ Other.model = Parent.model)
    => Other = Parent

HeapInv == Rows /\ Leaves /\ Matches /\ EarlyExit

-----------------------------------------------------------------------------
(* The heap implements MinChild: whatever rows are played, next() is an    *)
(* answer MinChild allows, and each update records one time.               *)
First(k) == CHOOSE c \in Children :
              \A d \in Children : k[c] < k[d] \/ (k[c] = k[d] /\ c <= d)

Abstract == INSTANCE MinChild WITH
  tn   <- tn,
  key  <- [c \in Children |-> IF pc = "create" THEN tn[c] ELSE heap[0][c].tn],
  next <- IF pc = "create" THEN First(tn) ELSE next,
  busy <- pc = "update"

ImplementsMinChild == Abstract!MinSpec

=============================================================================
