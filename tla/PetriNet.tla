------------------------------ MODULE PetriNet ------------------------------
(***************************************************************************)
(* The Petri nets of atomics/petri: places and transitions are atomic      *)
(* models of one coupling, and the marking is spread over them.  A place   *)
(* holds a token for a while and then makes it available; it announces the *)
(* tokens available to its transitions, which keep what they were told.  A *)
(* transition takes tokens by calling its places, and when it has sent its *)
(* own tokens it tells its places to announce what is left: externalinput  *)
(* in the middle of its dint, which moves the transitionChild of the       *)
(* coupling under the call that is still running.                          *)
(*                                                                         *)
(* A step is one RootSimulator::step: lambda of the transition child, the  *)
(* inputs of its receivers, its dint, and the coupling's ta.               *)
(***************************************************************************)
EXTENDS Integers, Sequences

CONSTANTS Places,
          Inner,      \* transitions with input places
          Sources,    \* transitions without: nin = 0
          Triggered,  \* event_triggered_transition
          Pre,        \* Pre[x]: the places of x, in the order of its database
          Weight,     \* Weight[x][p]: connections from p to x, 0 if none
          Arcs,       \* Arcs[x][n]: connections from x to n
          Orders,     \* possible orders of the models in their coupling
          Delays,     \* possible values of the parameter time
          Marks,      \* possible initial tokens of a place
          INF, Tf

Transitions == Inner \cup Sources \cup Triggered
Nodes       == Places \cup Transitions

(* Every model is of one kind, and has one place in the order. *)
ASSUME NetAssumption ==
  /\ Places # {} /\ Places \cap Transitions = {}
  /\ Inner \cap (Sources \cup Triggered) = {} /\ Sources \cap Triggered = {}
  /\ Orders \subseteq Seq(Nodes)
  /\ \A o \in Orders : /\ {o[i] : i \in DOMAIN o} = Nodes
                       /\ \A i, j \in DOMAIN o : o[i] = o[j] => i = j
  /\ INF \in Nat /\ Tf \in Nat /\ Tf < INF
  /\ Delays \subseteq 0 .. INF - 1 /\ Marks \subseteq Nat
  /\ Pre \in [Inner -> Seq(Places)]
  /\ \A x \in Inner : /\ Pre[x] # <<>>
                      /\ \A p \in Places : Weight[x][p] \in Nat
                      /\ {Pre[x][i] : i \in DOMAIN Pre[x]} = {p \in Places : Weight[x][p] > 0}
                      /\ \A i, j \in DOMAIN Pre[x] : Pre[x][i] = Pre[x][j] => i = j
  /\ Arcs \in [Transitions -> [Places \cup Triggered -> Nat]]

VARIABLES order, delay,            \* the model: D of the coupling, parameters
          now,                     \* time of the last event
          tokens, list, flag,      \* places: available, waiting, TimeFlag
          enabled, working,        \* transitions
          heard, told,             \* DataBase: ports filled, tokens announced
          sigma, tl,               \* Sigma, and time of the last transition
          key, tc                  \* of the coupling: heap, transitionChild

model   == <<order, delay>>
place   == <<tokens, list, flag>>
trans   == <<enabled, working, heard, told>>
vars    == <<model, now, place, trans, sigma, tl, key, tc>>

Plus(x, s)  == IF s >= INF THEN INF ELSE x + s
Minus(s, e) == IF s >= INF THEN INF ELSE s - e
Tn(n)       == Plus(tl[n], sigma[n])
At(n)       == CHOOSE i \in DOMAIN order : order[i] = n
First(k)    == CHOOSE i \in DOMAIN k :
                 \A j \in DOMAIN k : k[i] < k[j] \/ (k[i] = k[j] /\ i <= j)
Pres(x)     == {p \in Places : Weight[x][p] > 0}

(* UpdateTime: every time in the list is t nearer. *)
Aged(l, t) == [i \in DOMAIN l |-> IF l[i] >= t THEN l[i] - t ELSE 0]

(* CheckMenssajes: how many messages at the head of the list are over.  Of *)
(* a single one the time is not looked at.                                 *)
Ripe(l) == IF Len(l) = 1 THEN 1
           ELSE CHOOSE n \in 0 .. Len(l) : /\ \A i \in 1 .. n : l[i] <= 0
                                           /\ n < Len(l) => l[n + 1] > 0

(* A source without delay would fire for ever at one time. *)
Init ==
  /\ order \in Orders /\ delay \in [Nodes \ Triggered -> Delays]
  /\ \A x \in Sources : delay[x] > 0
  /\ now = 0
  /\ tokens = [p \in Places |-> 0]
  /\ \E m \in [Places -> Marks] : list = [p \in Places |-> [i \in 1 .. m[p] |-> delay[p]]]
  /\ flag = [p \in Places |-> IF list[p] # <<>> THEN 1 ELSE 0]
  /\ enabled = [x \in Inner |-> FALSE] /\ working = [x \in Inner |-> FALSE]
  /\ heard = [x \in Inner |-> {}]
  /\ told = [x \in Inner |-> [p \in Pres(x) |-> 0]]
  /\ sigma = [n \in Nodes |->
       IF (n \in Places /\ list[n] # <<>>) \/ n \in Sources THEN delay[n] ELSE INF]
  /\ tl = [n \in Nodes |-> 0]
  /\ key = [i \in DOMAIN order |-> Tn(order[i])]
  /\ tc = First(key)

-----------------------------------------------------------------------------
(* The transition child has an event before the end of the simulation. *)
Imminent(n) == n = order[tc] /\ Tn(n) <= Tf /\ now' = Tn(n)

(* The inputs of the step: those that received something have made a       *)
(* transition now.  The coupling told its heap of each of them and then    *)
(* of the child it called, and takes the next one.                         *)
EndStep(n, receivers) ==
  /\ UNCHANGED model
  /\ tl' = [m \in Nodes |-> IF m \in receivers \cup {n} THEN now' ELSE tl[m]]
  /\ key' = [i \in DOMAIN order |->
               IF order[i] \in receivers \cup {n} THEN Tn(order[i])' ELSE key[i]]
  /\ tc' = First(key')

(* place::dint when tokens become available: to be announced at once. *)
Mature(p) ==
  /\ p \in Places /\ Imminent(p) /\ flag[p] = 1
  /\ LET aged == Aged(list[p], IF list[p] = <<>> THEN INF ELSE list[p][1])
         ripe == Ripe(aged)
     IN  /\ tokens' = [tokens EXCEPT ![p] = tokens[p] + ripe]
         /\ list'   = [list EXCEPT ![p] = SubSeq(aged, ripe + 1, Len(aged))]
  /\ flag'  = [flag EXCEPT ![p] = 4]
  /\ sigma' = [sigma EXCEPT ![p] = 0]
  /\ UNCHANGED trans
  /\ EndStep(p, {})

(* transition::dext with an announcement of place p. *)
Active(x)    == heard'[x] = Pres(x) /\ \A p \in Pres(x) : Weight[x][p] <= told'[x][p]
NewSigma(x)  == IF ~Active(x) THEN INF
                ELSE IF enabled[x] THEN Minus(sigma[x], now' - tl[x])
                ELSE delay[x]

(* place::lambda and dint when the tokens available are to be announced. *)
Announce(p) ==
  LET to == {x \in Inner : p \in Pres(x)}
  IN  /\ p \in Places /\ Imminent(p) /\ flag[p] = 4
      /\ heard' = [x \in Inner |-> IF x \in to THEN heard[x] \cup {p} ELSE heard[x]]
      /\ told'  = [x \in Inner |-> IF x \in to THEN [told[x] EXCEPT ![p] = tokens[p]] ELSE told[x]]
      /\ enabled' = [x \in Inner |-> IF x \in to THEN Active(x) ELSE enabled[x]]
      /\ sigma' = [n \in Nodes |->
           IF n \in to THEN NewSigma(n)
           ELSE IF n # p THEN sigma[n]
           ELSE IF list[p] = <<>> THEN INF ELSE list[p][1]]
      /\ flag' = [flag EXCEPT ![p] = IF list[p] = <<>> THEN 0 ELSE 1]
      /\ UNCHANGED <<tokens, list, working>>
      /\ EndStep(p, to)

(* Slip: the tokens are not looked at again before they are taken. *)
StartOnWord(x) ==
  /\ x \in Inner /\ Imminent(x) /\ enabled[x]
  /\ enabled' = [enabled EXCEPT ![x] = FALSE]
  /\ tokens'  = [p \in Places |-> tokens[p] - Weight[x][p]]
  /\ working' = [working EXCEPT ![x] = TRUE]
  /\ sigma'   = [sigma EXCEPT ![x] = 0]
  /\ UNCHANGED <<list, flag, heard, told>>
  /\ EndStep(x, {})

(* Slip: the time of a transition passes after it has taken its tokens. *)
StartAndWait(x) ==
  /\ x \in Inner /\ Imminent(x) /\ enabled[x]
  /\ enabled' = [enabled EXCEPT ![x] = FALSE]
  /\ IF \A p \in Pres(x) : Weight[x][p] <= tokens[p]
     THEN /\ tokens'  = [p \in Places |-> tokens[p] - Weight[x][p]]
          /\ working' = [working EXCEPT ![x] = TRUE]
          /\ sigma'   = [sigma EXCEPT ![x] = delay[x]]
     ELSE /\ sigma' = [sigma EXCEPT ![x] = INF]
          /\ UNCHANGED <<tokens, working>>
  /\ UNCHANGED <<list, flag, heard, told>>
  /\ EndStep(x, {})

(* transition::dint of an enabled transition: another one may have taken   *)
(* the tokens at this very time.                                           *)
Start(x) ==
  /\ x \in Inner /\ Imminent(x) /\ enabled[x]
  /\ enabled' = [enabled EXCEPT ![x] = FALSE]
  /\ IF \A p \in Pres(x) : Weight[x][p] <= tokens[p]
     THEN /\ tokens'  = [p \in Places |-> tokens[p] - Weight[x][p]]
          /\ working' = [working EXCEPT ![x] = TRUE]
          /\ sigma'   = [sigma EXCEPT ![x] = 0]
     ELSE /\ sigma' = [sigma EXCEPT ![x] = INF]
          /\ UNCHANGED <<tokens, working>>
  /\ UNCHANGED <<list, flag, heard, told>>
  /\ EndStep(x, {})

(* place::dext for k tokens, and dext of a triggered transition, from the  *)
(* output of x.                                                            *)
Given(x)     == {n \in Places \cup Triggered : Arcs[x][n] > 0}
ListWith(p, x) == Aged(list[p], now' - tl[p]) \o [i \in 1 .. Arcs[x][p] |-> delay[p]]
SigmaWith(n) == IF n \in Triggered THEN 0
                ELSE IF sigma[n] > delay[n] THEN delay[n]
                ELSE Minus(sigma[n], now' - tl[n])

(* transition::lambda and dint of a source, and of a triggered transition. *)
Emit(x) ==
  /\ x \in Sources \cup Triggered /\ Imminent(x)
  /\ list' = [p \in Places |-> IF p \in Given(x) THEN ListWith(p, x) ELSE list[p]]
  /\ flag' = [p \in Places |-> IF p \in Given(x) /\ sigma[p] > delay[p] THEN 1 ELSE flag[p]]
  /\ sigma' = [n \in Nodes |->
       IF n = x THEN IF x \in Sources THEN delay[x] ELSE INF
       ELSE IF n \in Given(x) THEN SigmaWith(n) ELSE sigma[n]]
  /\ UNCHANGED <<tokens, trans>>
  /\ EndStep(x, Given(x))

(* Slip: changemytn does not tell the heap of the place. *)
AskedUntold(x, heap) == [key |-> heap, tc |-> First(heap), tn |-> now']

(* The time of a model as it is while the i-th place of x is called: x has *)
(* yet to get its new Sigma, lambda and the calls before are over.         *)
TnAsked(x, i, n) ==
  IF n = x \/ n \in {Pre[x][j] : j \in 1 .. i} THEN now'
  ELSE IF n \in Given(x) THEN Plus(now', SigmaWith(n)) ELSE Tn(n)

(* The call of externalinput for the i-th place of x, with h the heap,     *)
(* transitionChild and tn of the coupling: changemytn runs ta(0), and so   *)
(* moves transitionChild, before the heap is told of the place.            *)
Ask(x, i, h) ==
  LET k == At(Pre[x][i])
      again == h.tn > now' \/ k = h.tc \/ (h.tn = now' /\ k < h.tc)
      first == IF again THEN First(h.key) ELSE h.tc
  IN  [key |-> [h.key EXCEPT ![k] = now'],
       tc  |-> first,
       tn  |-> IF again THEN TnAsked(x, i, order[first]) ELSE h.tn]

(* All calls of x, from the heap and the clock as they are after lambda. *)
Asked(x, heap) ==
  LET asked[i \in 0 .. Len(Pre[x])] ==
        IF i = 0 THEN [key |-> heap, tc |-> tc, tn |-> now']
        ELSE Ask(x, i, asked[i - 1])
  IN  asked[Len(Pre[x])]

(* Slip: the places are not asked to announce what is left. *)
FinishSilently(x) ==
  /\ x \in Inner /\ Imminent(x) /\ ~enabled[x] /\ working[x]
  /\ working' = [working EXCEPT ![x] = FALSE]
  /\ list' = [p \in Places |-> IF p \in Given(x) THEN ListWith(p, x) ELSE list[p]]
  /\ flag' = [p \in Places |-> IF p \in Given(x) /\ sigma[p] > delay[p] THEN 1 ELSE flag[p]]
  /\ sigma' = [n \in Nodes |->
       IF n = x THEN INF ELSE IF n \in Given(x) THEN SigmaWith(n) ELSE sigma[n]]
  /\ UNCHANGED <<tokens, enabled, heard, told>>
  /\ EndStep(x, Given(x))

(* transition::lambda and dint of a working transition: it sends its       *)
(* tokens, then asks its places to announce theirs, each by externalinput. *)
(* Coupling::dint reads transitionChild again for its heap.                *)
Finish(x) ==
  /\ x \in Inner /\ Imminent(x) /\ ~enabled[x] /\ working[x]
  /\ working' = [working EXCEPT ![x] = FALSE]
  /\ list' = [p \in Places |->
       IF p \in Given(x) THEN ListWith(p, x)
       ELSE IF p \in Pres(x) THEN Aged(list[p], now' - tl[p]) ELSE list[p]]
  /\ flag' = [p \in Places |->
       IF p \in Pres(x) THEN 4
       ELSE IF p \in Given(x) /\ sigma[p] > delay[p] THEN 1 ELSE flag[p]]
  /\ sigma' = [n \in Nodes |->
       IF n = x THEN INF
       ELSE IF n \in Pres(x) THEN 0
       ELSE IF n \in Given(x) THEN SigmaWith(n) ELSE sigma[n]]
  /\ tl' = [n \in Nodes |-> IF n = x \/ n \in Given(x) \cup Pres(x) THEN now' ELSE tl[n]]
  /\ LET heap == [i \in DOMAIN order |->
                    IF order[i] \in Given(x) THEN Plus(now', SigmaWith(order[i])) ELSE key[i]]
         last == Asked(x, heap)
         n    == order[last.tc]
     IN  key' = [last.key EXCEPT ![last.tc] = Plus(tl'[n], sigma'[n])]
  /\ tc' = First(key')
  /\ UNCHANGED <<model, tokens, enabled, heard, told>>

Next ==
  \/ \E p \in Places : Mature(p) \/ Announce(p)
  \/ \E x \in Inner : Start(x) \/ Finish(x)
  \/ \E x \in Sources \cup Triggered : Emit(x)

Spec == Init /\ [][Next]_vars

-----------------------------------------------------------------------------
(* The marking: tokens available or waiting in a place, and those that a   *)
(* working transition has taken but not sent yet.                          *)
Sending(p) ==
  LET xs == {x \in Inner : working[x]}
      sum[s \in SUBSET xs] ==
        IF s = {} THEN 0
        ELSE LET x == CHOOSE y \in s : TRUE IN Arcs[x][p] + sum[s \ {x}]
  IN  sum[xs]

Marking == [p \in Places |-> tokens[p] + Len(list[p]) + Sending(p)]
Take    == [x \in Transitions |-> [p \in Places |-> IF x \in Inner THEN Weight[x][p] ELSE 0]]
Give    == [x \in Transitions |-> [p \in Places |-> Arcs[x][p]]]

Game == INSTANCE TokenGame WITH marking <- Marking

(* The blocks together play the token game: whatever the order of the      *)
(* models and their delays, no token is taken twice, lost or invented, and *)
(* no transition fires without its tokens, also when two of them compete   *)
(* for the same ones at the same time.                                     *)
ImplementsTokenGame == Game!Spec

(* A transition that has its tokens knows it whenever time passes: none    *)
(* that can fire is forgotten because an announcement got lost.            *)
NoneForgotten ==
  Tn(order[tc]) > now =>
    \A x \in Inner : (\A p \in Pres(x) : Weight[x][p] <= tokens[p]) => enabled[x]

(* The transition child is a model with the earliest event, although the   *)
(* calls in the middle of dint leave the heap with a time that is over.    *)
NextIsEarliest == \A n \in Nodes : Tn(order[tc]) <= Tn(n)

(* From the moment a transition takes its tokens until it has sent its own *)
(* nothing else happens: an announcement in between would make it forget   *)
(* that it is working.                                                     *)
FiringUndisturbed == \A x \in Inner : working[x] => order[tc] = x /\ ~enabled[x] /\ Tn(x) = now

=============================================================================
