------------------------------ MODULE NetThreads ------------------------------
(***************************************************************************)
(* Input from the network on Linux: RequestNET registers listeners and     *)
(* starts a receiving thread for each new port, the threads put what they  *)
(* receive into a message queue, waitFor hands it to the listeners, and    *)
(* cleanNet ends it all when a simulation is over.  A process may run      *)
(* several simulations, one after the other.  The threads share qtyThreads *)
(* and threadSocket with the main thread without a lock, so that every     *)
(* access is a step of its own.  The two tables have a fixed number of     *)
(* entries, which nobody compares with qtyThreads: what is written or read *)
(* past their end is undefined, and the model stops there.                 *)
(***************************************************************************)
EXTENDS Naturals, FiniteSets, SequencesExt

CONSTANTS
  Requests,       \* for each simulation of the process the calls of
                  \* RequestNET in the order of init: records of port,
                  \* atomic and type
  Types, AnyType,     \* of messages; AnyType is no type, in a message or request
  MessageTypes,   \* a sequence: the types the n-th message may have; its
                  \* length bounds what the network sends
  MaxListeners,   \* INIT_LENG_LIST
  MaxThreads      \* the 10 of threads[10] and threadSocket[10]

ASSUME NetAssumption ==
  /\ Requests # <<>> /\ Requests \in Seq(Range(Requests))
  /\ \A s \in DOMAIN Requests :
       /\ Requests[s] \in Seq(Range(Requests[s]))
       /\ \A r \in Range(Requests[s]) : r.type \in Types
  /\ MessageTypes \in Seq(SUBSET Types)
  /\ AnyType \in Types /\ MaxListeners \in Nat \ {0} /\ MaxThreads \in Nat \ {0}

PortsOf(s) == {r.port : r \in Range(Requests[s])}
Sessions   == DOMAIN Requests
Messages   == DOMAIN MessageTypes
Ports      == UNION {PortsOf(s) : s \in Sessions}
Started    == {x \in Sessions \X Ports : x[2] \in PortsOf(x[1])}
Threads    == 1 .. Cardinality(Started)   \* in order of creation
None       == 0
Slots      == 0 .. MaxThreads - 1
Past(i)    == i >= MaxThreads

VARIABLES
  main, k,                    \* what the main thread does, its loop variable
  session,
  isNetInitialized, netQueue, listeners,
  qtyThreads, threads, threadSocket,   \* a socket has the name of its thread
  created, tstate, tport, slot,        \* threads: local port and index
  buffer,                              \* what recvfrom has returned
  open, bound, socketBuffer,           \* external: the kernel's sockets
  nextMessage,                         \* external: the network
  heard,                      \* history: <<message, atomic>>, in order
  raced,                      \* history: a thread was not registered in time
  crashed,                    \* pthread_kill or pthread_join of no thread
  overrun                     \* an entry past the tables was used

mainVars == <<main, k, session>>
netVars  == <<isNetInitialized, netQueue, listeners>>
shared   == <<qtyThreads, threads, threadSocket>>
threadVars == <<created, tstate, tport, slot, buffer>>
socketVars == <<open, bound, socketBuffer, nextMessage>>
vars == <<mainVars, netVars, shared, threadVars, socketVars, heard, raced, crashed,
                 overrun>>

Registering == {"start", "write", "store"}
Running     == {"receive", "send"}

Init ==
  /\ main = "init" /\ k = 1 /\ session = 1
  /\ isNetInitialized = FALSE /\ netQueue = <<>> /\ listeners = [p \in Ports |-> <<>>]
  /\ qtyThreads = 0
  /\ threads = [i \in Slots |-> None] /\ threadSocket = [i \in Slots |-> None]
  /\ created = 0 /\ tstate = [t \in Threads |-> "none"]
  /\ tport = [t \in Threads |-> None] /\ slot = [t \in Threads |-> 0]
  /\ buffer = [t \in Threads |-> <<>>]
  /\ open = {} /\ bound = {} /\ socketBuffer = [t \in Threads |-> <<>>]
  /\ nextMessage = 1
  /\ heard = <<>> /\ raced = FALSE /\ crashed = FALSE /\ overrun = FALSE

SomeRegistering == \E t \in Threads : tstate[t] \in Registering

-----------------------------------------------------------------------------
(* The main thread. *)

(* addListener: beyond the capacity nothing is added. *)
AddListener(s, r) == IF Len(s) < MaxListeners THEN Append(s, r) ELSE s

StartThread(p) ==
  /\ created' = created + 1
  /\ threads' = [threads EXCEPT ![qtyThreads] = created']
  /\ overrun' = Past(qtyThreads)
  /\ tstate' = [tstate EXCEPT ![created'] = "start"]
  /\ tport' = [tport EXCEPT ![created'] = p]
  /\ raced' = (raced \/ SomeRegistering)

(* RequestNET; the first one also does initNet, with a new queue. *)
RequestNET ==
  /\ main = "init" /\ k <= Len(Requests[session])
  /\ LET r == Requests[session][k] IN
       /\ listeners' = [listeners EXCEPT ![r.port] =
            AddListener(@, [atomic |-> r.atomic, type |-> r.type])]
       /\ IF listeners[r.port] = <<>>
          THEN StartThread(r.port)
          ELSE UNCHANGED <<created, threads, tstate, tport, raced, overrun>>
  /\ isNetInitialized' = TRUE
  /\ netQueue' = IF isNetInitialized THEN netQueue ELSE <<>>
  /\ k' = k + 1
  /\ UNCHANGED <<main, session, qtyThreads, threadSocket, slot, buffer, socketVars,
                 heard, crashed>>

Run ==
  /\ main = "init" /\ k > Len(Requests[session])
  /\ main' = "run"
  /\ UNCHANGED <<k, session, netVars, shared, threadVars, socketVars, heard, raced, crashed,
                 overrun>>

(* Slip: only those who asked for this type. *)
SameType(r, m) == r.type = m.type

Listens(r, m) == r.type = AnyType \/ m.type = AnyType \/ r.type = m.type

(* alertOfMsg goes through the list of the port. *)
Told(m) ==
  LET asked == listeners[m.port]
      told[i \in Nat] ==
        IF i = 0 THEN <<>>
        ELSE IF Listens(asked[i], m) THEN Append(told[i - 1], <<m, asked[i].atomic>>)
        ELSE told[i - 1]
  IN  told[Len(asked)]

(* waitFor: there is time to wait for, and it is not over.  A simulation   *)
(* that is late, or not tied to the clock, never comes to this.            *)
TimeLeft ==
  /\ main = "run"
  /\ main' = "look"
  /\ UNCHANGED <<k, session, netVars, shared, threadVars, socketVars, heard, raced, crashed,
                 overrun>>

(* The body of its loop, with alertOfNET and alertOfMsg. *)
Look ==
  /\ main = "look"
  /\ main' = "run"
  /\ IF isNetInitialized /\ netQueue # <<>>
     THEN heard' = heard \o Told(Head(netQueue)) /\ netQueue' = Tail(netQueue)
     ELSE UNCHANGED <<heard, netQueue>>
  /\ UNCHANGED <<k, session, isNetInitialized, listeners, shared, threadVars, socketVars,
                 raced, crashed, overrun>>

(* cleanNet, up to the first loop: the queue goes with what is in it. *)
CleanNet ==
  /\ main = "run" /\ isNetInitialized
  /\ netQueue' = <<>> /\ listeners' = [p \in Ports |-> <<>>]
  /\ isNetInitialized' = FALSE
  /\ raced' = (raced \/ SomeRegistering)
  /\ main' = "kill" /\ k' = 0
  /\ UNCHANGED <<session, shared, threadVars, socketVars, heard, crashed, overrun>>

(* Slip: the sockets stay open. *)
KillOnly ==
  /\ main = "kill" /\ k < qtyThreads /\ ~Past(k)
  /\ IF threads[k] = None
     THEN crashed' = TRUE /\ UNCHANGED tstate
     ELSE /\ tstate' = [tstate EXCEPT ![threads[k]] = IF @ = "dead" THEN @ ELSE "killed"]
          /\ UNCHANGED crashed
  /\ k' = k + 1
  /\ UNCHANGED <<main, session, netVars, shared, created, tport, slot, buffer,
                 socketVars, heard, raced, overrun>>

(* One turn of the first loop. *)
CloseAndKill ==
  /\ main = "kill" /\ k < qtyThreads /\ ~Past(k)
  /\ open' = open \ {threadSocket[k]} /\ bound' = bound \ {threadSocket[k]}
  /\ socketBuffer' = [t \in Threads |-> IF t = threadSocket[k] THEN <<>> ELSE socketBuffer[t]]
  /\ IF threads[k] = None
     THEN crashed' = TRUE /\ UNCHANGED tstate
     ELSE /\ tstate' = [tstate EXCEPT ![threads[k]] = IF @ = "dead" THEN @ ELSE "killed"]
          /\ UNCHANGED crashed
  /\ k' = k + 1
  /\ UNCHANGED <<main, session, netVars, shared, created, tport, slot, buffer,
                 nextMessage, heard, raced, overrun>>

AllKilled ==
  /\ main = "kill" /\ k >= qtyThreads
  /\ main' = "join" /\ k' = 0
  /\ UNCHANGED <<session, netVars, shared, threadVars, socketVars, heard, raced, crashed,
                 overrun>>

(* One turn of the second loop. *)
JoinThread ==
  /\ main = "join" /\ k < qtyThreads /\ ~Past(k)
  /\ IF threads[k] = None
     THEN crashed' = TRUE /\ UNCHANGED threads
     ELSE /\ tstate[threads[k]] = "dead"
          /\ threads' = [threads EXCEPT ![k] = None]
          /\ UNCHANGED crashed
  /\ k' = k + 1
  /\ UNCHANGED <<main, session, netVars, qtyThreads, threadSocket, threadVars, socketVars,
                 heard, raced, overrun>>

(* A turn of either loop that goes past the tables. *)
ReadPast ==
  /\ main \in {"kill", "join"} /\ k < qtyThreads /\ Past(k)
  /\ overrun' = TRUE
  /\ UNCHANGED <<mainVars, netVars, shared, threadVars, socketVars, heard, raced, crashed>>

(* Slip: the number of threads is kept. *)
AllJoinedKeeps ==
  /\ main = "join" /\ k >= qtyThreads
  /\ main' = "over" /\ k' = 0
  /\ UNCHANGED <<session, netVars, shared, threadVars, socketVars, heard, raced, crashed,
                 overrun>>

AllJoined ==
  /\ main = "join" /\ k >= qtyThreads
  /\ main' = "over" /\ qtyThreads' = 0 /\ k' = 0
  /\ UNCHANGED <<session, netVars, threads, threadSocket, threadVars, socketVars,
                 heard, raced, crashed, overrun>>

NextSession ==
  /\ main = "over" /\ session + 1 \in Sessions
  /\ main' = "init" /\ k' = 1 /\ session' = session + 1
  /\ UNCHANGED <<netVars, shared, threadVars, socketVars, heard, raced, crashed,
                 overrun>>

Main == \/ RequestNET \/ Run \/ TimeLeft \/ Look \/ CleanNet
        \/ CloseAndKill \/ AllKilled \/ JoinThread \/ ReadPast \/ AllJoined
        \/ NextSession

-----------------------------------------------------------------------------
(* A receiving thread, net_handler. *)

Goto(t, from, to) == tstate[t] = from /\ tstate' = [tstate EXCEPT ![t] = to]

(* threadSocket[qtyThreads++] = sockfd, in three steps: the index is read  *)
(* (when the socket has been made), the new number written, the socket     *)
(* stored.                                                                 *)
OpenSocket(t) ==
  /\ Goto(t, "start", "write")
  /\ open' = open \union {t}
  /\ slot' = [slot EXCEPT ![t] = qtyThreads]
  /\ UNCHANGED <<mainVars, netVars, shared, created, tport, buffer,
                 bound, socketBuffer, nextMessage, heard, raced, crashed, overrun>>

WriteQty(t) ==
  /\ Goto(t, "write", "store")
  /\ qtyThreads' = slot[t] + 1
  /\ UNCHANGED <<mainVars, netVars, threads, threadSocket, created, tport, slot, buffer,
                 socketVars, heard, raced, crashed, overrun>>

(* bind follows, whose result is not looked at: a port that is taken       *)
(* leaves the thread without input.                                        *)
StoreSocket(t) ==
  /\ Goto(t, "store", "receive")
  /\ threadSocket' = [threadSocket EXCEPT ![slot[t]] = t]
  /\ bound' = IF \A u \in bound : tport[u] # tport[t] THEN bound \union {t} ELSE bound
  /\ slot' = [slot EXCEPT ![t] = 0]
  /\ overrun' = Past(slot[t])
  /\ UNCHANGED <<mainVars, netVars, qtyThreads, threads, created, tport, buffer, open,
                 socketBuffer, nextMessage, heard, raced, crashed>>

(* Slip: as the lines 326-329 would have it, endNet, which cleanNet sets and *)
(* nobody resets, ends the loop.                                           *)
ReceiveUnlessEnded(t) ==
  /\ session = 1
  /\ t \in bound /\ socketBuffer[t] # <<>>
  /\ Goto(t, "receive", "send")
  /\ buffer' = [buffer EXCEPT ![t] = <<Head(socketBuffer[t])>>]
  /\ socketBuffer' = [socketBuffer EXCEPT ![t] = Tail(@)]
  /\ UNCHANGED <<mainVars, netVars, shared, created, tport, slot, open, bound, nextMessage,
                 heard, raced, crashed, overrun>>

Receive(t) ==
  /\ t \in bound /\ socketBuffer[t] # <<>>
  /\ Goto(t, "receive", "send")
  /\ buffer' = [buffer EXCEPT ![t] = <<Head(socketBuffer[t])>>]
  /\ socketBuffer' = [socketBuffer EXCEPT ![t] = Tail(@)]
  /\ UNCHANGED <<mainVars, netVars, shared, created, tport, slot, open, bound, nextMessage,
                 heard, raced, crashed, overrun>>

(* Slip: in front of the others. *)
SendToFront(t) ==
  /\ Goto(t, "send", "receive")
  /\ netQueue' = IF isNetInitialized THEN buffer[t] \o netQueue ELSE netQueue
  /\ buffer' = [buffer EXCEPT ![t] = <<>>]
  /\ UNCHANGED <<mainVars, isNetInitialized, listeners, shared, created, tport, slot,
                 socketVars, heard, raced, crashed, overrun>>

(* Into a queue that was deleted nothing is put. *)
SendToQueue(t) ==
  /\ Goto(t, "send", "receive")
  /\ netQueue' = IF isNetInitialized THEN Append(netQueue, buffer[t][1]) ELSE netQueue
  /\ buffer' = [buffer EXCEPT ![t] = <<>>]
  /\ UNCHANGED <<mainVars, isNetInitialized, listeners, shared, created, tport, slot,
                 socketVars, heard, raced, crashed, overrun>>

(* endnet: the signal ends the thread wherever it is. *)
EndNet(t) ==
  /\ Goto(t, "killed", "dead")
  /\ buffer' = [buffer EXCEPT ![t] = <<>>] /\ slot' = [slot EXCEPT ![t] = 0]
  /\ UNCHANGED <<mainVars, netVars, shared, created, tport, socketVars, heard, raced, crashed,
                 overrun>>

Handler(t) == \/ OpenSocket(t) \/ WriteQty(t) \/ StoreSocket(t) \/ Receive(t)
               \/ SendToQueue(t) \/ EndNet(t)

(* A message for a port to which no socket is bound is lost. *)
NetworkSends ==
  /\ nextMessage \in Messages
  /\ \E t \in bound, y \in MessageTypes[nextMessage] :
       socketBuffer' = [socketBuffer EXCEPT ![t] = Append(@,
         [id |-> nextMessage, port |-> tport[t], type |-> y, session |-> session])]
  /\ nextMessage' = nextMessage + 1
  /\ UNCHANGED <<mainVars, netVars, shared, threadVars, open, bound, heard, raced, crashed,
                 overrun>>

Going == ~crashed /\ ~overrun

Next == Going /\ (Main \/ (\E t \in Threads : Handler(t)) \/ NetworkSends)

Spec == Init /\ [][Next]_vars

(* Every thread gets its turn, and so does the main thread in whatever it  *)
(* has begun.  Nothing makes a simulation wait for the clock (TimeLeft),   *)
(* or end.                                                                 *)
FairSpec ==
  /\ Spec
  /\ \A t \in Threads : WF_vars(Going /\ Handler(t))
  /\ WF_vars(Going /\ Main /\ main \notin {"run", "over"})

-----------------------------------------------------------------------------
(* Properties. *)

(* After cleanNet nothing is left ("close all socket and delete the ipc    *)
(* resources", pdevslib.linux.cpp:252): every socket of the simulation is  *)
(* closed and every thread has ended.  That is so when each thread had     *)
(* registered before the next one was started and before cleanNet; a       *)
(* thread that is late is neither killed nor its socket closed.  A         *)
(* simulation that asks for more than MaxThreads ports does not come to    *)
(* its end: it goes past the tables first (TablesHold).                    *)
AllReleased ==
  (main = "over" /\ ~raced) =>
    open = {} /\ \A t \in 1 .. created : tstate[t] = "dead"

(* Then no entry of threads is used that no thread was written to (the     *)
(* comment "salta segmentation fault", pdevslib.linux.cpp:266, remembers   *)
(* that it happened), and none past the end of the tables ("TODO hacerlo   *)
(* dinamico", lines 34 and 35) by a simulation that asks for at most       *)
(* MaxThreads ports, however many came before it.  A process that starts   *)
(* at most MaxThreads threads in all stays inside them, raced or not.      *)
TablesHold ==
  /\ crashed => raced
  /\ overrun => /\ created > MaxThreads
                /\ raced \/ Cardinality(PortsOf(session)) > MaxThreads

(* Who is to hear m, from the requests of the simulation alone: those for  *)
(* its port and type, in their order, but none with MaxListeners for that  *)
(* port ahead of it.                                                       *)
RequestsAhead(p, n) == Cardinality({i \in 1 .. n - 1 : Requests[session][i].port = p})

ToHear(m) ==
  LET asked == Requests[session]
      toHear[n \in Nat] ==
        IF n = 0 THEN <<>>
        ELSE IF /\ asked[n].port = m.port /\ RequestsAhead(m.port, n) < MaxListeners
                /\ AnyType \in {asked[n].type, m.type} \/ asked[n].type = m.type
             THEN Append(toHear[n - 1], <<m, asked[n].atomic>>)
        ELSE toHear[n - 1]
  IN  toHear[Len(asked)]

(* A message that leaves the queue while the simulation runs is told to    *)
(* all that asked for its port and type in this simulation, up to          *)
(* MaxListeners for a port, and to nobody else; and it was sent during     *)
(* this simulation, not during one that is over.                           *)
RightListeners ==
  [][(main = "look" /\ main' = "run" /\ netQueue # <<>>) =>
       /\ netQueue' = Tail(netQueue)
       /\ heard' = heard \o ToHear(Head(netQueue))
       /\ raced \/ Head(netQueue).session = session]_vars

(* The messages of a port are heard in the order in which they were sent,  *)
(* unless a late thread of an earlier simulation still holds one.          *)
InOrder ==
  raced \/ \A i, j \in DOMAIN heard :
    (i < j /\ heard[i][1].port = heard[j][1].port) => heard[i][1].id <= heard[j][1].id

(* What a socket has received reaches the queue and leaves it, by          *)
(* RightListeners to its listeners while the simulation runs, if waitFor   *)
(* looks into the queue again and again.  That is for a simulation which   *)
(* gets ahead of the clock again and again; another one delivers nothing   *)
(* (waitFor returns for t <= 0 before it looks, pdevslib.linux.cpp:76-77). *)
Pending(n) ==
  \/ \E t \in Threads : \E s \in {socketBuffer[t], buffer[t]} :
        tstate[t] \in Running /\ t \in bound /\ \E m \in Range(s) : m.id = n
  \/ \E m \in Range(netQueue) : m.id = n

Arrives ==
  []<>(Going /\ main = "look") => \A n \in Messages : Pending(n) ~> ~Pending(n)

=============================================================================
