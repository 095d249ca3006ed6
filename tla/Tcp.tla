-------------------------------- MODULE Tcp --------------------------------
(***************************************************************************)
(* The TCP session of atomics/network: packettcpsnd and packettcprcv, and  *)
(* between them a network that loses, delays and reorders.  A step of the  *)
(* sender is its lambda with its dint, or its dext.  Times are left out:   *)
(* what sigma schedules happens at any moment, so that a timeout may race  *)
(* any acknowledgement; of the retransmission time T_RTO it only matters   *)
(* that it is finite.                                                      *)
(*                                                                         *)
(* WND_CWND is a double.  CWND is twice its value when that is a whole     *)
(* number, and the odd number 2k + 1 stands for every value between k and  *)
(* k + 1: the code compares it with integers only.                         *)
(***************************************************************************)
EXTENDS Integers, SequencesExt

CONSTANTS MSS, DUP_ACK_LIMIT, WND_CWND_MAX,
          Thresholds,  \* possible values of the parameter WND_SSTHRESH
          Marks,       \* subset of BOOLEAN: congestion marks of the network
          Packets,     \* bound: packets of the application
          Capacity     \* bound: segments and acknowledgements under way

ASSUME TcpAssumption ==
  /\ MSS \in Nat \ {0} /\ DUP_ACK_LIMIT \in Nat \ {0} /\ WND_CWND_MAX \in Nat \ {0}
  /\ Thresholds \subseteq Nat /\ Marks \subseteq BOOLEAN
  /\ Packets \in Nat /\ Capacity \in Nat \ {0}

VARIABLES
  mystate, passive,        \* sender: its state, and whether sigma is infinite
  SendBuffer,              \* SEQ of the packets kept
  WND_NXT_SND,             \* next position of the buffer to be sent
  SEQ_NEXT_Expected_ACK, SEQ_LAST_Valid_ACK, SEQ_CYCLE_ACK, SEQ_NXT,
  ReceivedACK,             \* ReceivedACKedFromPeerLayer
  pout,                    \* SEQ of the last segment sent, 0 if NULL
  wnd,                     \* CWND, SSTHRESH, DUP_ACK, NextECN
  arrived,                 \* receiver: SEQ of arrivedPacket, 0 if there is none
  SEQ_NEXT_Expected, SEQ_LAST_Valid,
  asked,                   \* external: the queue of the application owes a packet
  data, acks,              \* external: what the network carries
  thrown,                  \* the receiver has thrown an exception
  ackLost                  \* history: an acknowledgement was lost or overtaken

sender   == <<mystate, passive, SendBuffer, WND_NXT_SND, SEQ_NEXT_Expected_ACK,
              SEQ_LAST_Valid_ACK, SEQ_CYCLE_ACK, SEQ_NXT, ReceivedACK, pout, wnd>>
receiver == <<arrived, SEQ_NEXT_Expected, SEQ_LAST_Valid>>
others   == <<receiver, asked, data, acks, thrown, ackLost>>
vars     == <<sender, receiver, asked, data, acks, thrown, ackLost>>

BUF_SIZE == Len(SendBuffer)

EndSEQ   == 1 + MSS * Packets   \* SEQ after the last packet

Init ==
  /\ mystate = "tr_REQxAPP" /\ passive = FALSE
  /\ SendBuffer = <<>> /\ WND_NXT_SND = 0
  /\ SEQ_NEXT_Expected_ACK = MSS + 1 /\ SEQ_LAST_Valid_ACK = 1
  /\ SEQ_CYCLE_ACK = 0 /\ SEQ_NXT = 1 /\ ReceivedACK = 0 /\ pout = 0
  /\ \E s \in Thresholds : wnd = [CWND |-> 2, SSTHRESH |-> s, DUP_ACK |-> 0, NextECN |-> -1]
  /\ arrived = 0 /\ SEQ_NEXT_Expected = 1 /\ SEQ_LAST_Valid = 0
  /\ asked = FALSE /\ data = <<>> /\ acks = <<>> /\ thrown = FALSE /\ ackLost = FALSE

-----------------------------------------------------------------------------
(* Arithmetic of the window. *)
Larger(a, b) == IF a > b THEN a ELSE b

(* WND_CWND / 2, and its whole part. *)
Half(c) ==
  IF c % 2 = 0 THEN c \div 2
  ELSE LET k == c \div 2 IN IF k % 2 = 0 THEN k + 1 ELSE k

HalfThresh(c) == Larger(1, Half(c) \div 2)

(* WND_CWND + 1 / WND_CWND. *)
Avoidance(c) == IF c = 2 THEN {4} ELSE IF c % 2 = 0 THEN {c + 1} ELSE {c, c + 1, c + 2}

(* The whole part of WND_CWND * MSS. *)
InFlight(c) == LET k == (c \div 2) * MSS IN IF c % 2 = 0 THEN {k} ELSE k .. k + MSS - 1

Below(n, c) == 2 * n < c     \* n < WND_CWND
Within(n, c) == 2 * n <= c

-----------------------------------------------------------------------------
(* The sender asks the queue of the application for a packet. *)
Request ==
  /\ mystate = "tr_REQxAPP"
  /\ asked' = TRUE
  /\ mystate' = "WAITxAPP"
  /\ UNCHANGED <<passive, SendBuffer, WND_NXT_SND, SEQ_NEXT_Expected_ACK, SEQ_LAST_Valid_ACK,
                 SEQ_CYCLE_ACK, SEQ_NXT, ReceivedACK, pout, wnd, receiver, data, acks, thrown, ackLost>>

(* Slip: a single packet is not sent. *)
WaitAppOverMore ==
  /\ mystate = "WAITxAPP" /\ ~passive
  /\ IF BUF_SIZE > 1
     THEN mystate' = "SENDING" /\ passive' = FALSE
     ELSE mystate' = "WAITxAPP" /\ passive' = TRUE
  /\ UNCHANGED <<SendBuffer, WND_NXT_SND, SEQ_NEXT_Expected_ACK, SEQ_LAST_Valid_ACK,
                 SEQ_CYCLE_ACK, SEQ_NXT, ReceivedACK, pout, wnd, others>>

(* No packet came for a while. *)
WaitAppOver ==
  /\ mystate = "WAITxAPP" /\ ~passive
  /\ IF BUF_SIZE > 0
     THEN mystate' = "SENDING" /\ passive' = FALSE
     ELSE mystate' = "WAITxAPP" /\ passive' = TRUE
  /\ UNCHANGED <<SendBuffer, WND_NXT_SND, SEQ_NEXT_Expected_ACK, SEQ_LAST_Valid_ACK,
                 SEQ_CYCLE_ACK, SEQ_NXT, ReceivedACK, pout, wnd, others>>

MaySend == BUF_SIZE > 0 /\ WND_NXT_SND <= BUF_SIZE /\ Within(WND_NXT_SND, wnd.CWND)

(* The network drops what it cannot hold. *)
Put(m) == data' = IF Len(data) < Capacity THEN Append(data, m) ELSE data

(* lambda sends the next segment, dint moves on. *)
Send ==
  /\ mystate = "SENDING" /\ MaySend
  /\ pout' = SendBuffer[WND_NXT_SND]
  /\ Put(pout')
  /\ SEQ_CYCLE_ACK' = IF SEQ_CYCLE_ACK = 0 THEN pout' + MSS ELSE SEQ_CYCLE_ACK
  /\ WND_NXT_SND' = WND_NXT_SND + 1
  /\ UNCHANGED <<mystate, passive, SendBuffer, SEQ_NEXT_Expected_ACK, SEQ_LAST_Valid_ACK,
                 SEQ_NXT, ReceivedACK, wnd, receiver, asked, acks, thrown, ackLost>>

(* Nothing may be sent: the sender waits for T_RTO. *)
Sent ==
  /\ mystate = "SENDING" /\ ~MaySend
  /\ mystate' = "WAITxACK"
  /\ SEQ_CYCLE_ACK' = IF SEQ_CYCLE_ACK = 0 THEN pout + MSS ELSE SEQ_CYCLE_ACK
  /\ UNCHANGED <<passive, SendBuffer, WND_NXT_SND, SEQ_NEXT_Expected_ACK, SEQ_LAST_Valid_ACK,
                 SEQ_NXT, ReceivedACK, pout, wnd, others>>

(* Slip: the position stays behind what was sent. *)
TimeoutGoesOn ==
  /\ mystate = "WAITxACK"
  /\ wnd' = [wnd EXCEPT !.DUP_ACK = 0, !.SSTHRESH = HalfThresh(wnd.CWND), !.CWND = 2]
  /\ SEQ_LAST_Valid_ACK' = -1 /\ SEQ_CYCLE_ACK' = 0
  /\ mystate' = IF Below(BUF_SIZE, 2) THEN "tr_REQxAPP" ELSE "SENDING"
  /\ UNCHANGED <<WND_NXT_SND, passive, SendBuffer, SEQ_NEXT_Expected_ACK, SEQ_NXT, ReceivedACK, pout,
                 others>>

(* The time of the acknowledgements is over: everything is sent again. *)
Timeout ==
  /\ mystate = "WAITxACK"
  /\ wnd' = [wnd EXCEPT !.DUP_ACK = 0, !.SSTHRESH = HalfThresh(wnd.CWND), !.CWND = 2]
  /\ WND_NXT_SND' = 1 /\ SEQ_LAST_Valid_ACK' = -1 /\ SEQ_CYCLE_ACK' = 0
  /\ mystate' = IF Below(BUF_SIZE, 2) THEN "tr_REQxAPP" ELSE "SENDING"
  /\ UNCHANGED <<passive, SendBuffer, SEQ_NEXT_Expected_ACK, SEQ_NXT, ReceivedACK, pout,
                 others>>

-----------------------------------------------------------------------------
(* The queue of the application answers a request. *)
Data ==
  /\ asked /\ SEQ_NXT + MSS <= EndSEQ
  /\ asked' = FALSE
  /\ SendBuffer' = Append(SendBuffer, SEQ_NXT)
  /\ SEQ_NXT' = SEQ_NXT + MSS
  /\ WND_NXT_SND' = IF Len(SendBuffer') = 1 THEN 1 ELSE WND_NXT_SND
  /\ IF mystate = "WAITxAPP"
     THEN /\ mystate' = IF Below(Len(SendBuffer'), wnd.CWND) THEN "tr_REQxAPP" ELSE "SENDING"
          /\ passive' = FALSE
     ELSE UNCHANGED <<mystate, passive>>
  /\ UNCHANGED <<SEQ_NEXT_Expected_ACK, SEQ_LAST_Valid_ACK, SEQ_CYCLE_ACK, ReceivedACK, pout,
                 wnd, receiver, data, acks, thrown, ackLost>>

(* The window after a valid acknowledgement: the end of fast recovery, or  *)
(* slow start, or congestion avoidance.                                    *)
Recovering    == wnd.DUP_ACK >= DUP_ACK_LIMIT
CycleAck(ack) == ack <= SEQ_CYCLE_ACK
AfterValid(ack) ==
  {[wnd EXCEPT !.CWND = c, !.DUP_ACK = 0] : c \in
     IF Recovering THEN {2 * wnd.SSTHRESH}
     ELSE IF ~CycleAck(ack) THEN {wnd.CWND}
     ELSE IF wnd.CWND < 2 * wnd.SSTHRESH THEN {wnd.CWND + 2}
     ELSE Avoidance(wnd.CWND)}

(* The window after a duplicate one: fast retransmit at the limit, a       *)
(* larger window beyond it.  Beyond the limit the counter need not count.  *)
AfterDup(ack) ==
  LET dup == wnd.DUP_ACK + 1
  IN  IF dup = DUP_ACK_LIMIT
      THEN {[CWND |-> Half(wnd.CWND) + 6, SSTHRESH |-> HalfThresh(wnd.CWND),
             DUP_ACK |-> dup, NextECN |-> ack + n] : n \in InFlight(wnd.CWND)}
      ELSE IF dup > DUP_ACK_LIMIT
      THEN {[wnd EXCEPT !.DUP_ACK = DUP_ACK_LIMIT + 1,
                        !.CWND = IF wnd.CWND + 2 > 2 * WND_CWND_MAX THEN 2 * WND_CWND_MAX
                                 ELSE wnd.CWND + 2]}
      ELSE {[wnd EXCEPT !.DUP_ACK = dup]}

(* The window w after the congestion mark that the acknowledgement brings. *)
AfterMark(w, ack, mark) ==
  IF ~mark \/ ack < w.NextECN THEN {w}
  ELSE {[CWND |-> Larger(2, Half(w.CWND)), SSTHRESH |-> HalfThresh(w.CWND),
         DUP_ACK |-> 0, NextECN |-> ack + n] : n \in InFlight(w.CWND)}

(* What arrives from the acknowledgements under way. *)
AckArrives(i) ==
  /\ i \in DOMAIN acks
  /\ ackLost' = (ackLost \/ i # 1)
  /\ acks' = RemoveAt(acks, i)
  /\ ReceivedACK' = acks[i]

(* Slip: the newest packet leaves the buffer. *)
Newest == Front(SendBuffer)
Popped == Tail(SendBuffer)

(* Slip: the position passes the head. *)
StepFarBack == WND_NXT_SND - 1

(* The position is relative to the head of the buffer. *)
StepBack == Larger(1, WND_NXT_SND - 1)

(* The acknowledgement that is expected next: its packet leaves the buffer. *)
ValidAck(i) ==
  /\ AckArrives(i) /\ acks[i] = SEQ_NEXT_Expected_ACK
  /\ SendBuffer' = Popped
  /\ SEQ_LAST_Valid_ACK' = acks[i]
  /\ SEQ_NEXT_Expected_ACK' = SEQ_NEXT_Expected_ACK + MSS
  /\ WND_NXT_SND' = StepBack
  /\ \E w \in AfterValid(acks[i]), mark \in Marks : wnd' \in AfterMark(w, acks[i], mark)
  /\ SEQ_CYCLE_ACK' = IF Recovering \/ CycleAck(acks[i]) THEN 0 ELSE SEQ_CYCLE_ACK
  /\ mystate' = IF mystate = "WAITxACK" THEN "tr_REQxAPP" ELSE mystate
  /\ UNCHANGED <<passive, SEQ_NXT, pout, receiver, asked, data, thrown>>

(* The last valid one again.  At the limit and beyond it the mark is not   *)
(* looked at, and a sender that waits goes on sending.                     *)
DupAck(i) ==
  LET limit == wnd.DUP_ACK + 1 >= DUP_ACK_LIMIT
      first == wnd.DUP_ACK + 1 = DUP_ACK_LIMIT
  IN  /\ AckArrives(i) /\ acks[i] # SEQ_NEXT_Expected_ACK /\ acks[i] = SEQ_LAST_Valid_ACK
      /\ \E w \in AfterDup(acks[i]), mark \in Marks : wnd' \in AfterMark(w, acks[i], mark /\ ~limit)
      /\ WND_NXT_SND'   = IF first THEN 1 ELSE WND_NXT_SND
      /\ SEQ_CYCLE_ACK' = IF first THEN 0 ELSE SEQ_CYCLE_ACK
      /\ mystate' = IF limit /\ mystate = "WAITxACK" THEN "SENDING" ELSE mystate
      /\ UNCHANGED <<passive, SendBuffer, SEQ_NEXT_Expected_ACK, SEQ_LAST_Valid_ACK, SEQ_NXT,
                     pout, receiver, asked, data, thrown>>

(* Any other one, also one that confirms more than was expected. *)
OtherAck(i) ==
  /\ AckArrives(i) /\ acks[i] \notin {SEQ_NEXT_Expected_ACK, SEQ_LAST_Valid_ACK}
  /\ \E mark \in Marks : wnd' \in AfterMark(wnd, acks[i], mark)
  /\ UNCHANGED <<mystate, passive, SendBuffer, WND_NXT_SND, SEQ_NEXT_Expected_ACK,
                 SEQ_LAST_Valid_ACK, SEQ_CYCLE_ACK, SEQ_NXT, pout, receiver, asked, data, thrown>>

-----------------------------------------------------------------------------
(* Slip: every segment that arrives is taken for the next one. *)
ReceiveAny(i) ==
  /\ i \in DOMAIN data /\ arrived = 0
  /\ data' = RemoveAt(data, i) /\ arrived' = data[i]
  /\ SEQ_LAST_Valid' = data[i] /\ SEQ_NEXT_Expected' = SEQ_NEXT_Expected + MSS
  /\ UNCHANGED <<sender, asked, acks, thrown, ackLost>>

(* A segment arrives: only the next one counts, but all are acknowledged. *)
Receive(i) ==
  /\ i \in DOMAIN data /\ arrived = 0
  /\ data' = RemoveAt(data, i) /\ arrived' = data[i]
  /\ IF data[i] = SEQ_NEXT_Expected
     THEN SEQ_LAST_Valid' = data[i] /\ SEQ_NEXT_Expected' = SEQ_NEXT_Expected + MSS
     ELSE UNCHANGED <<SEQ_LAST_Valid, SEQ_NEXT_Expected>>
  /\ UNCHANGED <<sender, asked, acks, thrown, ackLost>>

(* At the same time as the one before: an exception ends the simulation. *)
Overrun(i) ==
  /\ i \in DOMAIN data /\ arrived # 0
  /\ data' = RemoveAt(data, i) /\ thrown' = TRUE
  /\ UNCHANGED <<sender, receiver, asked, acks, ackLost>>

Acknowledge ==
  /\ arrived # 0 /\ Len(acks) < Capacity
  /\ acks' = Append(acks, SEQ_LAST_Valid + MSS)
  /\ arrived' = 0
  /\ UNCHANGED <<sender, SEQ_NEXT_Expected, SEQ_LAST_Valid, asked, data, thrown, ackLost>>

LoseData == \E i \in DOMAIN data :
  data' = RemoveAt(data, i) /\ UNCHANGED <<sender, receiver, asked, acks, thrown, ackLost>>

LoseAck == \E i \in DOMAIN acks :
  acks' = RemoveAt(acks, i) /\ ackLost' = TRUE /\ UNCHANGED <<sender, receiver, asked, data, thrown>>

-----------------------------------------------------------------------------
SndNext == Request \/ WaitAppOver \/ Send \/ Sent \/ Timeout
AckNext == \E i \in 1 .. Len(acks) : ValidAck(i) \/ DupAck(i) \/ OtherAck(i)
RcvNext == \E i \in 1 .. Len(data) : Receive(i) \/ Overrun(i)

Next == /\ ~thrown
        /\ SndNext \/ Data \/ AckNext \/ RcvNext \/ Acknowledge \/ LoseData \/ LoseAck

Spec == Init /\ [][Next]_vars

(* Models make the transitions they have scheduled; what is sent again and *)
(* again arrives some time.                                                *)
FairSpec ==
  /\ Spec
  /\ WF_vars(~thrown /\ SndNext) /\ WF_vars(~thrown /\ Data) /\ WF_vars(~thrown /\ Acknowledge)
  /\ WF_vars(~thrown /\ AckNext)
  /\ \A k \in 0 .. Packets - 1 :
       SF_vars(~thrown /\ \E i \in 1 .. Len(data) : data[i] = 1 + MSS * k /\ (Receive(i) \/ Overrun(i)))

-----------------------------------------------------------------------------
States == {"WAITxAPP", "WAITxACK", "SENDING", "tr_REQxAPP"}
SEQs   == 1 .. EndSEQ

TypeOK ==
  /\ mystate \in States /\ passive \in BOOLEAN
  /\ SendBuffer \in Seq(SEQs) /\ WND_NXT_SND \in Nat
  /\ SEQ_NEXT_Expected_ACK \in Nat /\ SEQ_LAST_Valid_ACK \in Int
  /\ SEQ_CYCLE_ACK \in Nat /\ SEQ_NXT \in SEQs /\ ReceivedACK \in Nat /\ pout \in SEQs \cup {0}
  /\ wnd \in [CWND : Nat, SSTHRESH : Nat, DUP_ACK : 0 .. DUP_ACK_LIMIT + 1, NextECN : Int]
  /\ arrived \in SEQs \cup {0} /\ SEQ_NEXT_Expected \in SEQs /\ SEQ_LAST_Valid \in SEQs \cup {0}
  /\ asked \in BOOLEAN /\ data \in Seq(SEQs) /\ acks \in Seq(Nat) /\ thrown \in BOOLEAN
  /\ ackLost \in BOOLEAN

(* Whatever is lost, late or out of order, the packets arrive in their     *)
(* order, each once, and the sender drops one only after it has arrived.   *)
S == INSTANCE Stream WITH
  Unit     <- MSS,
  given    <- SEQ_NXT - 1,
  accepted <- SEQ_NEXT_Expected - 1,
  dropped  <- SEQ_NEXT_Expected_ACK - 1 - MSS
ImplementsStream == S!Spec

(* The buffer holds what was given and not yet acknowledged, in order. *)
BufferHolds ==
  /\ SendBuffer = <<>> => SEQ_NXT = SEQ_NEXT_Expected_ACK - MSS
  /\ SendBuffer # <<>> => /\ SendBuffer[1] = SEQ_NEXT_Expected_ACK - MSS
                         /\ SendBuffer[BUF_SIZE] = SEQ_NXT - MSS
  /\ \A i \in 1 .. BUF_SIZE - 1 : SendBuffer[i + 1] = SendBuffer[i] + MSS

(* No position outside the buffer is read, pop_front() finds a packet, and *)
(* dint does not read the segment sent before there was one.               *)
BufferSafe ==
  /\ mystate = "SENDING" => WND_NXT_SND >= 1 /\ (MaySend \/ SEQ_CYCLE_ACK # 0 \/ pout # 0)
  /\ \A i \in DOMAIN acks : acks[i] = SEQ_NEXT_Expected_ACK => SendBuffer # <<>>

(* The position is at most one ahead of the buffer, whatever else empties  *)
(* the buffer meanwhile: the packet that comes next is not skipped.        *)
NoneSkipped == WND_NXT_SND <= BUF_SIZE + 1

(* A sender that waits for ever keeps no packet. *)
NotStranded == passive => mystate = "WAITxAPP" /\ SendBuffer = <<>>

(* The window never closes: at least one packet may always be sent. *)
WindowOpen == wnd.CWND >= 2

(* A packet that the other end confirms as valid has left the buffer. *)
ConfirmedLeaves == \A i \in DOMAIN SendBuffer : ReceivedACK <= SendBuffer[i]

(* The whole stream arrives and is acknowledged, however many segments     *)
(* are lost, as long as no acknowledgement is lost or overtaken.           *)
AllAcknowledged == <>(thrown \/ ackLost \/ SEQ_NEXT_Expected_ACK = EndSEQ + MSS)

=============================================================================
