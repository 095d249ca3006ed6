----------------------------- MODULE Tcp_proofs -----------------------------
(***************************************************************************)
(* Safety of a TCP session for every size of packets and limit, and        *)
(* whatever the network does: it implements the stream, and the sender's   *)
(* buffer, position and window stay sound.                                 *)
(***************************************************************************)
EXTENDS Tcp, SequenceTheorems, TLAPS

(* What has been sent, accepted and confirmed is never more than the step  *)
(* before it.  The first acknowledgements may name no packet at all: MSS.  *)
Order ==
  /\ SEQ_NEXT_Expected <= SEQ_NXT
  /\ MSS + 1 <= SEQ_NEXT_Expected_ACK /\ SEQ_NEXT_Expected_ACK <= SEQ_NEXT_Expected + MSS
  /\ SEQ_LAST_Valid = 0 \/ SEQ_LAST_Valid + MSS <= SEQ_NEXT_Expected
  /\ \A i \in DOMAIN SendBuffer : SendBuffer[i] + MSS <= SEQ_NXT
  /\ \A i \in DOMAIN data : data[i] + MSS <= SEQ_NXT
  /\ \A i \in DOMAIN acks : acks[i] = MSS \/ acks[i] <= SEQ_NEXT_Expected

(* The position, and that something has been sent when it is left behind. *)
Position ==
  /\ WND_NXT_SND <= BUF_SIZE + 1
  /\ WND_NXT_SND = 0 => SendBuffer = <<>> /\ mystate \in {"tr_REQxAPP", "WAITxAPP"}
  /\ pout = 0 => /\ data = <<>> /\ acks = <<>> /\ arrived = 0
                 /\ WND_NXT_SND <= 1 /\ mystate # "WAITxACK"
                 /\ mystate = "SENDING" => SendBuffer # <<>>

WindowOk(w) ==
  /\ w \in [CWND : Nat, SSTHRESH : Nat, DUP_ACK : 0 .. DUP_ACK_LIMIT + 1, NextECN : Int]
  /\ w.CWND >= 2
  /\ w.DUP_ACK >= DUP_ACK_LIMIT => w.SSTHRESH >= 1

Window == WindowOk(wnd)

IInv == TypeOK /\ Order /\ BufferHolds /\ Position /\ Window /\ NotStranded

-----------------------------------------------------------------------------
(* What is left of a channel after one message is gone was in it before. *)
LEMMA RemoveAtElements ==
  ASSUME NEW E, NEW ch \in Seq(E), NEW i \in 1 .. Len(ch)
  PROVE  /\ RemoveAt(ch, i) \in Seq(E)
         /\ \A j \in DOMAIN RemoveAt(ch, i) : \E k \in DOMAIN ch : RemoveAt(ch, i)[j] = ch[k]
<1> DEFINE a == SubSeq(ch, 1, i - 1)
           b == SubSeq(ch, i + 1, Len(ch))
           n == Len(ch)
<1>0. i \in 1 .. n /\ i \in Nat /\ n \in Nat /\ DOMAIN ch = 1 .. n
  OBVIOUS
<1>1. a \in Seq(E) /\ Len(a) = i - 1 /\ \A j \in 1 .. i - 1 : a[j] = ch[j]
  BY <1>0, SubSeqProperties, Z3
<1>2. /\ b \in Seq(E)
      /\ Len(b) = n - i
      /\ \A j \in 1 .. n - i : b[j] = ch[i + j]
  <2>1. \A j \in i + 1 .. n : ch[j] \in E
    BY <1>0
  <2>2. /\ b \in Seq(E)
        /\ Len(b) = IF i + 1 <= n THEN n - (i + 1) + 1 ELSE 0
        /\ \A j \in 1 .. n - (i + 1) + 1 : b[j] = ch[(i + 1) + j - 1]
    <3> HIDE DEF n
    <3> QED BY <2>1, <1>0, SubSeqProperties, Z3 DEF n
  <2> HIDE DEF b, n
  <2>3. ASSUME NEW j \in 1 .. n - i
        PROVE  b[j] = ch[i + j]
    <3>1. j \in 1 .. n - (i + 1) + 1 /\ (i + 1) + j - 1 = i + j
      BY <1>0
    <3> QED BY <2>2, <3>1
  <2>4. Len(b) = n - i
    BY <2>2, <1>0
  <2> QED BY <2>2, <2>3, <2>4
<1> HIDE DEF a, b, n
<1>3. /\ a \o b \in Seq(E) /\ Len(a \o b) = n - 1
      /\ \A j \in 1 .. n - 1 : (a \o b)[j] = IF j <= i - 1 THEN a[j] ELSE b[j - (i - 1)]
  <2>1. /\ a \o b \in Seq(E) /\ Len(a \o b) = Len(a) + Len(b)
        /\ \A j \in 1 .. Len(a) + Len(b) :
             (a \o b)[j] = IF j <= Len(a) THEN a[j] ELSE b[j - Len(a)]
    BY <1>1, <1>2, ConcatProperties, Zenon
  <2>2. Len(a) + Len(b) = n - 1
    BY <1>0, <1>1, <1>2
  <2> QED BY <2>1, <2>2, <1>1
<1>4. ASSUME NEW j \in 1 .. n - 1
      PROVE  \E k \in DOMAIN ch : (a \o b)[j] = ch[k]
  <2>1. CASE j <= i - 1
    <3>1. (a \o b)[j] = ch[j] /\ j \in DOMAIN ch
      BY <2>1, <1>0, <1>1, <1>3
    <3> QED BY <3>1
  <2>2. CASE j > i - 1
    <3>1. (a \o b)[j] = b[j - (i - 1)] /\ j - (i - 1) \in 1 .. n - i
      BY <2>2, <1>0, <1>3
    <3>2. b[j - (i - 1)] = ch[i + (j - (i - 1))] /\ i + (j - (i - 1)) \in DOMAIN ch
      BY <3>1, <1>0, <1>2
    <3> QED BY <3>1, <3>2
  <2>3. j <= i - 1 \/ j > i - 1
    BY <1>0
  <2> QED BY <2>1, <2>2, <2>3, Zenon
<1>5. DOMAIN (a \o b) = 1 .. n - 1
  BY <1>3
<1> QED BY <1>3, <1>4, <1>5 DEF RemoveAt, a, b, n

LEMMA AppendElements ==
  ASSUME NEW E, NEW ch \in Seq(E), NEW e \in E
  PROVE  /\ Append(ch, e) \in Seq(E)
         /\ \A j \in DOMAIN Append(ch, e) :
              Append(ch, e)[j] = e \/ \E k \in DOMAIN ch : Append(ch, e)[j] = ch[k]
<1>1. /\ Append(ch, e) \in Seq(E) /\ Len(Append(ch, e)) = Len(ch) + 1
      /\ \A j \in 1 .. Len(ch) : Append(ch, e)[j] = ch[j]
      /\ Append(ch, e)[Len(ch) + 1] = e
  BY AppendProperties
<1>2. DOMAIN Append(ch, e) = 1 .. Len(ch) + 1 /\ Len(ch) \in Nat /\ DOMAIN ch = 1 .. Len(ch)
  BY <1>1
<1> QED BY <1>1, <1>2

-----------------------------------------------------------------------------
LEMMA HalfOf ==
  ASSUME NEW c \in Nat
  PROVE  Half(c) \in Nat /\ HalfThresh(c) \in Nat /\ HalfThresh(c) >= 1
<1>1. Half(c) \in Nat
  BY DEF Half
<1> DEFINE h == Half(c)
<1> HIDE DEF h
<1>2. h \div 2 \in Nat
  BY <1>1 DEF h
<1>3. Larger(1, h \div 2) \in Nat /\ Larger(1, h \div 2) >= 1
  BY <1>2 DEF Larger
<1> QED BY <1>1, <1>3 DEF HalfThresh, h

LEMMA InFlightInt ==
  ASSUME NEW c \in Nat, NEW n \in InFlight(c)
  PROVE  n \in Int
<1>1. \A k \in Nat : k * MSS \in Nat
  BY TcpAssumption
<1>2. c \div 2 \in Nat
  OBVIOUS
<1>3. (c \div 2) * MSS \in Nat
  BY <1>1, <1>2
<1> DEFINE k == (c \div 2) * MSS
<1> HIDE DEF k
<1> QED BY <1>3, TcpAssumption DEF InFlight, k

(* Congestion control keeps the window open. *)
LEMMA MarkKeepsWindow ==
  ASSUME NEW w, WindowOk(w), NEW ack \in Nat, NEW mark, NEW v \in AfterMark(w, ack, mark)
  PROVE  WindowOk(v)
<1>1. CASE v = w
  BY <1>1
<1>2. CASE v # w
  <2>1. PICK n \in InFlight(w.CWND) :
          v = [CWND |-> Larger(2, Half(w.CWND)), SSTHRESH |-> HalfThresh(w.CWND),
               DUP_ACK |-> 0, NextECN |-> ack + n]
    BY <1>2 DEF AfterMark
  <2>2. n \in Int /\ Half(w.CWND) \in Nat /\ HalfThresh(w.CWND) \in Nat
    BY HalfOf, InFlightInt DEF WindowOk
  <2>3. Larger(2, Half(w.CWND)) \in Nat /\ Larger(2, Half(w.CWND)) >= 2
    BY <2>2 DEF Larger
  <2> QED BY <2>1, <2>2, <2>3, TcpAssumption DEF WindowOk
<1> QED BY <1>1, <1>2

LEMMA ValidKeepsWindow ==
  ASSUME WindowOk(wnd), NEW ack \in Nat, NEW v \in AfterValid(ack)
  PROVE  WindowOk(v)
<1>1. PICK c : v = [wnd EXCEPT !.CWND = c, !.DUP_ACK = 0]
               /\ \/ Recovering /\ c = 2 * wnd.SSTHRESH
                  \/ c = wnd.CWND
                  \/ c = wnd.CWND + 2
                  \/ c \in Avoidance(wnd.CWND)
  BY DEF AfterValid
<1>2. c \in Nat /\ c >= 2
  BY <1>1 DEF WindowOk, Recovering, Avoidance
<1>3. v = [CWND |-> c, SSTHRESH |-> wnd.SSTHRESH, DUP_ACK |-> 0, NextECN |-> wnd.NextECN]
  BY <1>1 DEF WindowOk
<1> QED BY <1>2, <1>3, TcpAssumption DEF WindowOk

LEMMA DupKeepsWindow ==
  ASSUME WindowOk(wnd), NEW ack \in Nat, NEW v \in AfterDup(ack)
  PROVE  WindowOk(v)
<1> DEFINE dup == wnd.DUP_ACK + 1
<1>0. dup \in 1 .. DUP_ACK_LIMIT + 2 /\ wnd.CWND \in Nat /\ DUP_ACK_LIMIT \in Nat
  BY TcpAssumption DEF WindowOk
<1>1. CASE dup = DUP_ACK_LIMIT
  <2>1. PICK n \in InFlight(wnd.CWND) :
          v = [CWND |-> Half(wnd.CWND) + 6, SSTHRESH |-> HalfThresh(wnd.CWND),
               DUP_ACK |-> dup, NextECN |-> ack + n]
    BY <1>1 DEF AfterDup
  <2>2. /\ n \in Int /\ Half(wnd.CWND) \in Nat
        /\ HalfThresh(wnd.CWND) \in Nat /\ HalfThresh(wnd.CWND) >= 1
    BY <1>0, HalfOf, InFlightInt
  <2> QED BY <2>1, <2>2, <1>0, <1>1 DEF WindowOk
<1>2. CASE dup > DUP_ACK_LIMIT
  <2> DEFINE c == IF wnd.CWND + 2 > 2 * WND_CWND_MAX THEN 2 * WND_CWND_MAX ELSE wnd.CWND + 2
  <2>1. v = [wnd EXCEPT !.DUP_ACK = DUP_ACK_LIMIT + 1, !.CWND = c]
    BY <1>0, <1>2 DEF AfterDup
  <2>2. c \in Nat /\ c >= 2
    BY <1>0, TcpAssumption
  <2>3. wnd.SSTHRESH >= 1
    BY <1>0, <1>2 DEF WindowOk
  <2> HIDE DEF c
  <2>4. v = [CWND |-> c, SSTHRESH |-> wnd.SSTHRESH, DUP_ACK |-> DUP_ACK_LIMIT + 1,
             NextECN |-> wnd.NextECN]
    BY <2>1 DEF WindowOk
  <2> QED BY <2>2, <2>3, <2>4, <1>0 DEF WindowOk
<1>3. CASE dup < DUP_ACK_LIMIT
  <2>1. v = [wnd EXCEPT !.DUP_ACK = dup]
    BY <1>0, <1>3 DEF AfterDup
  <2> QED BY <2>1, <1>0, <1>3 DEF WindowOk
<1> QED BY <1>0, <1>1, <1>2, <1>3

-----------------------------------------------------------------------------
LEMMA Numbers == MSS \in Nat /\ MSS >= 1 /\ EndSEQ \in Nat /\ EndSEQ >= 1
<1>1. \A a, b \in Nat : a * b \in Nat
  OBVIOUS
<1> QED BY <1>1, TcpAssumption DEF EndSEQ

(* The name stands for an expression only. *)
USE DEF BUF_SIZE

LEMMA Initially == Init => IInv
<1> SUFFICES ASSUME Init PROVE IInv
  OBVIOUS
<1>1. PICK s \in Thresholds :
        wnd = [CWND |-> 2, SSTHRESH |-> s, DUP_ACK |-> 0, NextECN |-> -1]
  BY DEF Init
<1>2. WindowOk(wnd)
  BY <1>1, TcpAssumption DEF WindowOk
<1>3. TypeOK
  <2>1. <<>> \in Seq(SEQs) /\ <<>> \in Seq(Nat) /\ 1 \in SEQs
    BY Numbers, EmptySeq DEF SEQs
  <2>2. mystate \in States /\ passive \in BOOLEAN /\ asked \in BOOLEAN /\ thrown \in BOOLEAN
        /\ ackLost \in BOOLEAN
    BY Zenon DEF Init, States
  <2>4. /\ WND_NXT_SND \in Nat /\ SEQ_NEXT_Expected_ACK \in Nat /\ SEQ_LAST_Valid_ACK \in Int
        /\ SEQ_CYCLE_ACK \in Nat /\ ReceivedACK \in Nat
    BY Numbers DEF Init
  <2>3. /\ SEQ_NXT \in SEQs /\ pout \in SEQs \cup {0} /\ arrived \in SEQs \cup {0}
        /\ SEQ_NEXT_Expected \in SEQs /\ SEQ_LAST_Valid \in SEQs \cup {0}
        /\ SendBuffer \in Seq(SEQs) /\ data \in Seq(SEQs) /\ acks \in Seq(Nat)
    BY <2>1 DEF Init
  <2> QED BY <1>2, <2>2, <2>3, <2>4, Zenon DEF TypeOK, WindowOk
<1>4. Order
  BY Numbers DEF Init, Order
<1>5. BufferHolds
  BY Numbers DEF Init, BufferHolds
<1>6. Position
  BY DEF Init, Position
<1> QED BY <1>2, <1>3, <1>4, <1>5, <1>6 DEF Init, IInv, Window, NotStranded

LEMMA RequestKeeps == IInv /\ Request => IInv'
<1> SUFFICES ASSUME IInv, Request PROVE IInv'
  OBVIOUS
<1>1. TypeOK'
  BY DEF IInv, Request, TypeOK, States, receiver
<1>2. (Order /\ BufferHolds /\ Window)'
  BY DEF IInv, Request, Order, BufferHolds, Window, receiver
<1>3. Position' /\ NotStranded'
  BY DEF IInv, Request, Position, NotStranded, receiver
<1> QED BY <1>1, <1>2, <1>3 DEF IInv

LEMMA WaitAppOverKeeps == IInv /\ WaitAppOver => IInv'
<1> SUFFICES ASSUME IInv, WaitAppOver PROVE IInv'
  OBVIOUS
<1>1. TypeOK'
  BY DEF IInv, WaitAppOver, TypeOK, States, others, receiver
<1>2. (Order /\ BufferHolds /\ Window)'
  BY DEF IInv, WaitAppOver, Order, BufferHolds, Window, others, receiver
<1>3. Position' /\ NotStranded'
  BY DEF IInv, WaitAppOver, TypeOK, Position, NotStranded, others, receiver
<1> QED BY <1>1, <1>2, <1>3 DEF IInv

LEMMA SendKeeps == IInv /\ Send => IInv'
<1> SUFFICES ASSUME IInv, Send PROVE IInv'
  OBVIOUS
<1>1. /\ BUF_SIZE \in Nat /\ WND_NXT_SND \in 1 .. BUF_SIZE
      /\ DOMAIN SendBuffer = 1 .. BUF_SIZE
  BY DEF IInv, TypeOK, Position, Send, MaySend
<1>2. pout' \in SEQs /\ pout' + MSS <= SEQ_NXT
  BY <1>1, ElementOfSeq DEF IInv, TypeOK, Order, Send
<1>3. /\ data' \in Seq(SEQs)
      /\ \A j \in DOMAIN data' : data'[j] + MSS <= SEQ_NXT
  BY <1>2, AppendElements DEF IInv, TypeOK, Order, Send, Put
<1>4. TypeOK'
  <2>1. pout' \in Nat
    BY <1>2, Numbers DEF SEQs
  <2>2. SEQ_CYCLE_ACK' \in Nat /\ WND_NXT_SND' \in Nat
    BY <1>1, <2>1, Numbers DEF IInv, Send, TypeOK
  <2> QED BY <1>2, <1>3, <2>2 DEF IInv, Send, TypeOK, receiver
<1>5. Order'
  BY <1>3 DEF IInv, Send, Order, receiver
<1>6. (BufferHolds /\ Window)'
  BY DEF IInv, Send, BufferHolds, Window
<1>7. Position' /\ NotStranded'
  BY <1>1, <1>2, Numbers DEF IInv, Send, SEQs, Position, NotStranded
<1> QED BY <1>4, <1>5, <1>6, <1>7 DEF IInv

LEMMA SentKeeps == IInv /\ Sent => IInv'
<1> SUFFICES ASSUME IInv, Sent PROVE IInv'
  OBVIOUS
<1>1. TypeOK'
  BY Numbers DEF IInv, Sent, TypeOK, States, SEQs, others, receiver
<1>2. (Order /\ BufferHolds /\ Window)'
  BY DEF IInv, Sent, Order, BufferHolds, Window, others, receiver
<1>3. pout # 0
  BY DEF IInv, TypeOK, Sent, MaySend, Within, Position, Window, WindowOk
<1>4. Position' /\ NotStranded'
  BY <1>3 DEF IInv, Sent, Position, NotStranded, others, receiver
<1> QED BY <1>1, <1>2, <1>4 DEF IInv

LEMMA TimeoutKeeps == IInv /\ Timeout => IInv'
<1> SUFFICES ASSUME IInv, Timeout PROVE IInv'
  OBVIOUS
<1>1. HalfThresh(wnd.CWND) \in Nat
  BY HalfOf DEF IInv, TypeOK
<1>2. wnd' = [CWND |-> 2, SSTHRESH |-> HalfThresh(wnd.CWND), DUP_ACK |-> 0,
              NextECN |-> wnd.NextECN]
  BY DEF IInv, TypeOK, Timeout
<1>3. WindowOk(wnd')
  BY <1>1, <1>2, TcpAssumption DEF IInv, TypeOK, WindowOk
<1>4. TypeOK'
  BY <1>3 DEF IInv, Timeout, TypeOK, States, WindowOk, others, receiver
<1>5. (Order /\ BufferHolds)'
  BY DEF IInv, Timeout, Order, BufferHolds, others, receiver
<1>6. Position' /\ NotStranded'
  BY DEF IInv, TypeOK, Timeout, Below, Position, NotStranded, others, receiver
<1>7. Window'
  BY <1>3 DEF Window, WindowOk
<1> QED BY <1>4, <1>5, <1>6, <1>7 DEF IInv

LEMMA DataKeeps == IInv /\ Data => IInv'
<1> SUFFICES ASSUME IInv, Data PROVE IInv'
  OBVIOUS
<1> DEFINE n == Len(SendBuffer)
<1>1. /\ SendBuffer \in Seq(SEQs) /\ n \in Nat /\ DOMAIN SendBuffer = 1 .. n
      /\ SEQ_NXT \in SEQs /\ SEQ_NXT \in Nat /\ SEQ_NXT' \in SEQs /\ SEQ_NXT' = SEQ_NXT + MSS
  BY Numbers DEF IInv, TypeOK, Data, SEQs
<1>2. /\ SendBuffer' \in Seq(SEQs) /\ Len(SendBuffer') = n + 1
      /\ \A j \in 1 .. n : SendBuffer'[j] = SendBuffer[j]
      /\ SendBuffer'[n + 1] = SEQ_NXT
  BY <1>1, AppendProperties DEF Data
<1>3. DOMAIN SendBuffer' = 1 .. n + 1 /\ SendBuffer' # <<>>
  BY <1>1, <1>2
<1>4. SendBuffer = <<>> <=> n = 0
  BY <1>1
<1> HIDE DEF n
<1>5. TypeOK'
  BY <1>1, <1>2 DEF IInv, Data, TypeOK, States, receiver
<1>6. Order'
  <2>1. \A j \in DOMAIN SendBuffer' : SendBuffer'[j] + MSS <= SEQ_NXT'
    <3> SUFFICES ASSUME NEW j \in 1 .. n + 1 PROVE SendBuffer'[j] + MSS <= SEQ_NXT'
      BY <1>3
    <3>1. CASE j = n + 1
      BY <3>1, <1>1, <1>2, Numbers
    <3>2. CASE j # n + 1
      <4>1. j \in 1 .. n
        BY <3>2, <1>1
      <4>2. SendBuffer[j] \in SEQs /\ SendBuffer[j] + MSS <= SEQ_NXT
        BY <4>1, <1>1, ElementOfSeq DEF IInv, Order, n
      <4> QED BY <4>1, <4>2, <1>1, <1>2, Numbers DEF SEQs
    <3> QED BY <3>1, <3>2
  <2>2. \A j \in DOMAIN data' : data'[j] + MSS <= SEQ_NXT'
    <3> SUFFICES ASSUME NEW j \in DOMAIN data PROVE data[j] + MSS <= SEQ_NXT'
      BY DEF Data
    <3>1. data[j] \in SEQs /\ data[j] + MSS <= SEQ_NXT
      BY DEF IInv, TypeOK, Order
    <3> QED BY <3>1, <1>1, Numbers DEF SEQs
  <2>3. SEQ_NEXT_Expected <= SEQ_NXT'
    BY <1>1, Numbers DEF IInv, TypeOK, Order, SEQs
  <2> QED BY <2>1, <2>2, <2>3 DEF IInv, Order, Data, receiver
<1>7. BufferHolds'
  <2>1. SendBuffer'[Len(SendBuffer')] = SEQ_NXT' - MSS
    BY <1>1, <1>2, Numbers
  <2>2. SendBuffer'[1] = SEQ_NEXT_Expected_ACK' - MSS
    BY <1>1, <1>2, <1>4 DEF IInv, BufferHolds, Data, n
  <2>3. ASSUME NEW j \in 1 .. n
        PROVE  SendBuffer'[j + 1] = SendBuffer'[j] + MSS
    <3>1. CASE j = n
      <4>1. SendBuffer[n] = SEQ_NXT - MSS
        BY <3>1, <1>1, <1>4 DEF IInv, BufferHolds, n
      <4> QED BY <3>1, <4>1, <1>1, <1>2, Numbers
    <3>2. CASE j # n
      <4>1. j \in 1 .. n - 1 /\ j + 1 \in 1 .. n
        BY <3>2, <1>1
      <4>2. SendBuffer[j + 1] = SendBuffer[j] + MSS
        BY <4>1 DEF IInv, BufferHolds, n
      <4> QED BY <4>1, <4>2, <1>2
    <3> QED BY <3>1, <3>2
  <2>4. Len(SendBuffer') - 1 = n
    BY <1>1, <1>2
  <2> QED BY <2>1, <2>2, <2>3, <2>4, <1>3 DEF BufferHolds
<1>8. Position'
  <2>1. WND_NXT_SND' \in Nat /\ WND_NXT_SND' <= n + 2 /\ WND_NXT_SND' # 0
    BY <1>1, <1>2, <1>4 DEF IInv, TypeOK, Position, Data, n
  <2>2. pout = 0 => WND_NXT_SND' <= 1 /\ mystate' # "WAITxACK"
    BY <1>1, <1>2 DEF IInv, TypeOK, Position, Data
  <2>3. WND_NXT_SND' <= Len(SendBuffer') + 1
    BY <2>1, <1>1, <1>2
  <2> QED BY <2>1, <2>2, <2>3, <1>3 DEF IInv, Position, Data, receiver
<1>9. Window' /\ NotStranded'
  BY DEF IInv, Window, NotStranded, Data
<1> QED BY <1>5, <1>6, <1>7, <1>8, <1>9 DEF IInv

(* What an acknowledgement that arrives leaves behind. *)
LEMMA AckGone ==
  ASSUME IInv, NEW i \in 1 .. Len(acks), AckArrives(i)
  PROVE  /\ acks' \in Seq(Nat) /\ ReceivedACK' \in Nat /\ acks[i] \in Nat
         /\ ackLost' \in BOOLEAN
         /\ \A j \in DOMAIN acks' : acks'[j] = MSS \/ acks'[j] <= SEQ_NEXT_Expected
         /\ acks[i] = MSS \/ acks[i] <= SEQ_NEXT_Expected
         /\ pout # 0
<1>1. acks \in Seq(Nat) /\ i \in DOMAIN acks
  BY DEF IInv, TypeOK
<1>2. /\ acks' \in Seq(Nat)
      /\ \A j \in DOMAIN acks' : \E k \in DOMAIN acks : acks'[j] = acks[k]
  BY <1>1, RemoveAtElements DEF AckArrives
<1>3. acks[i] \in Nat
  BY <1>1
<1>4. pout # 0
  BY <1>1 DEF IInv, Position
<1>5. ackLost' \in BOOLEAN
  BY DEF AckArrives
<1> QED BY <1>1, <1>2, <1>3, <1>4, <1>5 DEF AckArrives, IInv, Order

LEMMA DataGone ==
  ASSUME IInv, NEW i \in 1 .. Len(data), data' = RemoveAt(data, i)
  PROVE  /\ data' \in Seq(SEQs) /\ data[i] \in SEQs /\ data[i] + MSS <= SEQ_NXT
         /\ \A j \in DOMAIN data' : data'[j] + MSS <= SEQ_NXT
         /\ pout # 0
<1>1. data \in Seq(SEQs) /\ i \in DOMAIN data
  BY DEF IInv, TypeOK
<1>2. /\ data' \in Seq(SEQs)
      /\ \A j \in DOMAIN data' : \E k \in DOMAIN data : data'[j] = data[k]
  BY <1>1, RemoveAtElements
<1>3. data[i] \in SEQs
  BY <1>1
<1>4. pout # 0
  BY <1>1 DEF IInv, Position
<1> QED BY <1>1, <1>2, <1>3, <1>4 DEF IInv, Order

LEMMA ValidAckKeeps == IInv /\ (\E i \in 1 .. Len(acks) : ValidAck(i)) => IInv'
<1> SUFFICES ASSUME IInv, NEW i \in 1 .. Len(acks), ValidAck(i) PROVE IInv'
  OBVIOUS
<1> DEFINE n == Len(SendBuffer)
<1>1. /\ SEQ_NEXT_Expected_ACK \in Nat /\ SEQ_NEXT_Expected \in Nat /\ SEQ_NXT \in Nat
      /\ WND_NXT_SND \in Nat /\ SendBuffer \in Seq(SEQs)
      /\ n \in Nat /\ DOMAIN SendBuffer = 1 .. n
  BY Numbers DEF IInv, TypeOK, SEQs
<1>2. AckArrives(i) /\ acks[i] = SEQ_NEXT_Expected_ACK
  BY DEF ValidAck
<1>3. /\ acks' \in Seq(Nat) /\ ReceivedACK' \in Nat /\ acks[i] \in Nat
      /\ ackLost' \in BOOLEAN
      /\ \A j \in DOMAIN acks' : acks'[j] = MSS \/ acks'[j] <= SEQ_NEXT_Expected
      /\ acks[i] = MSS \/ acks[i] <= SEQ_NEXT_Expected
      /\ pout # 0
  BY <1>2, AckGone
<1>4. SEQ_NEXT_Expected_ACK <= SEQ_NEXT_Expected
  BY <1>1, <1>2, <1>3, Numbers DEF IInv, Order
<1>5. SendBuffer # <<>>
  BY <1>1, <1>4, Numbers DEF IInv, Order, BufferHolds
<1>6. /\ SendBuffer' \in Seq(SEQs) /\ Len(SendBuffer') = n - 1
      /\ \A j \in 1 .. n - 1 : SendBuffer'[j] = SendBuffer[j + 1]
  BY <1>1, <1>5, HeadTailProperties DEF ValidAck, Popped
<1>7. DOMAIN SendBuffer' = 1 .. n - 1 /\ n >= 1 /\ (SendBuffer' = <<>> <=> n = 1)
  BY <1>1, <1>5, <1>6
<1> HIDE DEF n
<1>8. /\ WND_NXT_SND' \in Nat /\ WND_NXT_SND' >= 1
      /\ WND_NXT_SND <= n + 1 => WND_NXT_SND' <= n
  BY <1>1, <1>7 DEF ValidAck, StepBack, Larger
<1>9. WindowOk(wnd')
  <2>1. PICK w \in AfterValid(acks[i]), mark \in Marks : wnd' \in AfterMark(w, acks[i], mark)
    BY DEF ValidAck
  <2>2. WindowOk(w)
    BY <1>3, ValidKeepsWindow DEF IInv, Window
  <2> QED BY <2>1, <2>2, <1>3, MarkKeepsWindow
<1>10. TypeOK'
  <2>1. SEQ_NEXT_Expected_ACK' \in Nat /\ SEQ_LAST_Valid_ACK' \in Int /\ SEQ_CYCLE_ACK' \in Nat
    BY <1>1, <1>3, Numbers DEF IInv, TypeOK, ValidAck
  <2>2. mystate' \in States
    BY DEF IInv, TypeOK, ValidAck, States
  <2> QED BY <1>3, <1>6, <1>8, <1>9, <2>1, <2>2
        DEF IInv, TypeOK, ValidAck, WindowOk, receiver
<1>11. Order'
  <2>1. \A j \in DOMAIN SendBuffer' : SendBuffer'[j] + MSS <= SEQ_NXT
    <3> SUFFICES ASSUME NEW j \in 1 .. n - 1 PROVE SendBuffer'[j] + MSS <= SEQ_NXT
      BY <1>7
    <3>1. j + 1 \in DOMAIN SendBuffer
      BY <1>1
    <3> QED BY <3>1, <1>6 DEF IInv, Order
  <2>2. MSS + 1 <= SEQ_NEXT_Expected_ACK' /\ SEQ_NEXT_Expected_ACK' <= SEQ_NEXT_Expected + MSS
    BY <1>1, <1>4, Numbers DEF IInv, Order, ValidAck
  <2> QED BY <1>3, <2>1, <2>2 DEF IInv, Order, ValidAck, receiver
<1>12. BufferHolds'
  <2>1. CASE n = 1
    <3>1. SendBuffer[1] = SEQ_NXT - MSS /\ SendBuffer[1] = SEQ_NEXT_Expected_ACK - MSS
      BY <2>1, <1>5 DEF IInv, BufferHolds, n
    <3>2. SEQ_NXT' = SEQ_NEXT_Expected_ACK' - MSS
      BY <3>1, <1>1, Numbers DEF ValidAck
    <3> QED BY <3>2, <2>1, <1>6, <1>7 DEF BufferHolds
  <2>2. CASE n # 1
    <3>1. n - 1 \in 1 .. n - 1 /\ 1 \in 1 .. n - 1 /\ (n - 1) + 1 = n
      BY <2>2, <1>1, <1>7
    <3>2. SendBuffer'[1] = SEQ_NEXT_Expected_ACK' - MSS
      <4>1. /\ SendBuffer'[1] = SendBuffer[1 + 1] /\ SendBuffer[1 + 1] = SendBuffer[1] + MSS
            /\ SendBuffer[1] = SEQ_NEXT_Expected_ACK - MSS
        BY <3>1, <1>5, <1>6 DEF IInv, BufferHolds, n
      <4> QED BY <4>1, <1>1, Numbers DEF ValidAck
    <3>3. SendBuffer'[Len(SendBuffer')] = SEQ_NXT' - MSS
      BY <3>1, <1>5, <1>6 DEF IInv, BufferHolds, ValidAck, n
    <3>4. ASSUME NEW j \in 1 .. Len(SendBuffer') - 1
          PROVE  SendBuffer'[j + 1] = SendBuffer'[j] + MSS
      <4>1. j \in 1 .. n - 1 /\ j + 1 \in 1 .. n - 1
        BY <1>1, <1>6
      <4> QED BY <4>1, <1>6 DEF IInv, BufferHolds, n
    <3> QED BY <3>2, <3>3, <3>4, <2>2, <1>7 DEF BufferHolds
  <2> QED BY <2>1, <2>2
<1>13. Position'
  <2>1. WND_NXT_SND' <= Len(SendBuffer') + 1
    BY <1>1, <1>6, <1>8 DEF IInv, Position, n
  <2> QED BY <2>1, <1>3, <1>8 DEF Position, ValidAck
<1>14. NotStranded'
  BY <1>5 DEF IInv, NotStranded, ValidAck
<1> QED BY <1>9, <1>10, <1>11, <1>12, <1>13, <1>14 DEF IInv, Window

LEMMA DupAckKeeps == IInv /\ (\E i \in 1 .. Len(acks) : DupAck(i)) => IInv'
<1> SUFFICES ASSUME IInv, NEW i \in 1 .. Len(acks), DupAck(i) PROVE IInv'
  OBVIOUS
<1>1. AckArrives(i)
  BY DEF DupAck
<1>2. /\ acks' \in Seq(Nat) /\ ReceivedACK' \in Nat /\ acks[i] \in Nat
      /\ ackLost' \in BOOLEAN
      /\ \A j \in DOMAIN acks' : acks'[j] = MSS \/ acks'[j] <= SEQ_NEXT_Expected
      /\ pout # 0
  BY <1>1, AckGone
<1>3. WindowOk(wnd')
  <2>1. PICK w \in AfterDup(acks[i]) : \E mark : wnd' \in AfterMark(w, acks[i], mark)
    BY DEF DupAck
  <2>2. WindowOk(w)
    BY <1>2, DupKeepsWindow DEF IInv, Window
  <2> QED BY <2>1, <2>2, <1>2, MarkKeepsWindow
<1>4. /\ mystate' \in States /\ SEQ_CYCLE_ACK' \in Nat
      /\ WND_NXT_SND' \in {1, WND_NXT_SND}
      /\ mystate' = mystate \/ mystate = "WAITxACK"
  BY DEF IInv, TypeOK, DupAck, States
<1>5. TypeOK'
  BY <1>2, <1>3, <1>4 DEF IInv, TypeOK, DupAck, WindowOk, receiver
<1>6. Order' /\ BufferHolds'
  BY <1>2 DEF IInv, Order, BufferHolds, DupAck, receiver
<1>7. Position' /\ NotStranded'
  <2>1. SendBuffer' = SendBuffer /\ passive' = passive /\ pout' = pout
    BY DEF DupAck
  <2>2. Len(SendBuffer) \in Nat
    BY DEF IInv, TypeOK
  <2>3. WND_NXT_SND' <= Len(SendBuffer) + 1
    BY <1>4, <2>2 DEF IInv, Position
  <2> QED BY <2>1, <2>3, <1>2, <1>4 DEF IInv, Position, NotStranded
<1> QED BY <1>3, <1>5, <1>6, <1>7 DEF IInv, Window

LEMMA OtherAckKeeps == IInv /\ (\E i \in 1 .. Len(acks) : OtherAck(i)) => IInv'
<1> SUFFICES ASSUME IInv, NEW i \in 1 .. Len(acks), OtherAck(i) PROVE IInv'
  OBVIOUS
<1>1. AckArrives(i)
  BY DEF OtherAck
<1>2. /\ acks' \in Seq(Nat) /\ ReceivedACK' \in Nat /\ acks[i] \in Nat
      /\ ackLost' \in BOOLEAN
      /\ \A j \in DOMAIN acks' : acks'[j] = MSS \/ acks'[j] <= SEQ_NEXT_Expected
      /\ pout # 0
  BY <1>1, AckGone
<1>3. WindowOk(wnd')
  BY <1>2, MarkKeepsWindow DEF IInv, Window, OtherAck
<1>4. TypeOK'
  BY <1>2, <1>3 DEF IInv, TypeOK, OtherAck, WindowOk, receiver
<1>5. Order' /\ BufferHolds'
  BY <1>2 DEF IInv, Order, BufferHolds, OtherAck, receiver
<1>6. Position' /\ NotStranded'
  BY <1>2 DEF IInv, TypeOK, Position, NotStranded, OtherAck
<1> QED BY <1>3, <1>4, <1>5, <1>6 DEF IInv, Window

LEMMA ReceiveKeeps == IInv /\ (\E i \in 1 .. Len(data) : Receive(i)) => IInv'
<1> SUFFICES ASSUME IInv, NEW i \in 1 .. Len(data), Receive(i) PROVE IInv'
  OBVIOUS
<1>1. /\ data' \in Seq(SEQs) /\ data[i] \in SEQs /\ data[i] + MSS <= SEQ_NXT
      /\ \A j \in DOMAIN data' : data'[j] + MSS <= SEQ_NXT
      /\ pout # 0
  BY DataGone DEF Receive
<1>2. /\ data[i] \in Nat /\ SEQ_NXT \in 1 .. EndSEQ /\ SEQ_NEXT_Expected \in 1 .. EndSEQ
      /\ SEQ_NEXT_Expected_ACK \in Nat
  BY <1>1, Numbers DEF IInv, TypeOK, SEQs
<1>3. /\ SEQ_NEXT_Expected' \in SEQs /\ SEQ_LAST_Valid' \in SEQs \cup {0}
      /\ SEQ_NEXT_Expected <= SEQ_NEXT_Expected' /\ SEQ_NEXT_Expected' <= SEQ_NXT
      /\ SEQ_LAST_Valid' = 0 \/ SEQ_LAST_Valid' + MSS <= SEQ_NEXT_Expected'
  <2>1. CASE data[i] = SEQ_NEXT_Expected
    <3>1. SEQ_NEXT_Expected' = SEQ_NEXT_Expected + MSS /\ SEQ_LAST_Valid' = SEQ_NEXT_Expected
      BY <2>1 DEF Receive
    <3>2. SEQ_NEXT_Expected + MSS \in SEQs /\ SEQ_NEXT_Expected + MSS <= SEQ_NXT
      BY <2>1, <1>1, <1>2, Numbers DEF SEQs
    <3> QED BY <3>1, <3>2, <1>2, Numbers DEF IInv, TypeOK
  <2>2. CASE data[i] # SEQ_NEXT_Expected
    <3>1. SEQ_NEXT_Expected' = SEQ_NEXT_Expected /\ SEQ_LAST_Valid' = SEQ_LAST_Valid
      BY <2>2 DEF Receive
    <3> QED BY <3>1, <1>2 DEF IInv, TypeOK, Order
  <2> QED BY <2>1, <2>2
<1>4. SEQ_NEXT_Expected' \in Nat
  BY <1>3, Numbers DEF SEQs
<1>5. \A j \in DOMAIN acks : acks[j] = MSS \/ acks[j] <= SEQ_NEXT_Expected'
  <2> SUFFICES ASSUME NEW j \in DOMAIN acks, acks[j] # MSS PROVE acks[j] <= SEQ_NEXT_Expected'
    OBVIOUS
  <2>1. acks[j] \in Nat /\ acks[j] <= SEQ_NEXT_Expected
    BY DEF IInv, TypeOK, Order
  <2> QED BY <2>1, <1>2, <1>3, <1>4
<1>6. SEQ_NEXT_Expected_ACK <= SEQ_NEXT_Expected' + MSS
  <2>1. SEQ_NEXT_Expected_ACK <= SEQ_NEXT_Expected + MSS
    BY DEF IInv, Order
  <2>2. SEQ_NEXT_Expected <= SEQ_NEXT_Expected'
    BY <1>3
  <2>3. SEQ_NEXT_Expected \in Nat /\ SEQ_NEXT_Expected_ACK \in Nat
    BY <1>2, Numbers
  <2>4. \A a, b, c, d \in Nat : a <= b + d /\ b <= c => a <= c + d
    OBVIOUS
  <2> QED BY <2>1, <2>2, <2>3, <2>4, <1>4, Numbers
<1>7. TypeOK'
  BY <1>1, <1>3 DEF IInv, TypeOK, Receive, sender
<1>8. Order'
  BY <1>1, <1>3, <1>5, <1>6 DEF IInv, Order, Receive, sender
<1>9. (BufferHolds /\ Window /\ NotStranded)'
  BY DEF IInv, BufferHolds, Window, NotStranded, Receive, sender
<1>10. Position'
  BY <1>1 DEF IInv, Position, Receive, sender
<1> QED BY <1>7, <1>8, <1>9, <1>10 DEF IInv

(* The other steps of the receiver and of the network. *)
LEMMA OverrunKeeps == IInv /\ (\E i \in 1 .. Len(data) : Overrun(i)) => IInv'
<1> SUFFICES ASSUME IInv, NEW i \in 1 .. Len(data), Overrun(i) PROVE IInv'
  OBVIOUS
<1>1. /\ data' \in Seq(SEQs)
      /\ \A j \in DOMAIN data' : data'[j] + MSS <= SEQ_NXT
      /\ pout # 0
  BY DataGone DEF Overrun
<1>2. TypeOK'
  BY <1>1 DEF IInv, TypeOK, Overrun, sender, receiver
<1>3. Order'
  BY <1>1 DEF IInv, Order, Overrun, sender, receiver
<1>4. (BufferHolds /\ Window /\ NotStranded)'
  BY DEF IInv, BufferHolds, Window, NotStranded, Overrun, sender
<1>5. Position'
  BY <1>1 DEF IInv, Position, Overrun, sender
<1> QED BY <1>2, <1>3, <1>4, <1>5 DEF IInv

LEMMA LoseDataKeeps == IInv /\ LoseData => IInv'
<1> SUFFICES ASSUME IInv, NEW i \in DOMAIN data, data' = RemoveAt(data, i),
                    UNCHANGED <<sender, receiver, asked, acks, thrown, ackLost>>
             PROVE  IInv'
  BY DEF LoseData
<1>0. i \in 1 .. Len(data)
  BY DEF IInv, TypeOK
<1>1. /\ data' \in Seq(SEQs)
      /\ \A j \in DOMAIN data' : data'[j] + MSS <= SEQ_NXT
      /\ pout # 0
  BY <1>0, DataGone
<1>2. TypeOK'
  BY <1>1 DEF IInv, TypeOK, sender, receiver
<1>3. Order'
  BY <1>1 DEF IInv, Order, sender, receiver
<1>4. (BufferHolds /\ Window /\ NotStranded)'
  BY DEF IInv, BufferHolds, Window, NotStranded, sender
<1>5. Position'
  BY <1>1 DEF IInv, Position, sender
<1> QED BY <1>2, <1>3, <1>4, <1>5 DEF IInv

LEMMA LoseAckKeeps == IInv /\ LoseAck => IInv'
<1> SUFFICES ASSUME IInv, NEW i \in DOMAIN acks, acks' = RemoveAt(acks, i),
                    ackLost' = TRUE, UNCHANGED <<sender, receiver, asked, data, thrown>>
             PROVE  IInv'
  BY DEF LoseAck
<1>1. acks \in Seq(Nat) /\ i \in 1 .. Len(acks)
  BY DEF IInv, TypeOK
<1>2. /\ acks' \in Seq(Nat)
      /\ \A j \in DOMAIN acks' : \E k \in DOMAIN acks : acks'[j] = acks[k]
  BY <1>1, RemoveAtElements
<1>3. pout # 0
  BY <1>1 DEF IInv, Position
<1>4. TypeOK'
  BY <1>2 DEF IInv, TypeOK, sender, receiver
<1>5. Order'
  BY <1>2 DEF IInv, Order, sender, receiver
<1>6. (BufferHolds /\ Window /\ NotStranded)'
  BY DEF IInv, BufferHolds, Window, NotStranded, sender
<1>7. Position'
  BY <1>3 DEF IInv, Position, sender
<1> QED BY <1>4, <1>5, <1>6, <1>7 DEF IInv

LEMMA AcknowledgeKeeps == IInv /\ Acknowledge => IInv'
<1> SUFFICES ASSUME IInv, Acknowledge PROVE IInv'
  OBVIOUS
<1> DEFINE a == SEQ_LAST_Valid + MSS
<1>1. a \in Nat /\ (a = MSS \/ a <= SEQ_NEXT_Expected)
  BY Numbers DEF IInv, TypeOK, Order, SEQs
<1> HIDE DEF a
<1>2. acks \in Seq(Nat) /\ acks' = Append(acks, a)
  BY DEF IInv, TypeOK, Acknowledge, a
<1>3. /\ acks' \in Seq(Nat)
      /\ \A j \in DOMAIN acks' : acks'[j] = a \/ \E k \in DOMAIN acks : acks'[j] = acks[k]
  BY <1>1, <1>2, AppendElements
<1>4. \A j \in DOMAIN acks' : acks'[j] = MSS \/ acks'[j] <= SEQ_NEXT_Expected
  BY <1>1, <1>3 DEF IInv, Order
<1>5. pout # 0
  BY DEF IInv, Position, Acknowledge
<1>6. TypeOK'
  BY <1>3 DEF IInv, TypeOK, Acknowledge, sender
<1>7. Order'
  BY <1>4 DEF IInv, Order, Acknowledge, sender
<1>8. (BufferHolds /\ Window /\ NotStranded)'
  BY DEF IInv, BufferHolds, Window, NotStranded, Acknowledge, sender
<1>9. Position'
  BY <1>5 DEF IInv, Position, Acknowledge, sender
<1> QED BY <1>6, <1>7, <1>8, <1>9 DEF IInv

LEMMA Inductive == IInv /\ [Next]_vars => IInv'
<1> SUFFICES ASSUME IInv, [Next]_vars PROVE IInv'
  OBVIOUS
<1>1. CASE UNCHANGED vars
  <2>1. UNCHANGED <<sender, receiver, asked, data, acks, thrown, ackLost>>
    BY <1>1 DEF vars
  <2>2. TypeOK' /\ Order'
    BY <2>1 DEF IInv, TypeOK, Order, sender, receiver
  <2>3. (BufferHolds /\ Position /\ Window /\ NotStranded)'
    BY <2>1 DEF IInv, BufferHolds, Position, Window, NotStranded, sender, receiver
  <2> QED BY <2>2, <2>3 DEF IInv
<1>2. CASE Next
  <2>1. CASE SndNext
    BY <2>1, RequestKeeps, WaitAppOverKeeps, SendKeeps, SentKeeps, TimeoutKeeps DEF SndNext
  <2>2. CASE AckNext
    BY <2>2, ValidAckKeeps, DupAckKeeps, OtherAckKeeps DEF AckNext
  <2>3. CASE RcvNext
    BY <2>3, ReceiveKeeps, OverrunKeeps DEF RcvNext
  <2>4. CASE Data \/ Acknowledge \/ LoseData \/ LoseAck
    BY <2>4, DataKeeps, AcknowledgeKeeps, LoseDataKeeps, LoseAckKeeps
  <2> QED BY <1>2, <2>1, <2>2, <2>3, <2>4 DEF Next
<1> QED BY <1>1, <1>2

LEMMA Invariant == Spec => []IInv
<1> QED BY Initially, Inductive, PTL DEF Spec

-----------------------------------------------------------------------------
(* The state of packettcpsnd, of packettcprcv and of the network between   *)
(* them keeps its type.                                                    *)
THEOREM TypeCorrect == Spec => []TypeOK
<1>1. IInv => TypeOK
  BY DEF IInv
<1> QED BY <1>1, Invariant, PTL

(* m_sendbuf holds exactly the packets between the one that is waited for  *)
(* and the last one taken from the application, in their order.            *)
THEOREM BufferAlwaysHolds == Spec => []BufferHolds
<1>1. IInv => BufferHolds
  BY DEF IInv
<1> QED BY <1>1, Invariant, PTL

(* pop_front() finds a packet, the position read is in the buffer, and     *)
(* dint reads the last segment sent only when there is one.                *)
THEOREM BufferAlwaysSafe == Spec => []BufferSafe
<1>1. ASSUME IInv, mystate = "SENDING"
      PROVE  WND_NXT_SND >= 1 /\ (MaySend \/ SEQ_CYCLE_ACK # 0 \/ pout # 0)
  <2>1. WND_NXT_SND \in Nat /\ WND_NXT_SND >= 1 /\ Len(SendBuffer) \in Nat
    BY <1>1 DEF IInv, TypeOK, Position
  <2>2. ASSUME pout = 0
        PROVE  MaySend
    <3>1. WND_NXT_SND = 1 /\ SendBuffer # <<>>
      BY <1>1, <2>1, <2>2 DEF IInv, Position
    <3>2. Len(SendBuffer) > 0
      BY <1>1, <3>1 DEF IInv, TypeOK
    <3> QED BY <1>1, <3>1, <3>2, <2>1 DEF IInv, Window, WindowOk, MaySend, Within
  <2> QED BY <2>1, <2>2
<1>2. ASSUME IInv, NEW i \in DOMAIN acks, acks[i] = SEQ_NEXT_Expected_ACK
      PROVE  SendBuffer # <<>>
  <2>1. /\ SEQ_NEXT_Expected_ACK \in Nat /\ SEQ_NEXT_Expected \in Nat /\ SEQ_NXT \in Nat
        /\ SEQ_NEXT_Expected_ACK >= MSS + 1 /\ SEQ_NEXT_Expected <= SEQ_NXT
    BY <1>2, Numbers DEF IInv, TypeOK, Order, SEQs
  <2>2. SEQ_NEXT_Expected_ACK <= SEQ_NEXT_Expected
    BY <1>2, <2>1, Numbers DEF IInv, Order
  <2>3. SEQ_NXT # SEQ_NEXT_Expected_ACK - MSS
    BY <2>1, <2>2, Numbers
  <2> QED BY <1>2, <2>3 DEF IInv, BufferHolds
<1>3. IInv => BufferSafe
  BY <1>1, <1>2 DEF BufferSafe
<1> QED BY <1>3, Invariant, PTL

(* The position of the sender is never two ahead of its buffer, so that a  *)
(* packet that comes is not passed over.                                   *)
THEOREM NoneIsSkipped == Spec => []NoneSkipped
<1>1. IInv => NoneSkipped
  BY DEF IInv, Position, NoneSkipped
<1> QED BY <1>1, Invariant, PTL

(* A sender whose sigma is infinite has no packet in its buffer.           *)
THEOREM NeverStranded == Spec => []NotStranded
<1>1. IInv => NotStranded
  BY DEF IInv
<1> QED BY <1>1, Invariant, PTL

(* Timeouts, duplicate acknowledgements and congestion marks shrink the    *)
(* window, but never below one packet.                                     *)
THEOREM WindowStaysOpen == Spec => []WindowOpen
<1>1. IInv => WindowOpen
  BY DEF IInv, Window, WindowOk, WindowOpen
<1> QED BY <1>1, Invariant, PTL

(* The session is a stream: whatever the network loses, delays or          *)
(* reorders, packets are accepted in order, each once, and one leaves the  *)
(* sender's buffer only after it has been accepted.                        *)
THEOREM SessionIsStream == Spec => ImplementsStream
<1> DEFINE counts == <<SEQ_NXT - 1, SEQ_NEXT_Expected - 1, SEQ_NEXT_Expected_ACK - 1 - MSS>>
           Step   == S!Give \/ S!Accept \/ S!Drop
<1>1. Init => S!Init
  BY Numbers DEF Init, S!Init
<1>2. ASSUME IInv, [Next]_vars
      PROVE  [Step]_counts
  <2>0. /\ SEQ_NXT \in Nat /\ SEQ_NEXT_Expected \in Nat /\ SEQ_NEXT_Expected_ACK \in Nat
    BY <1>2, Numbers DEF IInv, TypeOK, SEQs
  <2>1. CASE Data
    <3>1. SEQ_NXT' = SEQ_NXT + MSS /\ UNCHANGED <<SEQ_NEXT_Expected, SEQ_NEXT_Expected_ACK>>
      BY <2>1 DEF Data, receiver
    <3>2. S!Give
      BY <3>1, <2>0, Numbers DEF S!Give
    <3> QED BY <3>2
  <2>2. CASE \E i \in 1 .. Len(data) : Receive(i)
    <3>1. PICK i \in 1 .. Len(data) : Receive(i)
      BY <2>2
    <3>2. data[i] \in SEQs /\ data[i] + MSS <= SEQ_NXT
      BY <1>2, <3>1, DataGone DEF Receive
    <3>3. UNCHANGED <<SEQ_NXT, SEQ_NEXT_Expected_ACK>>
      BY <3>1 DEF Receive, sender
    <3>4. CASE data[i] = SEQ_NEXT_Expected
      <4>1. SEQ_NEXT_Expected' = SEQ_NEXT_Expected + MSS /\ SEQ_NEXT_Expected + MSS <= SEQ_NXT
        BY <3>1, <3>2, <3>4 DEF Receive
      <4>2. S!Accept
        BY <4>1, <3>3, <2>0, Numbers DEF S!Accept
      <4> QED BY <4>2
    <3>5. CASE data[i] # SEQ_NEXT_Expected
      BY <3>1, <3>3, <3>5 DEF Receive
    <3> QED BY <3>4, <3>5
  <2>3. CASE \E i \in 1 .. Len(acks) : ValidAck(i)
    <3>1. PICK i \in 1 .. Len(acks) : ValidAck(i)
      BY <2>3
    <3>2. acks[i] \in Nat /\ (acks[i] = MSS \/ acks[i] <= SEQ_NEXT_Expected)
      BY <1>2, <3>1, AckGone DEF ValidAck
    <3>3. acks[i] = SEQ_NEXT_Expected_ACK /\ SEQ_NEXT_Expected_ACK' = SEQ_NEXT_Expected_ACK + MSS
      BY <3>1 DEF ValidAck
    <3>4. UNCHANGED <<SEQ_NXT, SEQ_NEXT_Expected>>
      BY <3>1 DEF ValidAck, receiver
    <3>5. MSS + 1 <= SEQ_NEXT_Expected_ACK
      BY <1>2 DEF IInv, Order
    <3>6. SEQ_NEXT_Expected_ACK <= SEQ_NEXT_Expected
      BY <3>2, <3>3, <3>5, <2>0, Numbers
    <3>7. S!Drop
      BY <3>3, <3>4, <3>6, <2>0, Numbers DEF S!Drop
    <3> QED BY <3>7
  <2>4. CASE UNCHANGED <<SEQ_NXT, SEQ_NEXT_Expected, SEQ_NEXT_Expected_ACK>>
    BY <2>4
  <2>5. CASE \/ SndNext \/ Acknowledge \/ LoseData \/ LoseAck \/ UNCHANGED vars
             \/ \E i \in 1 .. Len(acks) : DupAck(i) \/ OtherAck(i)
             \/ \E i \in 1 .. Len(data) : Overrun(i)
    <3>1. UNCHANGED <<SEQ_NXT, SEQ_NEXT_Expected, SEQ_NEXT_Expected_ACK>>
      BY <2>5 DEF SndNext, Request, WaitAppOver, Send, Sent, Timeout, Acknowledge, LoseData,
                  LoseAck, DupAck, OtherAck, Overrun, vars, others, sender, receiver
    <3> QED BY <3>1, <2>4
  <2> QED BY <1>2, <2>1, <2>2, <2>3, <2>5 DEF Next, AckNext, RcvNext
<1> QED BY <1>1, <1>2, Invariant, PTL DEF Spec, ImplementsStream, S!Spec

=============================================================================
