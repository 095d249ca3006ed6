------------------------- MODULE PacketPath_proofs -------------------------
(***************************************************************************)
(* Safety of a path of packets, for every kind of queue, capacity, forced  *)
(* period, delay and length of packets.                                    *)
(***************************************************************************)
EXTENDS PacketPath, SequenceTheorems, WellFoundedInduction, TLAPS

(* The packet at a place of the line leaves when its own time is over and  *)
(* the packet before it has left.                                          *)
DueInOrder ==
  \A i \in 2 .. Len(packetOutputTimes) :
    packetOutputTimes[i].due =
      Longest(packetOutputTimes[i].left, packetOutputTimes[i - 1].due)

(* RED, the link and the line are due exactly when they can send. *)
RedDue ==
  /\ outputPackets # <<>> => redSigma = 0
  /\ redSigma = 0 => \/ phase = "T_NOTIFYING_DROP"
                     \/ phase = "T_EMITTING_PACKET" /\ outputPackets # <<>>
LinkDue == (packetQueue = <<>>) <=> (linkSigma = Inf)
LineDue == (packetOutputTimes = <<>>) <=> (lineSigma = Inf)

Content == IF kind = "JobQueue" THEN Len(queue) ELSE qSize_bits

(* Without a forced period a queue is due at once or not at all, and a     *)
(* queue that waits wakes up for the period or because it was pressed.  A  *)
(* queue with a packet and a request for it is due.                        *)
QueueDue ==
  /\ kind = "JobQueue" => ForcedPeriod = Inf
  /\ kind # "simple" /\ ForcedPeriod = Inf => queueSigma \in {0, Inf}
  /\ kind # "simple" /\ mystate = "WAITING" /\ queueSigma = 0 =>
       kind = "packetqueue" /\ (pressed \/ ForcedPeriod # Inf)
  /\ queue # <<>> /\ serverstate = "SERVERWAITING" => queueSigma = 0

(* The request is with the queue or its packet with the link, and as long  *)
(* as the queue sends on request only, not both.                           *)
Token ==
  /\ packetQueue = <<>> /\ (kind = "JobQueue" => asked) => serverstate = "SERVERWAITING"
  /\ (kind = "packetqueue" => ~elapsed /\ ~pressed) /\ packetQueue # <<>> =>
       serverstate = "SERVERBUSY" /\ Len(packetQueue) = 1

(* A length that was not notified yet will be before the queue rests.      *)
WillNotify ==
  kind # "simple" /\ ~elapsed /\ ~pressed =>
    \/ queueSize = Content
    \/ /\ mystate = "t_NOTIFYING" /\ queueSigma = 0
       /\ queue # <<>> \/ (packetQueue # <<>> /\ linkSigma # 0)
    \/ mystate = "t_READYTOEMIT" /\ queueSigma = 0 /\ CanEmit

RedInv  == RedTypeOK /\ RedDue
LinkInv == packetQueue \in Seq(Packets) /\ linkSigma \in Sigmas /\ LinkDue
LineInv ==
  /\ packetOutputTimes \in Seq(OutputTime) /\ delay_s \in Delays /\ lineSigma \in Sigmas
  /\ LineDue /\ LeavesWhenDue /\ DueInOrder
QueueInv == QueueTypeOK /\ QueueDue

IInv ==
  /\ RedInv /\ QueueInv /\ LinkInv /\ LineInv
  /\ sent \subseteq Packets /\ asked \in BOOLEAN
  /\ Token /\ WillNotify

-----------------------------------------------------------------------------
(* Lengths are positive and finite, and so is Inf. *)
LEMMA ConstantFacts ==
  /\ \A p \in Packets : Length[p] \in 1 .. Inf - 1 /\ Length[p] \in Sigmas
                        /\ Length[p] # 0 /\ Length[p] # Inf /\ Length[p] \in Int
  /\ Inf \in Sigmas /\ Inf # 0 /\ 0 \in Sigmas /\ Inf \in Nat
  /\ \A d \in 0 .. Inf - 1 : d \in Sigmas /\ d # Inf /\ d \in Nat
  /\ \A s \in Sigmas : s # 0 => Later(s) \in Sigmas /\ (Later(s) = Inf <=> s = Inf)
<1>1. Inf \in Nat \ {0} /\ \A p \in Packets : Length[p] \in 1 .. Inf - 1
  BY PacketAssumption
<1>2. \A n \in 1 .. Inf - 1 : n \in Sigmas /\ n # 0 /\ n # Inf /\ n \in Int
  BY <1>1 DEF Sigmas
<1>3. \A p \in Packets : Length[p] \in 1 .. Inf - 1 /\ Length[p] \in Sigmas
                         /\ Length[p] # 0 /\ Length[p] # Inf /\ Length[p] \in Int
  BY <1>1, <1>2, Zenon
<1>4. Inf \in Sigmas /\ Inf # 0 /\ 0 \in Sigmas /\ Inf \in Nat
  BY <1>1 DEF Sigmas
<1>5. \A d \in 0 .. Inf - 1 : d \in Sigmas /\ d # Inf /\ d \in Nat
  BY <1>1 DEF Sigmas
<1>6. \A s \in Sigmas : s # 0 => Later(s) \in Sigmas /\ (Later(s) = Inf <=> s = Inf)
  BY <1>1 DEF Sigmas, Later
<1> QED BY <1>3, <1>4, <1>5, <1>6, Zenon

-----------------------------------------------------------------------------
(* RED: no step puts it to sleep with a packet, or wakes it without one. *)
LEMMA RedNextPhase ==
  ASSUME NextPhase, outputPackets' \in Seq(Packets), queueSize' \in Int,
         dropped' \subseteq Packets
  PROVE  RedInv'
<1>1. CASE outputPackets' = <<>>
  BY <1>1, ConstantFacts DEF NextPhase, RedInv, RedTypeOK, RedDue
<1>2. CASE outputPackets' # <<>>
  BY <1>2, ConstantFacts DEF NextPhase, RedInv, RedTypeOK, RedDue
<1> QED BY <1>1, <1>2

LEMMA RedSteps ==
  ASSUME RedInv
  PROVE  /\ \A p \in Packets : Drop(p) \/ Admit(p) => RedInv'
         /\ \A n \in Int : LengthNotified(n) => RedInv'
         /\ NoticeDrop => RedInv'
         /\ Forward => RedInv' /\ Head(outputPackets) \in Packets
         /\ UNCHANGED redVars => RedInv'
<1>1. ASSUME NEW p \in Packets, Drop(p)
      PROVE  RedInv'
  BY <1>1, ConstantFacts DEF Drop, RedInv, RedTypeOK, RedDue
<1>2. ASSUME NEW p \in Packets, Admit(p)
      PROVE  RedInv'
  <2>1. Append(outputPackets, p) \in Seq(Packets) /\ Append(outputPackets, p) # <<>>
    BY AppendProperties DEF RedInv, RedTypeOK
  <2> QED BY <1>2, <2>1, ConstantFacts DEF Admit, RedInv, RedTypeOK, RedDue
<1>3. ASSUME NEW n \in Int, LengthNotified(n)
      PROVE  RedInv'
  BY <1>3, RedNextPhase DEF LengthNotified, RedInv, RedTypeOK
<1>4. ASSUME NoticeDrop
      PROVE  RedInv'
  BY <1>4, RedNextPhase DEF NoticeDrop, RedInv, RedTypeOK
<1>5. ASSUME Forward
      PROVE  RedInv' /\ Head(outputPackets) \in Packets
  <2>1. Tail(outputPackets) \in Seq(Packets) /\ Head(outputPackets) \in Packets
    BY <1>5, HeadTailProperties DEF Forward, RedInv, RedTypeOK
  <2> QED BY <1>5, <2>1, RedNextPhase DEF Forward, RedInv, RedTypeOK
<1>6. ASSUME UNCHANGED redVars
      PROVE  RedInv'
  BY <1>6 DEF redVars, RedInv, RedTypeOK, RedDue
<1> QED BY <1>1, <1>2, <1>3, <1>4, <1>5, <1>6

(* The link is due for its first packet, and only then. *)
LEMMA LinkSteps ==
  ASSUME LinkInv
  PROVE  /\ \A p \in Packets : LinkArrive(p) => LinkInv' /\ packetQueue' # <<>>
         /\ \A p \in Packets : LinkArrive(p) /\ packetQueue = <<>> =>
              Len(packetQueue') = 1 /\ linkSigma' # 0
         /\ LinkSend => LinkInv' /\ Head(packetQueue) \in Packets
                        /\ (Len(packetQueue) = 1 => packetQueue' = <<>>)
         /\ LinkLater => LinkInv'
         /\ UNCHANGED linkVars => LinkInv'
<1>1. ASSUME NEW p \in Packets, LinkArrive(p)
      PROVE  /\ LinkInv' /\ packetQueue' # <<>>
             /\ packetQueue = <<>> => Len(packetQueue') = 1 /\ linkSigma' # 0
  <2>1. /\ packetQueue' \in Seq(Packets) /\ packetQueue' # <<>>
        /\ Len(packetQueue') = Len(packetQueue) + 1
    BY <1>1, AppendProperties DEF LinkArrive, LinkInv
  <2>2. CASE packetQueue = <<>>
    <3>1. Len(packetQueue) = 0 /\ linkSigma' = Length[p]
      BY <1>1, <2>2 DEF LinkArrive, ServiceTime
    <3> QED BY <2>1, <3>1, ConstantFacts DEF LinkInv, LinkDue
  <2>3. CASE packetQueue # <<>>
    BY <1>1, <2>1, <2>3 DEF LinkArrive, LinkInv, LinkDue
  <2> QED BY <2>2, <2>3
<1>2. ASSUME LinkSend
      PROVE  /\ LinkInv' /\ Head(packetQueue) \in Packets
             /\ Len(packetQueue) = 1 => packetQueue' = <<>>
  <2>1. /\ packetQueue' \in Seq(Packets) /\ Head(packetQueue) \in Packets
        /\ Len(packetQueue') = Len(packetQueue) - 1
    BY <1>2, HeadTailProperties DEF LinkSend, LinkInv
  <2>2. packetQueue' # <<>> => Len(packetQueue') # 0 /\ Head(packetQueue') \in Packets
    BY <2>1, EmptySeq, HeadTailProperties
  <2>3. linkSigma' \in Sigmas /\ LinkDue'
    <3>1. CASE packetQueue' = <<>>
      BY <1>2, <3>1, ConstantFacts DEF LinkSend, LinkDue
    <3>2. CASE packetQueue' # <<>>
      <4>1. linkSigma' = Length[Head(packetQueue')]
        BY <1>2, <3>2 DEF LinkSend, ServiceTime
      <4> QED BY <2>2, <3>2, <4>1, ConstantFacts DEF LinkDue
    <3> QED BY <3>1, <3>2
  <2> QED BY <2>1, <2>2, <2>3 DEF LinkInv
<1>3. ASSUME LinkLater
      PROVE  LinkInv'
  BY <1>3, ConstantFacts DEF LinkLater, LinkInv, LinkDue
<1>4. ASSUME UNCHANGED linkVars
      PROVE  LinkInv'
  BY <1>4 DEF linkVars, LinkInv, LinkDue
<1> QED BY <1>1, <1>2, <1>3, <1>4

(* The line: a packet that comes is not due before the last one.  When the *)
(* first leaves, the time left of the second is over or has to pass.       *)
LEMMA LineArrives ==
  ASSUME LineInv, NEW p \in Packets, LineArrive(p)
  PROVE  LineInv'
<1> DEFINE q == packetOutputTimes
           n == Len(q)
           due == IF q = <<>> THEN delay_s ELSE Longest(delay_s, Last(q).due)
           e == [packet |-> p, left |-> delay_s, due |-> due]
<1>1. /\ q \in Seq(OutputTime) /\ n \in Nat /\ (q = <<>> <=> n = 0)
      /\ delay_s \in 0 .. Inf - 1
      /\ \A i \in 1 .. n : q[i].due \in 0 .. Inf - 1
  <2>1. q \in Seq(OutputTime) /\ n \in Nat /\ (q = <<>> <=> n = 0)
    BY EmptySeq DEF LineInv
  <2>2. \A i \in 1 .. n : q[i] \in OutputTime
    BY <2>1, ElementOfSeq
  <2> QED BY <2>1, <2>2, DelayAssumption DEF LineInv, OutputTime
<1>2. due \in 0 .. Inf - 1
  <2>1. CASE q = <<>>
    BY <2>1, <1>1
  <2>2. CASE q # <<>>
    <3>1. Last(q).due \in 0 .. Inf - 1
      BY <2>2, <1>1 DEF Last
    <3> QED BY <3>1, <2>2, <1>1 DEF Longest
  <2> QED BY <2>1, <2>2
<1>3. e \in OutputTime
  BY <1>1, <1>2 DEF OutputTime
<1>4. q' = Append(q, e) /\ delay_s' = delay_s
      /\ lineSigma' = IF q = <<>> THEN delay_s ELSE lineSigma
  BY DEF LineArrive
<1>5. e.left = delay_s /\ e.due = due
  OBVIOUS
<1> HIDE DEF e
<1>6. /\ q' \in Seq(OutputTime) /\ q' # <<>> /\ Len(q') = n + 1
      /\ \A i \in 1 .. n : q'[i] = q[i]
      /\ q'[n + 1] = e
  BY <1>1, <1>3, <1>4, AppendProperties
<1>7. lineSigma' \in Sigmas /\ lineSigma' # Inf
  <2>1. CASE q = <<>>
    BY <2>1, <1>1, <1>4, ConstantFacts
  <2>2. CASE q # <<>>
    BY <2>2, <1>4 DEF LineInv, LineDue
  <2> QED BY <2>1, <2>2
<1>8. LeavesWhenDue'
  <2>1. CASE q = <<>>
    <3>1. q'[1] = e /\ due = delay_s
      BY <2>1, <1>1, <1>6
    <3> QED BY <2>1, <3>1, <1>4, <1>5, <1>6 DEF LeavesWhenDue
  <2>2. CASE q # <<>>
    <3>1. q'[1] = q[1]
      BY <2>2, <1>1, <1>6
    <3> QED BY <2>2, <3>1, <1>4, <1>6 DEF LeavesWhenDue, LineInv
  <2> QED BY <2>1, <2>2
<1>9. DueInOrder'
  <2> SUFFICES ASSUME NEW i \in 2 .. n + 1
               PROVE  q'[i].due = Longest(q'[i].left, q'[i - 1].due)
    BY <1>6 DEF DueInOrder
  <2>1. i - 1 \in 1 .. n /\ q'[i - 1] = q[i - 1]
    BY <1>1, <1>6
  <2>2. CASE i = n + 1
    <3>1. q # <<>> /\ q'[i] = e /\ q[i - 1] = Last(q)
      BY <2>2, <2>1, <1>1, <1>6 DEF Last
    <3> QED BY <3>1, <2>1, <1>5
  <2>3. CASE i # n + 1
    <3>1. i \in 2 .. n /\ i \in 1 .. n
      BY <2>3, <1>1
    <3>2. q'[i] = q[i]
      BY <3>1, <1>6
    <3> QED BY <3>1, <3>2, <2>1 DEF LineInv, DueInOrder
  <2> QED BY <2>2, <2>3
<1>10. LineDue'
  BY <1>6, <1>7 DEF LineDue
<1> QED BY <1>4, <1>6, <1>7, <1>8, <1>9, <1>10 DEF LineInv

LEMMA LineSends ==
  ASSUME LineInv, LineSend
  PROVE  LineInv'
<1> DEFINE q == packetOutputTimes
           n == Len(q)
<1>1. /\ q \in Seq(OutputTime) /\ q # <<>> /\ n \in Nat \ {0}
      /\ q' = Tail(q) /\ delay_s' = delay_s /\ lineSigma = 0
      /\ \A i \in 1 .. n : q[i] \in OutputTime
  BY EmptySeq, ElementOfSeq DEF LineInv, LineSend
<1>2. /\ q' \in Seq(OutputTime) /\ Len(q') = n - 1
      /\ \A i \in 1 .. n - 1 : q'[i] = q[i + 1]
  BY <1>1, HeadTailProperties
<1>3. DueInOrder'
  <2> SUFFICES ASSUME NEW i \in 2 .. n - 1
               PROVE  q'[i].due = Longest(q'[i].left, q'[i - 1].due)
    BY <1>2 DEF DueInOrder
  <2>1. i \in 1 .. n - 1 /\ i - 1 \in 1 .. n - 1 /\ i + 1 \in 2 .. n
        /\ (i - 1) + 1 = i /\ (i + 1) - 1 = i
    BY <1>1
  <2>2. q'[i] = q[i + 1] /\ q'[i - 1] = q[i]
    BY <1>2, <2>1
  <2> QED BY <2>1, <2>2 DEF LineInv, DueInOrder
<1>4. CASE q' = <<>>
  <2>1. lineSigma' = Inf
    BY <1>4 DEF LineSend
  <2> QED BY <1>1, <1>2, <1>3, <1>4, <2>1, ConstantFacts DEF LineInv, LineDue, LeavesWhenDue
<1>5. CASE q' # <<>>
  <2>1. n - 1 # 0 /\ 1 \in 1 .. n - 1 /\ 2 \in 2 .. n /\ 2 \in 1 .. n /\ 2 - 1 = 1
    BY <1>1, <1>2, <1>5, EmptySeq
  <2>2. Head(q') = q[2] /\ lineSigma' = q[2].left
    BY <1>2, <1>5, <2>1 DEF LineSend
  <2>3. q[1].due = 0 /\ q[2].due = Longest(q[2].left, q[1].due)
    BY <1>1, <2>1 DEF LineInv, LeavesWhenDue, DueInOrder
  <2>4. q[2].left \in 0 .. Inf - 1
    BY <1>1, <2>1 DEF OutputTime
  <2>5. q[2].due = q[2].left
    BY <2>3, <2>4 DEF Longest
  <2>6. lineSigma' \in Sigmas /\ lineSigma' # Inf
    BY <2>2, <2>4, ConstantFacts
  <2> QED BY <1>1, <1>2, <1>3, <1>5, <2>2, <2>5, <2>6 DEF LineInv, LineDue, LeavesWhenDue
<1> QED BY <1>4, <1>5

LEMMA LineWaits ==
  ASSUME LineInv, LineLater
  PROVE  LineInv'
<1> DEFINE q == packetOutputTimes
           n == Len(q)
<1>1. /\ q \in Seq(OutputTime) /\ n \in Nat /\ (q = <<>> <=> n = 0) /\ DOMAIN q = 1 .. n
      /\ \A i \in 1 .. n : q[i] \in OutputTime
  BY EmptySeq, ElementOfSeq DEF LineInv
<1>2. \A a \in 0 .. Inf - 1 : Shorter(a) \in 0 .. Inf - 1
  BY ConstantFacts DEF Shorter
<1>3. \A i \in 1 .. n : /\ q'[i] = [q[i] EXCEPT !.left = Shorter(@), !.due = Shorter(@)]
                        /\ q'[i] \in OutputTime
                        /\ q'[i].left = Shorter(q[i].left) /\ q'[i].due = Shorter(q[i].due)
  <2> SUFFICES ASSUME NEW i \in 1 .. n
               PROVE  /\ q'[i] = [q[i] EXCEPT !.left = Shorter(@), !.due = Shorter(@)]
                      /\ q'[i] \in OutputTime
                      /\ q'[i].left = Shorter(q[i].left) /\ q'[i].due = Shorter(q[i].due)
    OBVIOUS
  <2>1. q'[i] = [q[i] EXCEPT !.left = Shorter(@), !.due = Shorter(@)]
    BY <1>1 DEF LineLater
  <2>2. /\ q[i] = [packet |-> q[i].packet, left |-> q[i].left, due |-> q[i].due]
        /\ q[i].packet \in Packets
        /\ q[i].left \in 0 .. Inf - 1 /\ q[i].due \in 0 .. Inf - 1
    BY <1>1 DEF OutputTime
  <2>3. q'[i] = [packet |-> q[i].packet, left |-> Shorter(q[i].left),
                 due |-> Shorter(q[i].due)]
    BY <1>1, <2>1 DEF OutputTime
  <2>4. Shorter(q[i].left) \in 0 .. Inf - 1 /\ Shorter(q[i].due) \in 0 .. Inf - 1
    BY <1>2, <2>2
  <2> QED BY <2>1, <2>2, <2>3, <2>4 DEF OutputTime
<1>4. q' \in Seq(OutputTime) /\ Len(q') = n /\ (q' = <<>> <=> n = 0)
  <2>1. DOMAIN q' = 1 .. n /\ q' = [i \in 1 .. n |-> q'[i]]
    BY <1>1 DEF LineLater
  <2>2. q' \in [1 .. n -> OutputTime]
    BY <2>1, <1>3, Zenon
  <2>3. q' \in Seq(OutputTime)
    BY <2>2, <1>1, SeqDef
  <2>4. Len(q') = n
    BY <2>1, <2>3, <1>1, LenProperties
  <2> QED BY <2>3, <2>4, <1>1, EmptySeq
<1>5. DueInOrder'
  <2>1. \A a, b \in 0 .. Inf - 1 : Shorter(Longest(a, b)) = Longest(Shorter(a), Shorter(b))
    BY ConstantFacts DEF Shorter, Longest
  <2> SUFFICES ASSUME NEW i \in 2 .. n
               PROVE  q'[i].due = Longest(q'[i].left, q'[i - 1].due)
    BY <1>4 DEF DueInOrder
  <2>2. i \in 1 .. n /\ i - 1 \in 1 .. n
    BY <1>1
  <2>3. q[i].due = Longest(q[i].left, q[i - 1].due)
    BY DEF LineInv, DueInOrder
  <2>4. q[i].left \in 0 .. Inf - 1 /\ q[i - 1].due \in 0 .. Inf - 1
    BY <1>1, <2>2 DEF OutputTime
  <2>5. /\ q'[i].left = Shorter(q[i].left) /\ q'[i].due = Shorter(q[i].due)
        /\ q'[i - 1].due = Shorter(q[i - 1].due)
    BY <1>3, <2>2, Zenon
  <2> QED BY <2>1, <2>3, <2>4, <2>5, Zenon
<1>6. lineSigma # 0 /\ lineSigma' = Later(lineSigma) /\ delay_s' = delay_s
  BY DEF LineLater
<1>7. lineSigma' \in Sigmas /\ (lineSigma' = Inf <=> lineSigma = Inf)
  BY <1>6, ConstantFacts DEF LineInv
<1>8. LeavesWhenDue'
  <2>1. CASE n = 0
    BY <2>1, <1>4 DEF LeavesWhenDue
  <2>2. CASE n # 0
    <3>1. 1 \in 1 .. n /\ q # <<>> /\ q' # <<>>
      BY <2>2, <1>1, <1>4
    <3>2. q'[1].due = Shorter(q[1].due)
      BY <3>1, <1>3
    <3>3. q[1].due \in 0 .. Inf - 1
      BY <3>1, <1>1 DEF OutputTime
    <3>4. lineSigma = q[1].due
      BY <3>1 DEF LineInv, LeavesWhenDue
    <3>5. Shorter(q[1].due) = Later(lineSigma)
      BY <3>3, <3>4, <1>6, ConstantFacts DEF Shorter, Later
    <3> QED BY <3>1, <3>2, <3>5, <1>6 DEF LeavesWhenDue
  <2> QED BY <2>1, <2>2
<1> QED BY <1>1, <1>4, <1>5, <1>6, <1>7, <1>8 DEF LineInv, LineDue

LEMMA LineSteps ==
  ASSUME LineInv
  PROVE  /\ \A p \in Packets : LineArrive(p) => LineInv'
         /\ LineSend => LineInv'
         /\ LineLater => LineInv'
         /\ \A d \in Delays : NewDelay(d) => LineInv'
         /\ UNCHANGED lineVars => LineInv'
<1>1. ASSUME NEW d \in Delays, NewDelay(d)
      PROVE  LineInv'
  BY <1>1 DEF NewDelay, LineInv, LineDue, LeavesWhenDue, DueInOrder
<1>2. ASSUME UNCHANGED lineVars
      PROVE  LineInv'
  BY <1>2 DEF lineVars, LineInv, LineDue, LeavesWhenDue, DueInOrder
<1> QED BY <1>1, <1>2, LineArrives, LineSends, LineWaits

(* The queue: what is due for no reason, and what is not due with one. *)
LEMMA QueueArrives ==
  ASSUME QueueInv, NEW p \in Packets, Arrive(p)
  PROVE  QueueInv'
<1>1. CASE Enqueue(p)
  <2>1. Append(queue, p) \in Seq(Packets)
    BY AppendProperties DEF QueueInv, QueueTypeOK
  <2>2. qSize_bits' \in Int
    BY <1>1, ConstantFacts DEF Enqueue, QueueInv, QueueTypeOK
  <2>3. QueueTypeOK'
    BY <1>1, <2>1, <2>2, ConstantFacts DEF Enqueue, QueueInv, QueueTypeOK
  <2>4. QueueDue'
    BY <1>1 DEF Enqueue, QueueInv, QueueDue
  <2> QED BY <2>3, <2>4 DEF QueueInv
<1>2. CASE Refuse(p)
  <2>1. QueueTypeOK'
    BY <1>2, ConstantFacts DEF Refuse, QueueInv, QueueTypeOK
  <2>2. QueueDue'
    <3>1. kind \in {"packetqueue", "simple", "JobQueue"}
      BY QueueAssumption DEF QueueInv, QueueTypeOK
    <3> QED BY <1>2, <3>1, ConstantFacts DEF Refuse, QueueInv, QueueDue
  <2> QED BY <2>1, <2>2 DEF QueueInv
<1> QED BY <1>1, <1>2 DEF Arrive

LEMMA QueueDequeues ==
  ASSUME QueueInv, Dequeue
  PROVE  QueueInv' /\ Head(queue) \in Packets
<1>1. /\ Tail(queue) \in Seq(Packets) /\ Head(queue) \in Packets
  BY HeadTailProperties DEF Dequeue, CanEmit, QueueInv, QueueTypeOK
<1>2. qSize_bits' \in Int
  BY <1>1, ConstantFacts DEF Dequeue, QueueInv, QueueTypeOK
<1>3. QueueTypeOK'
  BY <1>1, <1>2, ConstantFacts DEF Dequeue, QueueInv, QueueTypeOK
<1>4. QueueDue'
  BY ConstantFacts DEF Dequeue, QueueInv, QueueDue
<1> QED BY <1>1, <1>3, <1>4 DEF QueueInv

LEMMA QueueSteps ==
  ASSUME QueueInv
  PROVE  /\ \A p \in Packets : Arrive(p) => QueueInv'
         /\ Dequeue => QueueInv' /\ Head(queue) \in Packets
         /\ Requested => QueueInv'
         /\ WakeUp => QueueInv'
         /\ Notify => QueueInv'
         /\ GoWaiting => QueueInv'
         /\ QueueLater => QueueInv'
         /\ UNCHANGED queueVars => QueueInv'
<1> USE DEF QueueInv
<1>1. ASSUME Requested
      PROVE  QueueInv'
  BY <1>1, ConstantFacts DEF Requested, QueueTypeOK, QueueDue
<1>2. ASSUME WakeUp
      PROVE  QueueInv'
  <2>1. elapsed' \in BOOLEAN
    BY <1>2 DEF WakeUp, QueueTypeOK
  <2> QED BY <1>2, <2>1, ConstantFacts DEF WakeUp, QueueTypeOK, QueueDue
<1>3. ASSUME Notify
      PROVE  QueueInv'
  BY <1>3, ConstantFacts DEF Notify, CanEmit, QueueTypeOK, QueueDue
<1>4. ASSUME GoWaiting
      PROVE  QueueInv'
  BY <1>4, ConstantFacts DEF GoWaiting, CanEmit, QueueTypeOK, QueueDue
<1>5. ASSUME QueueLater
      PROVE  QueueInv'
  <2>1. kind \in {"packetqueue", "simple", "JobQueue"}
    BY QueueAssumption DEF QueueTypeOK
  <2>2. /\ queueSigma \in Sigmas /\ queueSigma # 0 /\ queueSigma' = Later(queueSigma)
        /\ UNCHANGED <<kind, ForcedPeriod, queue, qSize_bits, mystate, serverstate,
                       discarded, pressed, elapsed>>
    BY <1>5 DEF QueueLater, QueueTypeOK
  <2>3. queueSigma' \in Sigmas /\ (queueSigma = Inf => queueSigma' = Inf)
    BY <2>2, ConstantFacts
  <2>4. QueueTypeOK'
    BY <2>2, <2>3 DEF QueueTypeOK
  <2>5. QueueDue'
    BY <2>1, <2>2, <2>3, ConstantFacts DEF QueueDue
  <2> QED BY <2>4, <2>5
<1>6. ASSUME UNCHANGED queueVars
      PROVE  QueueInv'
  BY <1>6 DEF queueVars, QueueTypeOK, QueueDue
<1> QED BY <1>1, <1>2, <1>3, <1>4, <1>5, <1>6, QueueArrives, QueueDequeues

-----------------------------------------------------------------------------
(* The path.  Steps of RED and of the line do not touch what Token and     *)
(* WillNotify are about, but for a length notified.                        *)
LEMMA InitInv == Init => IInv
<1> SUFFICES ASSUME Init
             PROVE  IInv
  OBVIOUS
<1>1. RedInv
  BY EmptySeq, ConstantFacts DEF Init, RedInit, RedInv, RedTypeOK, RedDue
<1>2. LinkInv
  BY EmptySeq, ConstantFacts DEF Init, LinkInit, LinkInv, LinkDue
<1>3. LineInv
  <2>1. Len(packetOutputTimes) = 0 /\ packetOutputTimes \in Seq(OutputTime)
    BY EmptySeq DEF Init, LineInit
  <2>2. DueInOrder
    BY <2>1 DEF DueInOrder
  <2> QED BY <2>1, <2>2, ConstantFacts DEF Init, LineInit, LineInv, LineDue, LeavesWhenDue
<1>4. QueueTypeOK
  <2>1. ForcedPeriod \in Sigmas \ {0}
    <3>1. CASE kind = "JobQueue"
      BY <3>1, ConstantFacts DEF Init, QueueInit
    <3>2. CASE kind # "JobQueue"
      BY <3>2, QueueAssumption DEF Init, QueueInit
    <3> QED BY <3>1, <3>2
  <2>2. queue \in Seq(Packets) /\ qSize_bits \in Int
    BY EmptySeq DEF Init, QueueInit
  <2>3. QueueInit
    BY DEF Init
  <2> QED BY <2>1, <2>2, <2>3 DEF QueueInit, QueueTypeOK
<1>5. QueueDue
  <2>1. ForcedPeriod # 0 /\ kind \in {"packetqueue", "simple", "JobQueue"}
    BY QueueAssumption, ConstantFacts DEF Init, QueueInit
  <2> QED BY <2>1 DEF Init, QueueInit, QueueDue
<1>6. Token /\ WillNotify
  <2>1. queueSize = 0 /\ Content = 0
    BY DEF Init, RedInit, QueueInit, Content
  <2> QED BY <2>1 DEF Init, QueueInit, LinkInit, Token, WillNotify
<1> QED BY <1>1, <1>2, <1>3, <1>4, <1>5, <1>6 DEF Init, IInv, QueueInv

(* A packet that comes will be notified, and so will the next one when a   *)
(* request comes.                                                          *)
LEMMA ArriveKeeps ==
  ASSUME IInv, NEW p \in Packets, Arrive(p),
         UNCHANGED <<queueSize, packetQueue, linkSigma, asked>>
  PROVE  Token' /\ WillNotify'
<1>1. CASE Enqueue(p)
  <2>1. queue' # <<>>
    BY <1>1, AppendProperties DEF Enqueue, IInv, QueueInv, QueueTypeOK
  <2>2. Token'
    BY <1>1 DEF Enqueue, IInv, Token
  <2>3. WillNotify'
    BY <1>1, <2>1 DEF Enqueue, WillNotify
  <2> QED BY <2>2, <2>3
<1>2. CASE Refuse(p)
  <2>1. Token'
    BY <1>2 DEF Refuse, IInv, Token
  <2>2. kind \in {"packetqueue", "simple", "JobQueue"}
    BY QueueAssumption DEF IInv, QueueInv, QueueTypeOK
  <2>3. CASE kind = "packetqueue"
    <3>1. CASE queueSigma = 0
      BY <1>2, <2>1, <2>3, <3>1 DEF Refuse, WillNotify
    <3>2. CASE queueSigma # 0
      BY <1>2, <2>1, <2>3, <3>2 DEF Refuse, IInv, WillNotify, Content
    <3> QED BY <3>1, <3>2
  <2>4. CASE kind = "JobQueue"
    BY <1>2, <2>1, <2>4 DEF Refuse, IInv, WillNotify, Content, CanEmit
  <2>5. CASE kind = "simple"
    BY <1>2, <2>1, <2>5 DEF Refuse, WillNotify
  <2> QED BY <2>1, <2>2, <2>3, <2>4, <2>5
<1> QED BY <1>1, <1>2 DEF Arrive

LEMMA RequestKeeps ==
  ASSUME IInv, Requested, queueSize' = queueSize,
         linkSigma = 0 \/ packetQueue = <<>>
  PROVE  WillNotify'
<1>1. CASE queue = <<>>
  BY <1>1 DEF Requested, IInv, WillNotify, Content, CanEmit
<1>2. CASE queue # <<>>
  BY <1>2 DEF Requested, WillNotify, CanEmit
<1> QED BY <1>1, <1>2

LEMMA SourceInv == IInv /\ Source => IInv'
<1> SUFFICES ASSUME IInv, NEW p \in Packets, sent' = sent \union {p},
                    \/ /\ kind = "JobQueue" /\ Arrive(p)
                       /\ UNCHANGED <<redVars, linkVars, lineVars, asked>>
                    \/ /\ kind # "JobQueue" /\ (Drop(p) \/ Admit(p))
                       /\ UNCHANGED <<queueVars, linkVars, lineVars, asked>>
             PROVE  IInv'
  BY DEF Source, NewPackets
<1>1. RedInv' /\ QueueInv' /\ LinkInv' /\ LineInv'
  BY RedSteps, QueueSteps, LinkSteps, LineSteps DEF IInv
<1>2. Token' /\ WillNotify'
  <2>1. CASE kind = "JobQueue"
    <3>1. UNCHANGED <<queueSize, packetQueue, linkSigma, asked>> /\ (Enqueue(p) \/ Refuse(p))
      BY <2>1 DEF redVars, linkVars, Arrive
    <3> QED BY <2>1, <3>1, ArriveKeeps
  <2>2. CASE kind # "JobQueue"
    <3>1. UNCHANGED <<queueVars, packetQueue, linkSigma, asked, queueSize>>
      BY <2>2 DEF linkVars, Drop, Admit
    <3> QED BY <3>1 DEF IInv, queueVars, Token, WillNotify, Content, CanEmit
  <2> QED BY <2>1, <2>2
<1> QED BY <1>1, <1>2 DEF IInv, linkVars

LEMMA RedInvStep == IInv /\ (RedDropped \/ RedForwards) => IInv'
<1>1. ASSUME IInv, RedDropped
      PROVE  IInv'
  <2>1. RedInv' /\ QueueInv' /\ LinkInv' /\ LineInv'
    BY <1>1, RedSteps, QueueSteps, LinkSteps, LineSteps DEF IInv, RedDropped
  <2>2. Token' /\ WillNotify'
    BY <1>1 DEF RedDropped, NoticeDrop, IInv, queueVars, linkVars, Token, WillNotify,
                Content, CanEmit
  <2> QED BY <1>1, <2>1, <2>2 DEF IInv, RedDropped
<1>2. ASSUME IInv, RedForwards
      PROVE  IInv'
  <2>1. Head(outputPackets) \in Packets
    BY <1>2, RedSteps DEF IInv, RedForwards
  <2>2. RedInv' /\ QueueInv' /\ LinkInv' /\ LineInv'
    BY <1>2, <2>1, RedSteps, QueueSteps, LinkSteps, LineSteps DEF IInv, RedForwards
  <2>3. Arrive(Head(outputPackets)) /\ UNCHANGED <<queueSize, packetQueue, linkSigma, asked>>
    BY <1>2 DEF RedForwards, Forward, linkVars
  <2>4. Token' /\ WillNotify'
    BY <1>2, <2>1, <2>3, ArriveKeeps
  <2> QED BY <1>2, <2>2, <2>4 DEF IInv, RedForwards
<1> QED BY <1>1, <1>2

LEMMA QueueWakesInv == IInv /\ QueueWakes => IInv'
<1> SUFFICES ASSUME IInv, QueueWakes
             PROVE  IInv'
  OBVIOUS
<1>1. RedInv' /\ QueueInv' /\ LinkInv' /\ LineInv'
  BY RedSteps, QueueSteps, LinkSteps, LineSteps DEF IInv, QueueWakes
<1>2. kind = "packetqueue" /\ (elapsed' \/ pressed') /\ serverstate' = "SERVERWAITING"
      /\ kind' = kind /\ UNCHANGED packetQueue
  BY DEF IInv, QueueInv, QueueDue, QueueWakes, WakeUp, linkVars
<1>3. Token' /\ WillNotify'
  BY <1>2 DEF Token, WillNotify
<1> QED BY <1>1, <1>3 DEF IInv, QueueWakes

LEMMA QueueNotifiesInv == IInv /\ QueueNotifies => IInv'
<1> SUFFICES ASSUME IInv, QueueNotifies
             PROVE  IInv'
  OBVIOUS
<1>1. Notify /\ UNCHANGED <<linkVars, lineVars, sent, asked>>
      /\ UNCHANGED <<kind, queue, qSize_bits, serverstate, pressed, elapsed>>
  BY DEF QueueNotifies, Notify
<1>2. queueSize' = Content /\ RedInv'
  <2>1. CASE kind = "JobQueue"
    BY <2>1 DEF QueueNotifies, Content, IInv, RedInv, RedTypeOK, RedDue, QueueInv, QueueTypeOK
  <2>2. CASE kind # "JobQueue"
    BY <2>2, RedSteps DEF QueueNotifies, Content, IInv, QueueInv, QueueTypeOK, LengthNotified
  <2> QED BY <2>1, <2>2
<1>3. QueueInv' /\ LinkInv' /\ LineInv'
  BY <1>1, QueueSteps, LinkSteps, LineSteps DEF IInv
<1>4. Token' /\ WillNotify'
  BY <1>1, <1>2 DEF IInv, linkVars, Token, WillNotify, Content
<1> QED BY <1>1, <1>2, <1>3, <1>4 DEF IInv

LEMMA QueueEmitsInv == IInv /\ QueueEmits => IInv'
<1> SUFFICES ASSUME IInv, QueueEmits
             PROVE  IInv'
  OBVIOUS
<1>1. Dequeue /\ LinkArrive(Head(queue)) /\ UNCHANGED <<redVars, lineVars, sent, asked>>
  BY DEF QueueEmits
<1>2. Head(queue) \in Packets
  BY <1>1, QueueSteps DEF IInv
<1>3. RedInv' /\ QueueInv' /\ LinkInv' /\ LineInv' /\ packetQueue' # <<>>
  BY <1>1, <1>2, RedSteps, QueueSteps, LinkSteps, LineSteps DEF IInv
<1>4. CASE kind = "packetqueue" /\ (elapsed \/ pressed)
  <2>1. Token' /\ WillNotify'
    BY <1>1, <1>3, <1>4 DEF Dequeue, Token, WillNotify
  <2> QED BY <1>1, <1>3, <2>1 DEF IInv
<1>5. CASE ~(kind = "packetqueue" /\ (elapsed \/ pressed))
  <2>1. serverstate = "SERVERWAITING" /\ packetQueue = <<>>
    BY <1>1, <1>5 DEF Dequeue, CanEmit, IInv, Token
  <2>2. Len(packetQueue') = 1 /\ linkSigma' # 0
    BY <1>1, <1>2, <2>1, LinkSteps DEF IInv
  <2>3. Token'
    BY <1>1, <1>3, <2>2 DEF Dequeue, Token
  <2>4. WillNotify'
    BY <1>1, <1>3, <2>2 DEF Dequeue, WillNotify
  <2> QED BY <1>1, <1>3, <2>3, <2>4 DEF IInv
<1> QED BY <1>4, <1>5

LEMMA QueueGoesWaitingInv == IInv /\ QueueGoesWaiting => IInv'
<1> SUFFICES ASSUME IInv, QueueGoesWaiting
             PROVE  IInv'
  OBVIOUS
<1>1. GoWaiting /\ UNCHANGED <<redVars, linkVars, lineVars, sent, asked>>
  BY DEF QueueGoesWaiting
<1>2. RedInv' /\ QueueInv' /\ LinkInv' /\ LineInv'
  BY <1>1, RedSteps, QueueSteps, LinkSteps, LineSteps DEF IInv
<1>3. Token' /\ WillNotify'
  BY <1>1 DEF GoWaiting, Ready, redVars, linkVars, IInv, Token, WillNotify, Content
<1> QED BY <1>1, <1>2, <1>3 DEF IInv

LEMMA LinkEmitsInv == IInv /\ LinkEmits => IInv'
<1> SUFFICES ASSUME IInv, LinkEmits
             PROVE  IInv'
  OBVIOUS
<1>1. LinkSend /\ LineArrive(Head(packetQueue)) /\ Requested
      /\ UNCHANGED <<redVars, sent, asked>>
  BY DEF LinkEmits
<1>2. Head(packetQueue) \in Packets
  BY <1>1, LinkSteps DEF IInv
<1>3. RedInv' /\ QueueInv' /\ LinkInv' /\ LineInv'
  BY <1>1, <1>2, RedSteps, QueueSteps, LinkSteps, LineSteps DEF IInv
<1>4. Token'
  <2>1. /\ serverstate' = "SERVERWAITING"
        /\ UNCHANGED <<kind, elapsed, pressed>>
    BY <1>1 DEF Requested
  <2>2. (kind = "packetqueue" => ~elapsed /\ ~pressed) => packetQueue' = <<>>
    BY <1>1, LinkSteps DEF IInv, Token, LinkSend
  <2> QED BY <2>1, <2>2 DEF Token
<1>5. WillNotify'
  BY <1>1, RequestKeeps DEF LinkSend, redVars
<1> QED BY <1>1, <1>3, <1>4, <1>5 DEF IInv

LEMMA LineEmitsInv == IInv /\ (LineEmits \/ DelayChanges) => IInv'
<1> SUFFICES ASSUME IInv, UNCHANGED <<redVars, queueVars, linkVars, sent, asked>>,
                    LineSend \/ \E d \in Delays : NewDelay(d)
             PROVE  IInv'
  BY DEF LineEmits, DelayChanges
<1>1. RedInv' /\ QueueInv' /\ LinkInv' /\ LineInv'
  BY RedSteps, QueueSteps, LinkSteps, LineSteps DEF IInv
<1>2. Token' /\ WillNotify'
  BY DEF IInv, redVars, queueVars, linkVars, Token, WillNotify, Content, CanEmit
<1> QED BY <1>1, <1>2 DEF IInv

LEMMA AskInv == IInv /\ Ask => IInv'
<1> SUFFICES ASSUME IInv, Ask
             PROVE  IInv'
  OBVIOUS
<1>1. Requested /\ packetQueue = <<>> /\ asked' = TRUE
      /\ UNCHANGED <<redVars, linkVars, lineVars, sent>>
  BY DEF Ask
<1>2. RedInv' /\ QueueInv' /\ LinkInv' /\ LineInv'
  BY <1>1, RedSteps, QueueSteps, LinkSteps, LineSteps DEF IInv
<1>3. Token'
  BY <1>1 DEF Requested, linkVars, Token
<1>4. WillNotify'
  BY <1>1, RequestKeeps DEF redVars
<1> QED BY <1>1, <1>2, <1>3, <1>4 DEF IInv

LEMMA TimePassesInv == IInv /\ TimePasses => IInv'
<1> SUFFICES ASSUME IInv, TimePasses
             PROVE  IInv'
  OBVIOUS
<1>1. UNCHANGED redVars /\ QueueLater /\ LinkLater /\ LineLater /\ UNCHANGED <<sent, asked>>
  BY DEF TimePasses, RedLater
<1>2. RedInv' /\ QueueInv' /\ LinkInv' /\ LineInv'
  BY <1>1, RedSteps, QueueSteps, LinkSteps, LineSteps DEF IInv
<1>3. Token'
  BY <1>1 DEF QueueLater, LinkLater, IInv, Token
<1>4. WillNotify'
  BY <1>1 DEF QueueLater, redVars, IInv, WillNotify, Content
<1> QED BY <1>1, <1>2, <1>3, <1>4 DEF IInv

LEMMA StepInv == IInv /\ [Next]_vars => IInv'
<1>1. ASSUME IInv, UNCHANGED vars
      PROVE  IInv'
  <2>1. RedInv' /\ QueueInv' /\ LinkInv' /\ LineInv'
    BY <1>1, RedSteps, QueueSteps, LinkSteps, LineSteps DEF IInv, vars
  <2>2. Token' /\ WillNotify'
    BY <1>1 DEF IInv, vars, redVars, queueVars, linkVars, Token, WillNotify, Content, CanEmit
  <2> QED BY <1>1, <2>1, <2>2 DEF IInv, vars
<1> QED BY <1>1, SourceInv, RedInvStep, QueueWakesInv, QueueNotifiesInv, QueueEmitsInv,
           QueueGoesWaitingInv, LinkEmitsInv, LineEmitsInv, AskInv, TimePassesInv
        DEF Next, Internal

-----------------------------------------------------------------------------
(* The variables keep their types, for every kind of queue, capacity,      *)
(* period, delay and length: no step of a model reads an empty queue.      *)
THEOREM TypeCorrect == Spec => []TypeOK
<1>1. IInv => TypeOK
  BY DEF IInv, RedInv, QueueInv, LinkInv, LineInv, TypeOK, LinkTypeOK
<1> QED BY <1>1, InitInv, StepInv, PTL DEF Spec

(* The models of the path are due exactly when they have a packet to send. *)
THEOREM DueWithSomethingAlways == Spec => []DueWithSomething
<1>1. IInv => DueWithSomething
  BY DEF IInv, RedInv, RedDue, LinkInv, LinkDue, LineInv, LineDue, DueWithSomething
<1> QED BY <1>1, InitInv, StepInv, PTL DEF Spec

(* A queue sends one packet for each request, unless a forced period or a  *)
(* packet refused at the wrong instant interferes.                         *)
THEOREM OneForEachRequest == Spec => []OnePerRequest
<1>1. IInv => OnePerRequest
  <2> SUFFICES ASSUME IInv, Len(packetQueue) > 1, ~(kind = "packetqueue" /\ (elapsed \/ pressed))
               PROVE  FALSE
    BY DEF OnePerRequest
  <2>1. packetQueue # <<>>
    BY EmptySeq
  <2>2. Len(packetQueue) = 1
    BY <2>1 DEF IInv, Token
  <2> QED BY <2>2
<1> QED BY <1>1, InitInv, StepInv, PTL DEF Spec

(* A packet that waits and a server that is idle never wait for each other. *)
THEOREM NeverStranded == Spec => []NotStranded
<1>1. IInv => NotStranded
  BY DEF IInv, QueueInv, QueueDue, Token, NotStranded
<1> QED BY <1>1, InitInv, StepInv, PTL DEF Spec

(* A queue at rest has notified its length. *)
THEOREM LengthAlwaysKnown == Spec => []LengthKnown
<1>1. IInv => LengthKnown
  BY DEF IInv, WillNotify, Content, LengthKnown
<1> QED BY <1>1, InitInv, StepInv, PTL DEF Spec

(* Packets leave the line when their delay is over and those before them   *)
(* have left, however the delay changes.                                   *)
THEOREM AlwaysLeavesWhenDue == Spec => []LeavesWhenDue
<1>1. IInv => LeavesWhenDue
  BY DEF IInv, LineInv
<1> QED BY <1>1, InitInv, StepInv, PTL DEF Spec

-----------------------------------------------------------------------------
(* Sums along a queue. *)

(* Every non-empty set of natural numbers has a least element. *)
LEMMA LeastNatural ==
  ASSUME NEW T \in SUBSET Nat, T # {}
  PROVE  \E x \in T : \A y \in T : x <= y
<1>1. PICK x \in T : \A y \in T : ~(<<y, x>> \in OpToRel(<, Nat))
  BY WFMin, NatLessThanWellFounded, Zenon
<1>2. \A y \in T : y < x => <<y, x>> \in OpToRel(<, Nat)
  BY DEF OpToRel
<1>3. \A y \in T : ~(y < x)
  BY <1>1, <1>2, Zenon
<1> QED
  BY <1>3

(* Induction: a set that holds 0 and the successor of each of its natural  *)
(* numbers holds them all.                                                 *)
LEMMA InductiveSet ==
  ASSUME NEW T, 0 \in T, \A n \in Nat : n \in T => n + 1 \in T
  PROVE  Nat \subseteq T
<1> SUFFICES ASSUME Nat \ T # {}
             PROVE  FALSE
  OBVIOUS
<1>1. PICK x \in Nat \ T : \A y \in Nat \ T : x <= y
  BY LeastNatural
<1> QED
  BY <1>1

(* f[n] is what the first n packets of s weigh together. *)
Adds(f, n, s, w) == f = [i \in 0 .. n |-> IF i = 0 THEN 0 ELSE f[i - 1] + w[s[i]]]
Total(s, w)      == (CHOOSE f : Adds(f, Len(s), s, w))[Len(s)]

Weights == [Packets -> Nat]

LEMMA AddsFacts ==
  \A n \in Nat : \A s, w, f :
    Adds(f, n, s, w) => f[0] = 0 /\ \A i \in 0 .. n : i # 0 => f[i] = f[i - 1] + w[s[i]]
<1> SUFFICES ASSUME NEW n \in Nat, NEW s, NEW w, NEW f, Adds(f, n, s, w)
             PROVE  f[0] = 0 /\ \A i \in 0 .. n : i # 0 => f[i] = f[i - 1] + w[s[i]]
  BY Zenon
<1>1. \A i \in 0 .. n : f[i] = IF i = 0 THEN 0 ELSE f[i - 1] + w[s[i]]
  BY Zenon DEF Adds
<1> QED
  BY <1>1

LEMMA SumsExist ==
  ASSUME NEW s \in Seq(Packets), NEW w \in Weights
  PROVE  \E f : Adds(f, Len(s), s, w)
<1> DEFINE T == {n \in Nat : n <= Len(s) => \E f : Adds(f, n, s, w)}
<1>1. 0 \in T
  <2>1. Adds([i \in 0 .. 0 |-> 0], 0, s, w)
    BY DEF Adds
  <2> QED BY <2>1
<1>2. ASSUME NEW n \in Nat, n \in T
      PROVE  n + 1 \in T
  <2> SUFFICES ASSUME n + 1 <= Len(s)
               PROVE  \E f : Adds(f, n + 1, s, w)
    OBVIOUS
  <2>1. PICK f : Adds(f, n, s, w)
    BY <1>2
  <2> DEFINE v == f[n] + w[s[n + 1]]
             g == [i \in 0 .. n + 1 |-> IF i = n + 1 THEN v ELSE f[i]]
  <2>2. \A i \in 0 .. n : g[i] = f[i]
    OBVIOUS
  <2>3. g[n + 1] = v
    OBVIOUS
  <2>4. \A i \in 0 .. n + 1 : g[i] = IF i = 0 THEN 0 ELSE g[i - 1] + w[s[i]]
    <3> TAKE i \in 0 .. n + 1
    <3>1. CASE i = n + 1
      <4>1. i # 0 /\ i - 1 = n /\ n \in 0 .. n
        BY <3>1
      <4> HIDE DEF g
      <4> QED BY <3>1, <4>1, <2>2, <2>3
    <3>2. CASE i # n + 1 /\ i # 0
      <4>1. i \in 0 .. n /\ i - 1 \in 0 .. n
        BY <3>2
      <4>2. f[i] = f[i - 1] + w[s[i]]
        BY <4>1, <3>2, <2>1, AddsFacts
      <4> HIDE DEF g
      <4> QED BY <3>2, <4>1, <4>2, <2>2
    <3>3. CASE i = 0
      <4>1. f[0] = 0
        BY <2>1, AddsFacts
      <4> HIDE DEF g
      <4> QED BY <3>3, <4>1, <2>2
    <3> QED BY <3>1, <3>2, <3>3
  <2>5. g = [i \in 0 .. n + 1 |-> g[i]]
    OBVIOUS
  <2>6. Adds(g, n + 1, s, w)
    <3> HIDE DEF g
    <3> QED BY <2>4, <2>5, Zenon DEF Adds
  <2> QED BY <2>6
<1>3. Len(s) \in T
  <2>1. Nat \subseteq T
    <3> HIDE DEF T
    <3> QED BY <1>1, <1>2, InductiveSet
  <2> QED BY <2>1
<1> QED BY <1>3

LEMMA TotalFacts ==
  ASSUME NEW s \in Seq(Packets), NEW w \in Weights
  PROVE  \E f : Adds(f, Len(s), s, w) /\ Total(s, w) = f[Len(s)]
BY SumsExist, Zenon DEF Total

(* The first n of s are in r too, d places later. *)
Shifted(s, n, r, d) == n + d <= Len(r) /\ \A i \in 1 .. n : r[i + d] = s[i]

(* Sums of the same terms are the same, and sums of numbers are numbers.   *)
LEMMA SameSums ==
  ASSUME NEW s \in Seq(Packets), NEW w \in Weights, NEW n \in 0 .. Len(s),
         NEW r \in Seq(Packets), NEW d \in Nat, Shifted(s, n, r, d),
         NEW f, NEW g, Adds(f, Len(s), s, w), Adds(g, Len(r), r, w), g[d] \in Nat
  PROVE  g[n + d] = f[n] + g[d] /\ f[n] \in Nat
<1> DEFINE T == {i \in Nat : i <= n => g[i + d] = f[i] + g[d] /\ f[i] \in Nat}
<1>0. Len(s) \in Nat /\ Len(r) \in Nat
  OBVIOUS
<1>1. 0 \in T
  <2>1. f[0] = 0
    BY <1>0, AddsFacts
  <2> QED BY <2>1
<1>2. ASSUME NEW i \in Nat, i \in T
      PROVE  i + 1 \in T
  <2> SUFFICES ASSUME i + 1 <= n
               PROVE  g[i + 1 + d] = f[i + 1] + g[d] /\ f[i + 1] \in Nat
    OBVIOUS
  <2>1. i + 1 \in 0 .. Len(s) /\ i + 1 # 0 /\ (i + 1) - 1 = i
    OBVIOUS
  <2>2. f[i + 1] = f[i] + w[s[i + 1]]
    BY <1>0, <2>1, AddsFacts
  <2>3. i + 1 + d \in 0 .. Len(r) /\ i + 1 + d # 0 /\ (i + 1 + d) - 1 = i + d
    BY DEF Shifted
  <2>4. g[i + 1 + d] = g[i + d] + w[r[i + 1 + d]]
    BY <1>0, <2>3, AddsFacts
  <2>5. r[i + 1 + d] = s[i + 1] /\ s[i + 1] \in Packets
    BY <2>1 DEF Shifted
  <2>6. w[s[i + 1]] \in Nat
    BY <2>5 DEF Weights
  <2>7. g[i + d] = f[i] + g[d] /\ f[i] \in Nat
    BY <1>2
  <2>8. g[i + 1 + d] = (f[i] + g[d]) + w[s[i + 1]] /\ f[i + 1] = f[i] + w[s[i + 1]]
    BY <2>2, <2>4, <2>5, <2>7, Zenon
  <2>9. f[i] \in Nat /\ g[d] \in Nat /\ w[s[i + 1]] \in Nat
    BY <2>6, <2>7
  <2>10. PICK x \in Nat, y \in Nat, z \in Nat : x = f[i] /\ y = g[d] /\ z = w[s[i + 1]]
    BY <2>9, Zenon
  <2>11. g[i + 1 + d] = (x + y) + z /\ f[i + 1] = x + z
    BY <2>8, <2>10, Zenon
  <2>12. (x + y) + z = (x + z) + y /\ x + z \in Nat
    OBVIOUS
  <2> QED BY <2>10, <2>11, <2>12, Zenon
<1>3. n \in T
  <2>1. Nat \subseteq T
    <3> HIDE DEF T
    <3> QED BY <1>1, <1>2, InductiveSet
  <2> QED BY <2>1
<1> QED BY <1>3

(* A packet at the end adds its weight, one taken from the front removes   *)
(* its own; if each weighs 1 the total is their number.                    *)
LEMMA TotalAppend ==
  ASSUME NEW s \in Seq(Packets), NEW w \in Weights, NEW p \in Packets
  PROVE  Total(Append(s, p), w) = Total(s, w) + w[p] /\ Total(s, w) \in Nat
<1> DEFINE r == Append(s, p)
<1>1. /\ r \in Seq(Packets) /\ Len(r) = Len(s) + 1 /\ r[Len(r)] = p /\ Len(s) \in Nat
      /\ \A i \in 1 .. Len(s) : r[i] = s[i]
  BY AppendProperties
<1> HIDE DEF r
<1>2. PICK f : Adds(f, Len(s), s, w) /\ Total(s, w) = f[Len(s)]
  BY TotalFacts
<1>3. PICK g : Adds(g, Len(r), r, w) /\ Total(r, w) = g[Len(r)]
  BY <1>1, TotalFacts
<1>4. g[0] = 0
  <2>1. Len(r) \in Nat
    BY <1>1
  <2> QED BY <2>1, <1>3, AddsFacts
<1>5. g[Len(s) + 0] = f[Len(s)] + g[0] /\ f[Len(s)] \in Nat
  <2>1. Len(s) \in 0 .. Len(s) /\ 0 \in Nat /\ g[0] \in Nat /\ Shifted(s, Len(s), r, 0)
    BY <1>1, <1>4 DEF Shifted
  <2> QED BY <2>1, <1>1, <1>2, <1>3, SameSums, Zenon
<1>6. g[Len(r)] = g[Len(r) - 1] + w[r[Len(r)]]
  BY <1>1, <1>3, AddsFacts
<1> QED
  BY <1>1, <1>2, <1>3, <1>4, <1>5, <1>6 DEF r

LEMMA TotalTail ==
  ASSUME NEW s \in Seq(Packets), NEW w \in Weights, s # <<>>
  PROVE  Total(Tail(s), w) = Total(s, w) - w[Head(s)] /\ Total(s, w) \in Nat
<1> DEFINE r == Tail(s)
<1>1. /\ r \in Seq(Packets) /\ Len(s) = Len(r) + 1 /\ Len(r) \in Nat
      /\ Head(s) = s[1] /\ s[1] \in Packets /\ \A i \in 1 .. Len(r) : s[i + 1] = r[i]
  BY HeadTailProperties
<1> HIDE DEF r
<1>2. PICK f : Adds(f, Len(r), r, w) /\ Total(r, w) = f[Len(r)]
  BY <1>1, TotalFacts
<1>3. PICK g : Adds(g, Len(s), s, w) /\ Total(s, w) = g[Len(s)]
  BY TotalFacts
<1>4. g[0] = 0 /\ g[1] = g[0] + w[s[1]]
  BY <1>1, <1>3, AddsFacts
<1>5. g[1] = w[s[1]] /\ g[1] \in Nat
  BY <1>1, <1>4 DEF Weights
<1>6. g[Len(r) + 1] = f[Len(r)] + g[1] /\ f[Len(r)] \in Nat
  <2>1. Len(r) \in 0 .. Len(r) /\ 1 \in Nat /\ Shifted(r, Len(r), s, 1)
    BY <1>1 DEF Shifted
  <2> QED BY <2>1, <1>1, <1>2, <1>3, <1>5, SameSums, Zenon
<1> QED
  BY <1>1, <1>2, <1>3, <1>5, <1>6 DEF r

LEMMA TotalCounts ==
  ASSUME NEW s \in Seq(Packets), NEW w \in Weights, \A p \in Packets : w[p] = 1
  PROVE  Total(s, w) = Len(s)
<1>1. PICK f : Adds(f, Len(s), s, w) /\ Total(s, w) = f[Len(s)]
  BY TotalFacts
<1> DEFINE T == {i \in Nat : i <= Len(s) => f[i] = i}
<1>2. 0 \in T
  BY <1>1, AddsFacts
<1>3. ASSUME NEW i \in Nat, i \in T
      PROVE  i + 1 \in T
  <2> SUFFICES ASSUME i + 1 <= Len(s)
               PROVE  f[i + 1] = i + 1
    OBVIOUS
  <2>1. i + 1 \in 0 .. Len(s) /\ i + 1 # 0 /\ (i + 1) - 1 = i
    OBVIOUS
  <2>2. f[i + 1] = f[i] + w[s[i + 1]]
    BY <1>1, <2>1, AddsFacts
  <2>3. w[s[i + 1]] = 1
    BY <2>1
  <2> QED BY <1>3, <2>2, <2>3
<1>4. Nat \subseteq T
  <2> HIDE DEF T
  <2> QED BY <1>2, <1>3, InductiveSet
<1> QED BY <1>1, <1>4

-----------------------------------------------------------------------------
(* The path is a queue of bounded size before a line. *)

(* qSize_bits is the sum of the lengths of what is queued, for every kind. *)
BitsRight == qSize_bits = Total(queue, Length)

LEMMA LengthsWeigh ==
  /\ Length \in Weights /\ \A p \in Packets : Length[p] \in Nat
  /\ [p \in Packets |-> 1] \in Weights
<1>1. \A p \in Packets : Length[p] \in Nat
  <2>1. \A p \in Packets : Length[p] \in 1 .. Inf - 1
    BY PacketAssumption
  <2>2. \A n \in 1 .. Inf - 1 : n \in Nat
    OBVIOUS
  <2> QED BY <2>1, <2>2, Zenon
<1>2. Length \in [Packets -> Nat]
  BY <1>1, PacketAssumption
<1> QED BY <1>1, <1>2 DEF Weights

LEMMA BitsInit == Init => BitsRight
<1> SUFFICES ASSUME Init
             PROVE  BitsRight
  OBVIOUS
<1>1. <<>> \in Seq(Packets) /\ Len(<<>>) = 0
  OBVIOUS
<1>2. PICK f : Adds(f, 0, <<>>, Length) /\ Total(<<>>, Length) = f[0]
  BY <1>1, LengthsWeigh, TotalFacts, Zenon
<1>3. f[0] = 0
  <2>1. 0 \in Nat
    OBVIOUS
  <2> QED BY <1>2, <2>1, AddsFacts
<1> QED BY <1>2, <1>3 DEF Init, QueueInit, BitsRight

(* What a step does to the queue: it grows by a packet, loses its first    *)
(* one, or stays as it is.                                                 *)
LEMMA BitsKept ==
  ASSUME QueueTypeOK, BitsRight,
         \/ \E p \in Packets : Enqueue(p)
         \/ Dequeue
         \/ UNCHANGED <<queue, qSize_bits>>
  PROVE  BitsRight'
<1>1. ASSUME NEW p \in Packets, Enqueue(p)
      PROVE  BitsRight'
  <2>1. Total(Append(queue, p), Length) = Total(queue, Length) + Length[p]
    BY LengthsWeigh, TotalAppend DEF QueueTypeOK
  <2> QED BY <1>1, <2>1 DEF Enqueue, BitsRight
<1>2. CASE Dequeue
  <2>1. Total(Tail(queue), Length) = Total(queue, Length) - Length[Head(queue)]
    BY <1>2, LengthsWeigh, TotalTail DEF QueueTypeOK, Dequeue, CanEmit
  <2> QED BY <1>2, <2>1 DEF Dequeue, BitsRight
<1>3. CASE UNCHANGED <<queue, qSize_bits>>
  BY <1>3 DEF BitsRight
<1> QED BY <1>1, <1>2, <1>3

LEMMA BitsStep == IInv /\ BitsRight /\ [Next]_vars => BitsRight'
<1> SUFFICES ASSUME IInv, BitsRight, [Next]_vars
             PROVE  \/ \E p \in Packets : Enqueue(p)
                    \/ Dequeue
                    \/ UNCHANGED <<queue, qSize_bits>>
  BY BitsKept DEF IInv, QueueInv
<1>1. CASE Source
  BY <1>1 DEF Source, NewPackets, Arrive, Refuse, queueVars
<1>2. CASE RedForwards
  <2>1. Head(outputPackets) \in Packets
    BY <1>2, RedSteps DEF RedForwards, IInv
  <2> QED BY <1>2, <2>1 DEF RedForwards, Arrive, Refuse
<1>3. CASE QueueEmits
  BY <1>3 DEF QueueEmits
<1>4. CASE RedDropped \/ QueueWakes \/ QueueNotifies \/ QueueGoesWaiting
  BY <1>4 DEF RedDropped, QueueWakes, QueueNotifies, QueueGoesWaiting, WakeUp, Notify,
              GoWaiting, queueVars
<1>5. CASE LinkEmits \/ LineEmits \/ DelayChanges \/ Ask \/ TimePasses
  BY <1>5 DEF LinkEmits, LineEmits, DelayChanges, Ask, TimePasses, Requested,
              QueueLater, queueVars
<1>6. CASE UNCHANGED vars
  BY <1>6 DEF vars, queueVars
<1> QED BY <1>1, <1>2, <1>3, <1>4, <1>5, <1>6 DEF Next, Internal

-----------------------------------------------------------------------------
(* The capacity is compared with the size of what waits: of packets, if it *)
(* is a number of them, else of bits.                                      *)
LEMMA SizeRight ==
  ASSUME QueueTypeOK, BitsRight
  PROVE  Fifo!Size = Content
<1> DEFINE w == [p \in Packets |-> Fifo!Weight(p)]
<1>1. w \in Weights /\ \A p \in Packets : w[p] = IF kind = "JobQueue" THEN 1 ELSE Length[p]
  BY LengthsWeigh DEF Weights, Fifo!Weight
<1>2. queue \in Seq(Packets)
  BY DEF QueueTypeOK
<1> DEFINE IsSum(f) ==
      f = [n \in 0 .. Len(queue) |-> IF n = 0 THEN 0 ELSE f[n - 1] + Fifo!Weight(queue[n])]
<1>3. \A f : IsSum(f) <=> Adds(f, Len(queue), queue, w)
  <2>1. \A n \in 0 .. Len(queue) : n # 0 => Fifo!Weight(queue[n]) = w[queue[n]]
    BY <1>2
  <2> HIDE DEF w
  <2> QED BY <2>1 DEF Adds
<1> HIDE DEF w
<1>4. Fifo!Size = (CHOOSE f : IsSum(f))[Len(queue)]
  BY DEF Fifo!Size
<1>5. PICK f : IsSum(f) /\ Fifo!Size = f[Len(queue)]
  <2>1. \E f : IsSum(f)
    BY <1>1, <1>2, <1>3, SumsExist
  <2> HIDE DEF IsSum
  <2> QED BY <1>4, <2>1, Zenon
<1>6. Fifo!Size = Total(queue, w)
  <2>1. PICK g : Adds(g, Len(queue), queue, w) /\ Total(queue, w) = g[Len(queue)]
    BY <1>1, <1>2, TotalFacts
  <2>2. Adds(f, Len(queue), queue, w)
    BY <1>3, <1>5
  <2>3. Len(queue) \in 0 .. Len(queue) /\ 0 \in Nat /\ Shifted(queue, Len(queue), queue, 0)
    BY <1>2 DEF Shifted
  <2>4. g[0] = 0 /\ Len(queue) + 0 = Len(queue)
    <3>1. Len(queue) \in Nat
      BY <1>2
    <3>2. g[0] = 0
      BY <3>1, <2>1, AddsFacts
    <3> QED BY <3>1, <3>2
  <2>5. g[Len(queue) + 0] = f[Len(queue)] + g[0] /\ f[Len(queue)] \in Nat
    BY <1>1, <1>2, <2>1, <2>2, <2>3, <2>4, SameSums
  <2> QED BY <1>5, <2>1, <2>4, <2>5
<1>7. CASE kind = "JobQueue"
  <2>1. \A p \in Packets : w[p] = 1
    BY <1>1, <1>7
  <2> QED BY <1>1, <1>2, <1>6, <1>7, <2>1, TotalCounts DEF Content
<1>8. CASE kind # "JobQueue"
  <2>1. w = Length
    BY <1>1, <1>8, LengthsWeigh DEF Weights
  <2> QED BY <1>6, <1>8, <2>1 DEF Content, BitsRight
<1> QED BY <1>7, <1>8

(* A packet fits as the promise has it. *)
LEMMA FitsRight ==
  ASSUME QueueTypeOK, BitsRight, NEW p \in Packets
  PROVE  Fits(p) <=> Fifo!Size + Fifo!Weight(p) <= MaxCapacity
<1>1. Fifo!Size = Content
  BY SizeRight
<1>2. CASE kind = "JobQueue"
  <2>1. Len(queue) \in Nat /\ MaxCapacity \in Nat
    BY QueueAssumption DEF QueueTypeOK
  <2> QED BY <1>1, <1>2, <2>1 DEF Fits, Content, Fifo!Weight
<1>3. CASE kind # "JobQueue"
  BY <1>1, <1>3 DEF Fits, Content, Fifo!Weight
<1> QED BY <1>2, <1>3

-----------------------------------------------------------------------------
(* What is on the way: the packets of the line, then those of the link. *)
LinePackets == [i \in 1 .. Len(packetOutputTimes) |-> packetOutputTimes[i].packet]
OnTheWay    == LinePackets \o packetQueue

LEMMA LineTyped ==
  ASSUME LinkInv, LineInv
  PROVE  /\ LinePackets \in Seq(Packets) /\ Len(LinePackets) = Len(packetOutputTimes)
         /\ packetQueue \in Seq(Packets) /\ OnTheWay \in Seq(Packets)
<1>1. packetOutputTimes \in Seq(OutputTime) /\ packetQueue \in Seq(Packets)
  BY DEF LineInv, LinkInv
<1>2. \A i \in 1 .. Len(packetOutputTimes) : packetOutputTimes[i].packet \in Packets
  <2>1. \A i \in 1 .. Len(packetOutputTimes) : packetOutputTimes[i] \in OutputTime
    BY <1>1
  <2>2. \A o \in OutputTime : o.packet \in Packets
    BY DEF OutputTime
  <2> QED BY <2>1, <2>2, Zenon
<1>3. LinePackets \in Seq(Packets) /\ Len(LinePackets) = Len(packetOutputTimes)
  BY <1>1, <1>2 DEF LinePackets
<1> QED BY <1>1, <1>3 DEF OnTheWay

(* A packet of the queue goes to the end of the way. *)
LEMMA WayGrows ==
  ASSUME LinkInv, LineInv, NEW p \in Packets,
         packetQueue' = Append(packetQueue, p), packetOutputTimes' = packetOutputTimes
  PROVE  OnTheWay' = Append(OnTheWay, p)
<1>1. LinePackets' = LinePackets
  BY DEF LinePackets
<1>2. LinePackets \in Seq(Packets) /\ packetQueue \in Seq(Packets)
  BY LineTyped
<1>3. LinePackets \o Append(packetQueue, p) = Append(LinePackets \o packetQueue, p)
  BY <1>2
<1> QED BY <1>1, <1>3 DEF OnTheWay

(* From the link to the line a packet keeps its place. *)
LEMMA WayStays ==
  ASSUME LinkInv, LineInv, packetQueue # <<>>,
         packetQueue' = Tail(packetQueue), LineArrive(Head(packetQueue))
  PROVE  OnTheWay' = OnTheWay
<1> DEFINE p == Head(packetQueue)
<1>1. /\ LinePackets \in Seq(Packets) /\ Len(LinePackets) = Len(packetOutputTimes)
      /\ packetQueue \in Seq(Packets) /\ packetOutputTimes \in Seq(OutputTime)
  BY LineTyped DEF LineInv
<1>2. p \in Packets /\ Tail(packetQueue) \in Seq(Packets)
  BY <1>1, HeadTailProperties
<1>3. PICK o : packetOutputTimes' = Append(packetOutputTimes, o) /\ o.packet = p
  BY DEF LineArrive
<1>4. LinePackets' = Append(LinePackets, p)
  BY <1>1, <1>2, <1>3 DEF LinePackets
<1>5. Append(LinePackets, p) \o Tail(packetQueue) = LinePackets \o packetQueue
  BY <1>1, <1>2
<1> QED BY <1>4, <1>5 DEF OnTheWay

(* The first packet of the line leaves the way. *)
LEMMA WayShrinks ==
  ASSUME LinkInv, LineInv, packetOutputTimes # <<>>,
         packetOutputTimes' = Tail(packetOutputTimes), packetQueue' = packetQueue
  PROVE  OnTheWay # <<>> /\ OnTheWay' = Tail(OnTheWay)
<1>1. /\ LinePackets \in Seq(Packets) /\ Len(LinePackets) = Len(packetOutputTimes)
      /\ packetQueue \in Seq(Packets) /\ packetOutputTimes \in Seq(OutputTime)
  BY LineTyped DEF LineInv
<1>2. LinePackets # <<>> /\ Len(packetOutputTimes) \in Nat \ {0}
  BY <1>1
<1>3. LinePackets' = Tail(LinePackets)
  BY <1>1, <1>2 DEF LinePackets
<1>4. LinePackets \o packetQueue # <<>>
      /\ Tail(LinePackets \o packetQueue) = Tail(LinePackets) \o packetQueue
  BY <1>1, <1>2
<1> QED BY <1>3, <1>4 DEF OnTheWay

-----------------------------------------------------------------------------
(* Every step is one of the promise, or is not seen by it. *)
LEMMA MappedInit == Init => Fifo!Init
<1> SUFFICES ASSUME Init
             PROVE  Fifo!Init
  OBVIOUS
<1>1. OnTheWay = <<>>
  <2>1. packetOutputTimes = <<>> /\ packetQueue = <<>>
    BY DEF Init, LinkInit, LineInit
  <2> QED BY <2>1 DEF OnTheWay, LinePackets
<1> QED BY <1>1 DEF Init, QueueInit, Fifo!Init, OnTheWay, LinePackets

(* A packet comes to the queue. *)
LEMMA MappedArrival ==
  ASSUME QueueTypeOK, BitsRight, NEW p \in Packets, Arrive(p), UNCHANGED OnTheWay
  PROVE  Fifo!Next
<1>1. CASE Enqueue(p)
  <2>1. Fifo!Accept(p)
    BY <1>1, FitsRight DEF Enqueue, Fifo!Accept, OnTheWay, LinePackets
  <2> QED BY <2>1 DEF Fifo!Next
<1>2. CASE Refuse(p)
  <2>1. Fifo!Size + Fifo!Weight(p) > MaxCapacity
    <3>1. Fifo!Size \in Int /\ Fifo!Weight(p) \in Int /\ MaxCapacity \in Int
      BY QueueAssumption, SizeRight, ConstantFacts DEF Content, QueueTypeOK, Fifo!Weight
    <3>2. ~(Fifo!Size + Fifo!Weight(p) <= MaxCapacity)
      BY <1>2, FitsRight DEF Refuse
    <3> QED BY <3>1, <3>2
  <2>2. Fifo!Refuse(p)
    BY <1>2, <2>1 DEF Refuse, Fifo!Refuse, OnTheWay, LinePackets
  <2> QED BY <2>2 DEF Fifo!Next
<1> QED BY <1>1, <1>2 DEF Arrive

(* Nothing moves that the promise knows of. *)
Unseen == UNCHANGED <<kind, queue, discarded, OnTheWay>>

LEMMA UnseenStutters == Unseen => [Fifo!Next]_(Fifo!vars)
BY DEF Unseen, Fifo!vars, OnTheWay, LinePackets

LEMMA MappedQueueEmits ==
  ASSUME IInv, QueueEmits
  PROVE  Fifo!Next
<1>1. queue # <<>> /\ Head(queue) \in Packets
  BY HeadTailProperties DEF IInv, QueueInv, QueueTypeOK, QueueEmits, Dequeue, CanEmit
<1>2. OnTheWay' = Append(OnTheWay, Head(queue))
  BY <1>1, WayGrows DEF IInv, QueueEmits, LinkArrive, lineVars
<1>3. Fifo!Serve
  BY <1>1, <1>2 DEF QueueEmits, Dequeue, Fifo!Serve, OnTheWay, LinePackets
<1> QED BY <1>3 DEF Fifo!Next

LEMMA MappedLineEmits ==
  ASSUME IInv, LineEmits
  PROVE  Fifo!Next
<1>1. OnTheWay # <<>> /\ OnTheWay' = Tail(OnTheWay)
  BY WayShrinks DEF IInv, LineEmits, LineSend, linkVars
<1>2. Fifo!Deliver
  BY <1>1 DEF LineEmits, queueVars, Fifo!Deliver, OnTheWay, LinePackets
<1> QED BY <1>2 DEF Fifo!Next

(* Time changes what is left to the packets of the line, not their order. *)
LEMMA MappedTime ==
  ASSUME IInv, TimePasses
  PROVE  Unseen
<1>1. LinePackets' = LinePackets
  <2>1. packetOutputTimes \in Seq(OutputTime)
    BY DEF IInv, LineInv
  <2>2. /\ DOMAIN packetOutputTimes = 1 .. Len(packetOutputTimes)
        /\ \A i \in 1 .. Len(packetOutputTimes) : packetOutputTimes[i] \in OutputTime
    BY <2>1
  <2>3. packetOutputTimes' = [i \in DOMAIN packetOutputTimes |->
          [packetOutputTimes[i] EXCEPT !.left = Shorter(@), !.due = Shorter(@)]]
    BY DEF TimePasses, LineLater
  <2>4. \A o \in OutputTime :
          [o EXCEPT !.left = Shorter(@), !.due = Shorter(@)].packet = o.packet
    BY DEF OutputTime
  <2>5. \A i \in 1 .. Len(packetOutputTimes) :
          packetOutputTimes'[i].packet = packetOutputTimes[i].packet
    BY <2>2, <2>3, <2>4
  <2>6. Len(packetOutputTimes') = Len(packetOutputTimes)
    <3>1. packetOutputTimes' \in Seq(OutputTime)
      BY LineSteps DEF TimePasses, IInv, LineInv
    <3>2. DOMAIN packetOutputTimes' = 1 .. Len(packetOutputTimes)
      BY <2>2, <2>3
    <3> QED BY <2>1, <3>1, <3>2
  <2> QED BY <2>5, <2>6 DEF LinePackets
<1> QED BY <1>1 DEF TimePasses, QueueLater, LinkLater, Unseen, OnTheWay

LEMMA MappedStep == IInv /\ BitsRight /\ [Next]_vars => [Fifo!Next]_(Fifo!vars)
<1> SUFFICES ASSUME IInv, BitsRight, [Next]_vars
             PROVE  Fifo!Next \/ Unseen
  BY UnseenStutters
<1>1. ASSUME UNCHANGED <<packetOutputTimes, packetQueue>>
      PROVE  UNCHANGED OnTheWay
  BY <1>1 DEF OnTheWay, LinePackets
<1>2. CASE Source
  <2>1. PICK p \in Packets :
          \/ Arrive(p) /\ UNCHANGED <<linkVars, lineVars>>
          \/ UNCHANGED <<queueVars, linkVars, lineVars>>
    BY <1>2 DEF Source, NewPackets
  <2>2. UNCHANGED OnTheWay
    BY <1>1, <2>1 DEF linkVars, lineVars
  <2> QED BY <2>1, <2>2, MappedArrival DEF IInv, QueueInv, queueVars, Unseen
<1>3. CASE RedForwards
  <2>1. Head(outputPackets) \in Packets
    BY <1>3, RedSteps DEF RedForwards, IInv
  <2>2. UNCHANGED OnTheWay
    BY <1>1, <1>3 DEF RedForwards, linkVars, lineVars
  <2> QED BY <1>3, <2>1, <2>2, MappedArrival DEF RedForwards, IInv, QueueInv
<1>4. CASE QueueEmits
  BY <1>4, MappedQueueEmits
<1>5. CASE LineEmits
  BY <1>5, MappedLineEmits
<1>6. CASE LinkEmits
  <2>1. UNCHANGED OnTheWay
    BY <1>6, WayStays DEF LinkEmits, LinkSend, IInv
  <2> QED BY <1>6, <2>1 DEF LinkEmits, Requested, Unseen
<1>7. CASE TimePasses
  BY <1>7, MappedTime
<1>8. CASE RedDropped \/ QueueWakes \/ QueueNotifies \/ QueueGoesWaiting \/ Ask
  <2>1. UNCHANGED <<kind, queue, discarded, linkVars, lineVars>>
    BY <1>8 DEF RedDropped, QueueWakes, QueueNotifies, QueueGoesWaiting, WakeUp, Notify,
                GoWaiting, Ask, Requested, queueVars
  <2> QED BY <1>1, <2>1 DEF linkVars, lineVars, Unseen
<1>9. CASE DelayChanges \/ UNCHANGED vars
  <2>1. UNCHANGED <<kind, queue, discarded, packetOutputTimes, packetQueue>>
    BY <1>9 DEF DelayChanges, NewDelay, vars, queueVars, linkVars, lineVars
  <2> QED BY <1>1, <2>1 DEF Unseen
<1> QED BY <1>2, <1>3, <1>4, <1>5, <1>6, <1>7, <1>8, <1>9 DEF Next, Internal

(* From the queue to the end of the line a packet keeps its place, none is *)
(* lost or sent twice, and a packet is refused exactly when it does not    *)
(* fit beside those that wait.                                             *)
THEOREM PathImplementsFifo == Spec => ImplementsFifo
<1> QED
  BY InitInv, StepInv, BitsInit, BitsStep, MappedInit, MappedStep, PTL
  DEF Spec, ImplementsFifo, Fifo!Spec

=============================================================================
