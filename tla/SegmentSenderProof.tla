-------------------------- MODULE SegmentSenderProof --------------------------
(***************************************************************************)
(* Proofs about SegmentSender, for every segment length, every resend      *)
(* threshold and both shapes of the last packet.                           *)
(***************************************************************************)
EXTENDS SegmentSender, SequenceTheorems, TLAPS

\* The sender's control points between two tests of the stop flag at which it
\* may still count a packet.
Taking == {"get", "skip"}

\* The sender holds a packet that it has counted and not transmitted yet.
Holding == {"check", "send"}

\* The packet in hand: on the first pass it is the next one to be counted, and
\* once counted its acknowledgement would be accepted.
HandInv ==
  /\ spc = "skip" => node < FirstUntaken
  /\ spc = "skip" /\ packets_sent < NumPackets => node = packets_sent
  /\ spc \in Holding \cup {"test"} => node < packets_sent

\* What has been counted has been transmitted, but for the packet in hand.
SentInv ==
  /\ \A n \in sent : n < packets_sent
  /\ \A n \in SequenceNumbers :
       n < packets_sent /\ HasBytes(n) /\ ~(spc \in Holding /\ n = node)
         => n \in sent
  /\ is_acked \subseteq sent

\* The budget, and the counter at the points where the sender gives up.
BudgetInv ==
  /\ packets_sent <= max_num_packets_sent
  /\ packets_sent = max_num_packets_sent => is_dead
  /\ spc \in Taking => packets_sent < max_num_packets_sent
  /\ spc = "done" => packets_sent >= NumPackets

FlagInv ==
  /\ StopFlagsSound
  /\ apc = "kill" => is_acked = SequenceNumbers

\* The length of the queue while resendAll refills it.
RefillInv ==
  /\ QueueBounded
  /\ spc = "lock" => Len(packet_queue) < NumPackets \div ResendThreshold
  /\ spc = "resend" =>
       /\ index <= ResendLimit
       /\ Len(packet_queue) < NumPackets \div ResendThreshold + index

IInv ==
  /\ TypeOK
  /\ FirstPassFirst
  /\ HandInv
  /\ SentInv
  /\ BudgetInv
  /\ FlagInv
  /\ RefillInv

-----------------------------------------------------------------------------
\* The constructor and the thread start establish the types.
LEMMA TypeInit == Init => TypeOK
<1> USE DispenserAssumption DEF TypeOK, SequenceNumbers
<1>1. [i \in 1 .. NumPackets |-> i - 1] \in [1 .. NumPackets -> SequenceNumbers]
  OBVIOUS
<1>2. [i \in 1 .. NumPackets |-> i - 1] \in Seq(SequenceNumbers)
  BY <1>1, SeqDef
<1>3. Init => packet_queue \in Seq(SequenceNumbers)
  BY <1>2, Zenon DEF Init, DispenserInit
<1>4. Init => all_acks_recieved \in BOOLEAN /\ is_dead \in BOOLEAN
  BY Zenon DEF Init, DispenserInit
<1>5. Init => /\ is_acked = {} /\ packets_sent = 0 /\ node = 0 /\ index = 0
              /\ spc = "loop" /\ apc = "idle" /\ sent = {}
  BY Zenon DEF Init, DispenserInit
<1>6. QED
  BY <1>3, <1>4, <1>5

\* A step of the sender or of putAck keeps the types.
LEMMA TypeStep == TypeOK /\ [Next]_vars => TypeOK'
<1> USE DispenserAssumption, SenderAssumption DEF TypeOK, SequenceNumbers
<1> SUFFICES ASSUME TypeOK, [Next]_vars
             PROVE  TypeOK'
  OBVIOUS
<1> USE DEF dispenserVars, senderVars, SenderAt
<1>1. CASE LoopTest
  BY <1>1 DEF LoopTest
<1>2. CASE QueueEmpty
  BY <1>2 DEF QueueEmpty
<1>3. CASE TakePacket
  BY <1>3, HeadTailProperties DEF TakePacket, PopFront
<1>4. CASE SkipAcked
  <2>1. CASE packet_queue # <<>>
    <3>1. Head(packet_queue) \in SequenceNumbers
      BY <2>1, HeadTailProperties
    <3>2. Tail(packet_queue) \in Seq(SequenceNumbers)
      BY <2>1, HeadTailProperties
    <3>3. QED
      BY <1>4, <2>1, <3>1, <3>2 DEF SkipAcked, Acked, PopFront
  <2>2. CASE packet_queue = <<>>
    BY <1>4, <2>2 DEF SkipAcked, Acked
  <2>3. QED
    BY <2>1, <2>2
<1>5. CASE CountForSending
  BY <1>5 DEF CountForSending, Acked, CountPacket
<1>6. CASE CheckAcks
  BY <1>6 DEF CheckAcks, GetAllAcksRecieved
<1>7. CASE Transmit
  BY <1>7 DEF Transmit
<1>8. CASE TestStop
  BY <1>8 DEF TestStop
<1>9. CASE TestThreshold
  BY <1>9 DEF TestThreshold
<1>10. CASE ResendStep
  <2>1. CASE index < ResendLimit
    <3>1. index \in SequenceNumbers /\ index + 1 \in 0 .. NumPackets
      BY <2>1 DEF ResendLimit, Minimum
    <3>2. Append(packet_queue, index) \in Seq(SequenceNumbers)
      BY <3>1, AppendProperties
    <3>3. QED
      BY <1>10, <2>1, <3>1, <3>2 DEF ResendStep, PushUnlessAcked
  <2>2. CASE ~(index < ResendLimit)
    BY <1>10, <2>2 DEF ResendStep
  <2>3. QED
    BY <2>1, <2>2
<1>11. CASE LockForResend
  BY <1>11 DEF LockForResend
<1>12. CASE AckArrives
  BY <1>12 DEF AckArrives, PutAckMark, MarkAck
<1>13. CASE PutAckSum
  BY <1>13 DEF PutAckSum, AfterSum, SumAcks
<1>14. CASE PutAckKill
  BY <1>14 DEF PutAckKill, SetImDead
<1>15. CASE UNCHANGED vars
  BY <1>15 DEF vars
<1>16. QED
  BY <1>1, <1>2, <1>3, <1>4, <1>5, <1>6, <1>7, <1>8, <1>9, <1>10, <1>11, <1>12,
      <1>13, <1>14, <1>15 DEF Next, Sender, Listener

\* Every variable of the dispenser and of its two threads keeps its type.
THEOREM TypeCorrect == Spec => []TypeOK
  BY TypeInit, TypeStep, PTL DEF Spec

\* The invariant holds when the constructor has queued the segment.
LEMMA InvariantInit == Init => IInv
<1> SUFFICES ASSUME Init PROVE IInv
  OBVIOUS
<1> USE DispenserAssumption DEF Init, DispenserInit
<1>1. /\ TypeOK
      /\ Len(packet_queue) = NumPackets
      /\ \A i \in 1 .. NumPackets : packet_queue[i] = i - 1
  <2>1. TypeOK
    BY TypeInit
  <2>2. packet_queue = [i \in 1 .. NumPackets |-> i - 1]
    BY Zenon
  <2>3. QED
    BY <2>1, <2>2
<1>2. FirstPassFirst
  BY <1>1 DEF FirstPassFirst, FirstUntaken, Minimum
<1>3. /\ packets_sent = 0 /\ spc = "loop" /\ sent = {} /\ is_acked = {}
      /\ all_acks_recieved = FALSE /\ is_dead = FALSE /\ apc = "idle"
  BY Zenon
<1>4. HandInv
  BY <1>3 DEF HandInv, Holding
<1>5. SentInv
  <2>1. \A n \in SequenceNumbers : ~(n < 0)
    BY DEF SequenceNumbers
  <2>2. QED
    BY <1>3, <2>1 DEF SentInv
<1>6. BudgetInv /\ FlagInv /\ RefillInv
  BY <1>1 DEF BudgetInv, FlagInv, RefillInv, StopFlagsSound, QueueBounded,
              Taking, max_num_packets_sent
<1>7. QED
  BY <1>1, <1>2, <1>4, <1>5, <1>6 DEF IInv

\* C's quotient of two positive integers.
LEMMA QuotientType ==
  ASSUME NEW a \in Nat, NEW b \in Nat \ {0}
  PROVE  a \div b \in Nat
  OBVIOUS

\* A queue that becomes shorter stays within its bound.
LEMMA ShorterQueue ==
  ASSUME QueueBounded,
         Len(packet_queue) \in Nat, Len(packet_queue') \in Nat,
         Len(packet_queue') < Len(packet_queue)
  PROVE  QueueBounded'
<1>1. NumPackets \div ResendThreshold \in Nat
  BY DispenserAssumption, QuotientType
<1>2. QED
  BY <1>1, DispenserAssumption DEF QueueBounded

\* Taking the head off the queue keeps its order: either the next packet of the
\* first pass is taken, or there is none left.
LEMMA TakingKeepsOrder ==
  ASSUME FirstPassFirst, packet_queue \in Seq(SequenceNumbers),
         packet_queue # <<>>, packet_queue' = Tail(packet_queue),
         FirstUntaken \in 0 .. NumPackets,
         FirstUntaken' = IF FirstUntaken < NumPackets THEN FirstUntaken + 1
                                                      ELSE FirstUntaken
  PROVE  FirstPassFirst'
<1> USE DispenserAssumption
<1>1. Len(packet_queue) \in Nat \ {0}
  BY EmptySeq
<1>2. /\ Len(packet_queue') = Len(packet_queue) - 1
      /\ \A i \in 1 .. Len(packet_queue) - 1 :
           packet_queue'[i] = packet_queue[i + 1]
  BY HeadTailProperties
<1>3. CASE FirstUntaken < NumPackets
  <2> DEFINE n == Len(packet_queue)
             u == FirstUntaken
  <2>1. NumPackets - u <= n /\ NumPackets - u >= 1
    BY <1>1, <1>3 DEF FirstPassFirst
  <2>2. \A i \in 1 .. n : IF i <= NumPackets - u
                           THEN packet_queue[i] = u + i - 1
                           ELSE packet_queue[i] < u
    BY DEF FirstPassFirst
  <2>3. FirstUntaken' = u + 1
    BY <1>3
  <2> HIDE DEF u
  <2>4. u \in Nat /\ n \in Nat
    BY <1>1 DEF u
  <2>5. \A i \in 1 .. n - 1 : IF i <= NumPackets - (u + 1)
                               THEN packet_queue'[i] = (u + 1) + i - 1
                               ELSE packet_queue'[i] < u + 1
    <3>1. TAKE i \in 1 .. n - 1
    <3>2. packet_queue'[i] = packet_queue[i + 1] /\ i + 1 \in 1 .. n
      BY <1>2, <2>4
    <3>3. IF i + 1 <= NumPackets - u THEN packet_queue[i + 1] = u + (i + 1) - 1
                                     ELSE packet_queue[i + 1] < u
      BY <2>2, <3>2
    <3>4. packet_queue[i + 1] \in Nat
      BY <3>2, LenProperties DEF SequenceNumbers
    <3>5. QED
      BY <2>4, <3>2, <3>3, <3>4
  <2>6. QED
    BY <1>2, <2>1, <2>3, <2>4, <2>5 DEF FirstPassFirst
<1>4. CASE FirstUntaken = NumPackets
  BY <1>1, <1>2, <1>4 DEF FirstPassFirst
<1>5. QED
  BY <1>3, <1>4

\* Appending a packet that was taken before keeps the order.
LEMMA AppendingKeepsOrder ==
  ASSUME NEW s \in SequenceNumbers,
         FirstPassFirst, packet_queue \in Seq(SequenceNumbers),
         packet_queue' = Append(packet_queue, s),
         FirstUntaken \in 0 .. NumPackets, FirstUntaken' = FirstUntaken,
         s < FirstUntaken
  PROVE  FirstPassFirst'
<1> USE DispenserAssumption
<1>1. Len(packet_queue) \in Nat
  BY LenProperties
<1>2. /\ Len(packet_queue') = Len(packet_queue) + 1
      /\ \A i \in 1 .. Len(packet_queue) : packet_queue'[i] = packet_queue[i]
      /\ packet_queue'[Len(packet_queue) + 1] = s
  BY AppendProperties
<1>3. QED
  BY <1>1, <1>2 DEF FirstPassFirst

\* Every step of the sender thread and of the listener thread preserves it.
LEMMA InvariantStep ==
  ASSUME IInv, [Next]_vars, TypeOK'
  PROVE  IInv'
<1> USE DispenserAssumption, SenderAssumption
    DEF IInv, TypeOK, SequenceNumbers, dispenserVars, senderVars, SenderAt,
        FirstPassFirst, FirstUntaken, HandInv, SentInv, HasBytes, BudgetInv,
        FlagInv, StopFlagsSound, RefillInv, QueueBounded, ResendLimit,
        Taking, Holding, Minimum, max_num_packets_sent
<1>1. CASE LoopTest
  BY <1>1 DEF LoopTest
<1>2. CASE QueueEmpty
  BY <1>2 DEF QueueEmpty
<1>3. CASE TakePacket
  <2>1. /\ Len(Tail(packet_queue)) = Len(packet_queue) - 1
        /\ \A i \in 1 .. Len(packet_queue) - 1 :
             Tail(packet_queue)[i] = packet_queue[i + 1]
        /\ Head(packet_queue) = packet_queue[1]
    BY <1>3, HeadTailProperties DEF TakePacket
  <2>2. FirstPassFirst' /\ HandInv'
    <3>1. /\ packet_queue' = Tail(packet_queue)
          /\ node' = Head(packet_queue)
          /\ spc = "get" /\ spc' = "skip"
          /\ packets_sent' = packets_sent
      BY <1>3 DEF TakePacket, PopFront
    <3>2. Len(packet_queue) \in Nat \ {0}
      BY <1>3, EmptySeq DEF TakePacket
    <3>3. Head(packet_queue) \in SequenceNumbers
      BY <1>3, HeadTailProperties DEF TakePacket
    <3>4. FirstUntaken \in 0 .. NumPackets
      OBVIOUS
    <3>5. FirstUntaken' = IF FirstUntaken < NumPackets THEN FirstUntaken + 1
                                                       ELSE FirstUntaken
      BY <3>1
    <3>6. packet_queue # <<>>
      BY <1>3 DEF TakePacket
    <3>7. FirstPassFirst'
      BY <3>1, <3>4, <3>5, <3>6, TakingKeepsOrder
    <3>8. HandInv'
      BY <2>1, <3>1, <3>2, <3>3
    <3>9. QED
      BY <3>7, <3>8
  <2>3. SentInv' /\ BudgetInv' /\ FlagInv'
    BY <1>3 DEF TakePacket
  <2>4. RefillInv'
    <3>1. Len(packet_queue') < Len(packet_queue)
      BY <1>3, <2>1, HeadTailProperties DEF TakePacket, PopFront
    <3>2. Len(packet_queue') \in Nat /\ Len(packet_queue) \in Nat
      BY LenProperties
    <3>3. spc' = "skip"
      BY <1>3 DEF TakePacket
    <3>4. QueueBounded'
      BY <3>1, <3>2, ShorterQueue
    <3>5. QED
      BY <3>3, <3>4
  <2>5. QED
    BY <2>2, <2>3, <2>4
<1>4. CASE SkipAcked
  <2>1. packets_sent >= NumPackets
    BY <1>4 DEF SkipAcked, Acked
  <2>2. CASE packet_queue = <<>>
    BY <1>4, <2>1, <2>2 DEF SkipAcked, Acked
  <2>3. CASE packet_queue # <<>>
    <3>1. /\ Len(Tail(packet_queue)) = Len(packet_queue) - 1
          /\ \A i \in 1 .. Len(packet_queue) - 1 :
               Tail(packet_queue)[i] = packet_queue[i + 1]
          /\ Head(packet_queue) = packet_queue[1]
      BY <2>3, HeadTailProperties
    <3>2. /\ packet_queue' = Tail(packet_queue)
          /\ node' = Head(packet_queue)
          /\ spc = "skip" /\ spc' = "skip"
          /\ packets_sent' = packets_sent
      BY <1>4, <2>3 DEF SkipAcked, Acked, PopFront
    <3>3. Len(packet_queue) \in Nat \ {0}
      BY <2>3, EmptySeq
    <3>4. FirstPassFirst'
      <4>1. FirstUntaken = NumPackets /\ FirstUntaken' = NumPackets
        BY <2>1, <3>2
      <4>2. QED
        BY <2>3, <3>2, <4>1, TakingKeepsOrder
    <3>5. HandInv'
      <4>1. Head(packet_queue) \in SequenceNumbers
        BY <2>3, HeadTailProperties
      <4>2. QED
        BY <2>1, <3>2, <4>1
    <3>6. SentInv' /\ BudgetInv' /\ FlagInv'
      BY <1>4, <2>3 DEF SkipAcked, Acked
    <3>7. RefillInv'
      <4>1. Len(packet_queue') \in Nat /\ Len(packet_queue') < Len(packet_queue)
        BY <3>1, <3>2, <3>3
      <4>2. QueueBounded'
        BY <3>3, <4>1, ShorterQueue
      <4>3. QED
        BY <3>2, <4>2
    <3>8. QED
      BY <3>4, <3>5, <3>6, <3>7
  <2>4. QED
    BY <2>2, <2>3
<1>5. CASE CountForSending
  <2>1. FirstPassFirst' /\ HandInv' /\ SentInv' /\ RefillInv'
    BY <1>5 DEF CountForSending, Acked, CountPacket
  <2>2. BudgetInv'
    <3>1. is_dead' <=> (is_dead \/ packets_sent + 1 >= max_num_packets_sent)
      BY <1>5, Zenon DEF CountForSending, Acked, CountPacket
    <3>2. QED
      BY <1>5, <3>1 DEF CountForSending, Acked, CountPacket
  <2>3. FlagInv'
    BY <1>5 DEF CountForSending, Acked, CountPacket
  <2>4. QED
    BY <2>1, <2>2, <2>3
<1>6. CASE CheckAcks
  BY <1>6 DEF CheckAcks, GetAllAcksRecieved
<1>7. CASE Transmit
  BY <1>7 DEF Transmit
<1>8. CASE TestStop
  BY <1>8 DEF TestStop, GetAllAcksRecieved
<1>9. CASE TestThreshold
  BY <1>9 DEF TestThreshold, NeedsResend
<1>10. CASE ResendStep
  <2>1. CASE index < ResendLimit /\ index \notin is_acked
    <3>1. index \in SequenceNumbers /\ index < FirstUntaken
      BY <1>10, <2>1 DEF ResendStep
    <3>2. /\ Len(Append(packet_queue, index)) = Len(packet_queue) + 1
          /\ \A i \in 1 .. Len(packet_queue) :
               Append(packet_queue, index)[i] = packet_queue[i]
          /\ Append(packet_queue, index)[Len(packet_queue) + 1] = index
      BY <3>1, AppendProperties
    <3>3. /\ packet_queue' = Append(packet_queue, index)
          /\ index' = index + 1
          /\ UNCHANGED <<packets_sent, spc, is_acked, is_dead,
                         all_acks_recieved, node, apc, sent>>
      BY <1>10, <2>1 DEF ResendStep, PushUnlessAcked
    <3>4. FirstPassFirst'
      <4>1. FirstUntaken \in 0 .. NumPackets /\ FirstUntaken' = FirstUntaken
        BY <3>3
      <4>2. QED
        BY <3>1, <3>3, <4>1, AppendingKeepsOrder
    <3>5. HandInv' /\ SentInv' /\ BudgetInv' /\ FlagInv'
      BY <3>3
    <3>6. RefillInv'
      BY <1>10, <2>1, <3>2, <3>3 DEF ResendStep
    <3>7. QED
      BY <3>4, <3>5, <3>6
  <2>2. CASE index < ResendLimit /\ index \in is_acked
    <3>1. /\ index' = index + 1
          /\ UNCHANGED <<packet_queue, packets_sent, spc, is_acked, is_dead,
                         all_acks_recieved, node, apc, sent>>
      BY <1>10, <2>2 DEF ResendStep, PushUnlessAcked
    <3>2. FirstPassFirst' /\ HandInv' /\ SentInv' /\ BudgetInv' /\ FlagInv'
      BY <3>1
    <3>3. RefillInv'
      BY <1>10, <2>2, <3>1 DEF ResendStep
    <3>4. QED
      BY <3>2, <3>3
  <2>3. CASE ~(index < ResendLimit)
    <3>1. /\ spc = "resend" /\ spc' = "loop"
          /\ UNCHANGED <<packet_queue, packets_sent, is_acked, is_dead,
                         all_acks_recieved, node, index, apc, sent>>
      BY <1>10, <2>3 DEF ResendStep
    <3>2. QED
      BY <3>1
  <2>4. QED
    BY <2>1, <2>2, <2>3
<1>11. CASE LockForResend
  BY <1>11 DEF LockForResend, AckLockFree
<1>12. CASE AckArrives
  <2>1. PICK s \in sent : PutAckMark(s)
    BY <1>12 DEF AckArrives
  <2>2. is_acked' = is_acked \cup {s}
    BY <2>1 DEF PutAckMark, MarkAck, AckRejected
  <2>3. FirstPassFirst' /\ HandInv' /\ SentInv' /\ BudgetInv' /\ RefillInv'
    BY <2>1, <2>2 DEF PutAckMark
  <2>4. is_acked = SequenceNumbers => is_acked' = SequenceNumbers
    BY <2>2
  <2>5. FlagInv'
    BY <2>1, <2>4 DEF PutAckMark, AckLockFree
  <2>6. QED
    BY <2>3, <2>5
<1>13. CASE PutAckSum
  BY <1>13 DEF PutAckSum, AfterSum, SumAcks
<1>14. CASE PutAckKill
  BY <1>14 DEF PutAckKill, SetImDead
<1>15. CASE UNCHANGED vars
  BY <1>15 DEF vars
<1>16. QED
  BY <1>1, <1>2, <1>3, <1>4, <1>5, <1>6, <1>7, <1>8, <1>9, <1>10, <1>11,
     <1>12, <1>13, <1>14, <1>15 DEF Next, Sender, Listener

\* The inductive invariant holds in every reachable state.
THEOREM Invariance == Spec => []IInv
<1>1. IInv /\ [Next]_vars /\ TypeOK' => IInv'
  BY InvariantStep
<1>2. QED
  BY <1>1, InvariantInit, TypeCorrect, PTL DEF Spec

\* Retransmissions queued by resendAll never overtake the first pass.
THEOREM FirstPassComesFirst == Spec => []FirstPassFirst
<1>1. IInv => FirstPassFirst
  BY DEF IInv
<1>2. QED
  BY <1>1, Invariance, PTL

\* putAck accepts the acknowledgement of every packet on the wire.
THEOREM AckNeverRefused == Spec => []AcksAccepted
<1>1. IInv => AcksAccepted
  BY DispenserAssumption
     DEF IInv, TypeOK, SentInv, AcksAccepted, AckRejected, SequenceNumbers
<1>2. QED
  BY <1>1, Invariance, PTL

\* all_acks_recieved and is_dead are raised only for the reason they stand for.
THEOREM StopFlagsTruthful == Spec => []StopFlagsSound
<1>1. IInv => StopFlagsSound
  BY DEF IInv, FlagInv
<1>2. QED
  BY <1>1, Invariance, PTL

\* When the sender thread ends, every packet with bytes has been transmitted.
THEOREM FirstPassCompletes == Spec => []EveryPacketSent
<1>1. IInv => EveryPacketSent
  BY DispenserAssumption
     DEF IInv, TypeOK, SentInv, BudgetInv, Holding, EveryPacketSent,
         SequenceNumbers
<1>2. QED
  BY <1>1, Invariance, PTL

\* The queue never outgrows the segment and the rest below the threshold.
THEOREM QueueStaysBounded == Spec => []QueueBounded
<1>1. IInv => QueueBounded
  BY DEF IInv, RefillInv
<1>2. QED
  BY <1>1, Invariance, PTL

\* A segment never costs more than twice its packets in transmissions.
THEOREM BudgetKept == Spec => [](packets_sent <= 2 * NumPackets)
<1>1. IInv => packets_sent <= 2 * NumPackets
  BY DEF IInv, BudgetInv, max_num_packets_sent
<1>2. QED
  BY <1>1, Invariance, PTL

-----------------------------------------------------------------------------
\* An empty last packet looks like the end of the queue, so the segment is never
\* transmitted more than once, whatever is lost (server.cpp:411): all that
\* resendOnTheshold has requeued waits behind it.
OnePassIfLastEmpty == LastIsEmpty => packets_sent <= NumPackets

\* When the last packet is empty the counter stops with it: it is the packet in
\* hand once everything has been counted, and it is never transmitted.
EmptyInv ==
  /\ LastIsEmpty /\ packets_sent >= NumPackets =>
       /\ packets_sent = NumPackets
       /\ spc \in {"check", "done"}
       /\ node = NumPackets - 1
  /\ spc = "send" => HasBytes(node)

\* Every step preserves it, given the order of the queue: the last packet is
\* taken before any packet that was requeued.
LEMMA EmptyStep == IInv /\ EmptyInv /\ [Next]_vars => EmptyInv'
<1> SUFFICES ASSUME IInv, EmptyInv, [Next]_vars PROVE EmptyInv'
  OBVIOUS
<1> USE DispenserAssumption, SenderAssumption
    DEF EmptyInv, HasBytes, dispenserVars, senderVars, SenderAt
<1>1. /\ packets_sent \in Nat /\ node \in Nat
      /\ spc = "skip" /\ packets_sent < NumPackets => node = packets_sent
  BY DEF IInv, TypeOK, HandInv, SequenceNumbers
<1>2. CASE CountForSending
  BY <1>1, <1>2 DEF CountForSending, CountPacket
<1>3. CASE CheckAcks
  BY <1>1, <1>3 DEF CheckAcks
<1>4. CASE LoopTest \/ QueueEmpty \/ TakePacket \/ SkipAcked \/ Transmit
  BY <1>1, <1>4 DEF LoopTest, QueueEmpty, TakePacket, SkipAcked, Transmit
<1>5. CASE TestStop \/ TestThreshold \/ LockForResend \/ ResendStep
  BY <1>1, <1>5 DEF TestStop, TestThreshold, LockForResend, ResendStep
<1>6. CASE Listener
  BY <1>1, <1>6 DEF Listener, AckArrives, PutAckMark, PutAckSum, PutAckKill
<1>7. CASE UNCHANGED vars
  BY <1>7 DEF vars
<1>8. QED
  BY <1>2, <1>3, <1>4, <1>5, <1>6, <1>7 DEF Next, Sender

\* It holds in every reachable state, together with the invariant above.
LEMMA EmptyInvariance == Spec => [](IInv /\ EmptyInv)
<1>1. Init => EmptyInv
  BY DispenserAssumption DEF Init, DispenserInit, EmptyInv
<1>2. QED
  BY <1>1, EmptyStep, Invariance, PTL DEF Spec

\* A segment that ends in an empty packet is never transmitted a second time.
THEOREM NoRepeatBehindEmpty == Spec => []OnePassIfLastEmpty
<1>1. IInv /\ EmptyInv => OnePassIfLastEmpty
  BY DispenserAssumption, SenderAssumption
     DEF IInv, TypeOK, EmptyInv, OnePassIfLastEmpty
<1>2. QED
  BY <1>1, EmptyInvariance, PTL

-----------------------------------------------------------------------------
\* Why the sender ends: all is acknowledged, its transmissions are used up, it
\* has dropped an acknowledged packet and the queue is dry, it has met the empty
\* packet, or the segment is shorter than the argument of resendOnTheshold and
\* is never refilled.
EndsForCause ==
  spc = "done" =>
    \/ is_acked = SequenceNumbers
    \/ packets_sent >= max_num_packets_sent
    \/ packet_queue = <<>> /\ node \in is_acked
    \/ ~HasBytes(node)
    \/ NumPackets \div ResendThreshold = 0

\* A queue that is empty after resendAll, or was not in need of it, has nothing
\* left to repeat; during resendAll it has nothing below the loop variable.
DryInv ==
  /\ spc = "resend" /\ packet_queue = <<>> =>
       \A n \in SequenceNumbers : n < index => n \in is_acked
  /\ spc \in {"loop", "get"} /\ packet_queue = <<>> =>
       \/ is_acked = SequenceNumbers
       \/ NumPackets \div ResendThreshold = 0
  /\ EndsForCause

LEMMA DryStep == IInv /\ DryInv /\ [Next]_vars => DryInv'
<1> SUFFICES ASSUME IInv, DryInv, [Next]_vars PROVE DryInv'
  OBVIOUS
<1> USE DispenserAssumption, SenderAssumption
    DEF DryInv, EndsForCause, HasBytes, dispenserVars, senderVars, SenderAt
<1>1. /\ packets_sent \in Nat /\ packets_sent <= max_num_packets_sent
      /\ index \in 0 .. NumPackets
      /\ packet_queue \in Seq(SequenceNumbers)
      /\ is_acked \subseteq SequenceNumbers
      /\ NumPackets \div ResendThreshold \in Nat
      /\ max_num_packets_sent = 2 * NumPackets
      /\ all_acks_recieved => is_acked = SequenceNumbers
      /\ is_dead => \/ is_acked = SequenceNumbers
                    \/ packets_sent >= max_num_packets_sent
  BY QuotientType DEF IInv, TypeOK, BudgetInv, FlagInv, StopFlagsSound,
                      max_num_packets_sent
<1>2. CASE LoopTest
  BY <1>1, <1>2 DEF LoopTest
<1>3. CASE QueueEmpty
  BY <1>1, <1>3 DEF QueueEmpty
<1>4. CASE TakePacket \/ CountForSending \/ Transmit \/ LockForResend
  BY <1>1, <1>4 DEF TakePacket, CountForSending, Transmit, LockForResend,
                    SequenceNumbers
<1>5. CASE SkipAcked
  BY <1>1, <1>5 DEF SkipAcked, Acked
<1>6. CASE CheckAcks
  BY <1>1, <1>6 DEF CheckAcks
<1>7. CASE TestStop
  BY <1>1, <1>7 DEF TestStop, GetAllAcksRecieved
<1>8. CASE TestThreshold
  <2>1. packet_queue = <<>> => Len(packet_queue) = 0
    OBVIOUS
  <2>2. CASE NeedsResend
    BY <1>8, <2>2 DEF TestThreshold
  <2>3. CASE ~NeedsResend
    BY <1>1, <1>8, <2>1, <2>3 DEF TestThreshold, NeedsResend
  <2>4. QED
    BY <2>2, <2>3
<1>9. CASE ResendStep
  <2>1. CASE index < ResendLimit
    <3>1. /\ index \in SequenceNumbers /\ index' = index + 1
          /\ spc = "resend" /\ spc' = "resend" /\ is_acked' = is_acked
          /\ PushUnlessAcked(index)
      BY <1>1, <1>9, <2>1 DEF ResendStep, ResendLimit, Minimum, SequenceNumbers
    <3>2. CASE index \in is_acked
      <4>1. packet_queue' = packet_queue
        BY <3>1, <3>2 DEF PushUnlessAcked
      <4>2. QED
        BY <1>1, <3>1, <3>2, <4>1 DEF SequenceNumbers
    <3>3. CASE index \notin is_acked
      <4>1. packet_queue' = Append(packet_queue, index)
        BY <3>1, <3>3 DEF PushUnlessAcked
      <4>2. packet_queue' # <<>>
        BY <1>1, <3>1, <4>1, AppendProperties
      <4>3. QED
        BY <3>1, <4>2
    <3>4. QED
      BY <3>2, <3>3
  <2>2. CASE ~(index < ResendLimit)
    <3>1. /\ spc = "resend" /\ spc' = "loop"
          /\ UNCHANGED <<packet_queue, is_acked>>
      BY <1>9, <2>2 DEF ResendStep
    <3>2. packet_queue = <<>> => packets_sent >= NumPackets
      BY <1>1, <3>1 DEF IInv, FirstPassFirst, FirstUntaken, Minimum
    <3>3. packet_queue = <<>> => index >= NumPackets
      BY <1>1, <2>2, <3>2 DEF ResendLimit, Minimum
    <3>4. packet_queue = <<>> => is_acked = SequenceNumbers
      <4>1. \A n \in SequenceNumbers : n < NumPackets
        BY DEF SequenceNumbers
      <4>2. packet_queue = <<>> => \A n \in SequenceNumbers : n < index
        BY <1>1, <3>3, <4>1 DEF SequenceNumbers
      <4>3. packet_queue = <<>> => SequenceNumbers \subseteq is_acked
        BY <3>1, <4>2
      <4>4. QED
        BY <1>1, <4>3
    <3>5. QED
      BY <3>1, <3>4
  <2>3. QED
    BY <2>1, <2>2
<1>10. CASE Listener
  <2>1. UNCHANGED <<packet_queue, packets_sent, spc, node, index>>
    BY <1>10 DEF Listener, AckArrives, PutAckMark, PutAckSum, PutAckKill
  <2>2. is_acked \subseteq is_acked'
    BY <1>10 DEF Listener, AckArrives, PutAckMark, MarkAck, PutAckSum, PutAckKill
  <2>3. is_acked' \subseteq SequenceNumbers
    BY TypeStep DEF IInv, TypeOK
  <2>4. QED
    BY <2>1, <2>2, <2>3
<1>11. CASE UNCHANGED vars
  BY <1>11 DEF vars
<1>12. QED
  BY <1>2, <1>3, <1>4, <1>5, <1>6, <1>7, <1>8, <1>9, <1>10, <1>11
  DEF Next, Sender

\* The constructor queues at least one packet.
LEMMA DryInit == Init => DryInv
<1> SUFFICES ASSUME Init PROVE DryInv
  OBVIOUS
<1>1. spc = "loop" /\ packet_queue = [i \in 1 .. NumPackets |-> i - 1]
  BY DEF Init, DispenserInit
<1>2. 1 \in DOMAIN packet_queue
  BY <1>1, DispenserAssumption
<1>3. packet_queue # <<>>
  BY <1>2
<1>4. QED
  BY <1>1, <1>3 DEF DryInv, EndsForCause

\* A sender that ends with neither all acknowledged nor its transmissions used
\* up has run dry behind an acknowledged packet, or could not do otherwise.
THEOREM SenderEndsForCause == Spec => []EndsForCause
<1>1. IInv /\ DryInv => EndsForCause
  BY DEF DryInv
<1>2. QED
  BY <1>1, DryInit, DryStep, Invariance, PTL DEF Spec

-----------------------------------------------------------------------------
\* The packet that getPacket hands out is one that Transmission lets be picked:
\* the next one on the first pass, and afterwards one already transmitted.
LEMMA CountedMayBePicked ==
  ASSUME IInv, EmptyInv, CountForSending
  PROVE  Tx!Pick(node)
<1> USE DispenserAssumption, SenderAssumption
<1>1. /\ spc = "skip" /\ spc' = "check" /\ node' = node
      /\ packets_sent' = packets_sent + 1 /\ node \notin is_acked
      /\ is_acked' = is_acked /\ sent' = sent
  BY DEF CountForSending, SenderAt, Acked, CountPacket
<1>2. packets_sent \in Nat /\ node \in SequenceNumbers
  BY DEF IInv, TypeOK
<1>3. packets_sent < max_num_packets_sent
  BY <1>1 DEF IInv, BudgetInv, Taking
<1>4. packets_sent < NumPackets => node = packets_sent
  BY <1>1 DEF IInv, HandInv
<1>5. ~(packets_sent < NumPackets) => node \in sent
  <2>1. SUFFICES ASSUME packets_sent >= NumPackets PROVE node \in sent
    BY <1>2
  <2>2. HasBytes(node)
    BY <1>1, <2>1 DEF EmptyInv, HasBytes
  <2>3. node < packets_sent
    BY <1>2, <2>1 DEF SequenceNumbers
  <2>4. QED
    BY <1>1, <1>2, <2>2, <2>3 DEF IInv, SentInv, Holding
<1>6. QED
  BY <1>1, <1>3, <1>4, <1>5 DEF Tx!Pick

\* Wherever the sender leaves its loop the first pass is over, and what it may
\* still have in its hand is an empty packet.
LEMMA EndMaps ==
  ASSUME IInv, IInv', spc # "done", spc' = "done",
         spc = "check" => ~HasBytes(node),
         spc # "send",
         UNCHANGED <<packets_sent, sent, is_acked>>
  PROVE  Tx!Stop
<1>1. packets_sent >= NumPackets
  BY DEF IInv, BudgetInv
<1>2. node \in SequenceNumbers
  BY DEF IInv, TypeOK
<1>3. QED
  BY <1>1, <1>2 DEF Tx!Stop

\* Each step of the sender or of putAck is a step of Transmission or none.
LEMMA StepMaps ==
  ASSUME IInv, EmptyInv, IInv', [Next]_vars
  PROVE  [Tx!Next]_Tx!vars
<1> USE DispenserAssumption, SenderAssumption
    DEF dispenserVars, senderVars, SenderAt
<1>0. node \in 0 .. NumPackets - 1
  BY DEF IInv, TypeOK, SequenceNumbers
<1>1. CASE LoopTest
  BY <1>1, EndMaps DEF LoopTest, Tx!Next, Tx!vars
<1>2. CASE QueueEmpty
  BY <1>2, EndMaps DEF QueueEmpty, Tx!Next, Tx!vars
<1>3. CASE TakePacket
  BY <1>3 DEF TakePacket, Tx!vars
<1>4. CASE SkipAcked
  BY <1>4, EndMaps DEF SkipAcked, Tx!Next, Tx!vars
<1>5. CASE CountForSending
  BY <1>0, <1>5, CountedMayBePicked DEF Tx!Next
<1>6. CASE CheckAcks
  BY <1>6, EndMaps DEF CheckAcks, Tx!Next, Tx!vars
<1>7. CASE Transmit
  <2>1. HasBytes(node)
    BY <1>7 DEF Transmit, EmptyInv
  <2>2. Tx!Transmit
    BY <1>7, <2>1 DEF Transmit, Tx!Transmit
  <2>3. QED
    BY <2>2 DEF Tx!Next
<1>8. CASE TestStop
  BY <1>8, EndMaps DEF TestStop, Tx!Next, Tx!vars
<1>9. CASE TestThreshold \/ LockForResend \/ ResendStep
  BY <1>9 DEF TestThreshold, LockForResend, ResendStep, Tx!vars
<1>10. CASE AckArrives
  <2>1. PICK s \in sent : PutAckMark(s)
    BY <1>10 DEF AckArrives
  <2>2. s \in 0 .. NumPackets - 1
    BY <2>1 DEF IInv, TypeOK, SequenceNumbers
  <2>3. \/ is_acked' = is_acked
        \/ is_acked' = is_acked \cup {s}
    BY <2>1 DEF PutAckMark, MarkAck
  <2>4. UNCHANGED <<packets_sent, spc, node, sent>>
    BY <2>1 DEF PutAckMark
  <2>5. QED
    BY <2>1, <2>2, <2>3, <2>4 DEF Tx!Acknowledge, Tx!Next, Tx!vars
<1>11. CASE PutAckSum \/ PutAckKill
  BY <1>11 DEF PutAckSum, PutAckKill, Tx!vars
<1>12. CASE UNCHANGED vars
  BY <1>12 DEF vars, Tx!vars
<1>13. QED
  BY <1>1, <1>2, <1>3, <1>4, <1>5, <1>6, <1>7, <1>8, <1>9, <1>10, <1>11,
     <1>12 DEF Next, Sender, Listener

\* The sender thread on its queue implements Transmission, with any thread
\* calling putAck beside it.
THEOREM SenderImplements == Spec => TransmissionSpec
<1>1. Init => Tx!Init
  BY DEF Init, DispenserInit, Tx!Init
<1>2. IInv /\ EmptyInv /\ (IInv /\ EmptyInv)' /\ [Next]_vars => [Tx!Next]_Tx!vars
  BY StepMaps
<1>3. QED
  BY <1>1, <1>2, EmptyInvariance, PTL DEF Spec, TransmissionSpec, Tx!Spec
=============================================================================
