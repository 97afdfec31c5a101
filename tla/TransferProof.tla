---------------------------- MODULE TransferProof ----------------------------
(***************************************************************************)
(* Proofs about Transfer: that the server and the client, joined by a      *)
(* network that loses, repeats and reorders, implement Delivery, for every *)
(* length of the segment, every batch length and every window.             *)
(*                                                                         *)
(* The proof is by composition.  SegmentSenderProof and ClientProof show   *)
(* invariants of the two programs in an arbitrary environment; here each   *)
(* step of one is shown to be a step of the environment that the other was *)
(* proved against, so that both invariants hold together.                  *)
(***************************************************************************)
EXTENDS Transfer, FiniteSetTheorems, TLAPS

SP == INSTANCE SegmentSenderProof

CP == INSTANCE ClientProof WITH
  Packets <- 0 .. NumPackets - 1,
  Expected <- NumPackets,
  packet_queue <- client_queue,
  index <- ack_index

DP == INSTANCE DeliveryProof WITH
  Packets <- 0 .. NumPackets - 1,
  offered <- sent,
  accepted <- data_map,
  stored <- written,
  writes <- packet_total,
  confirmed <- is_acked,
  complete <- all_acks_recieved

\* What passes between the two: the client has only packets that were sent, and
\* the server has marked only what the client has acknowledged.
Link ==
  /\ \A k \in DOMAIN client_queue : client_queue[k] \in sent
  /\ ppc \in {"process", "store"} => packet \in sent
  /\ data_map \subseteq sent
  /\ is_acked \subseteq acked

JInv ==
  /\ SP!IInv /\ SP!DryInv
  /\ CP!IInv
  /\ Link

-----------------------------------------------------------------------------
\* The segment is a set of packets as Client assumes it.
LEMMA ClientAssumptionMet ==
  /\ IsFiniteSet(0 .. NumPackets - 1)
  /\ Cardinality(0 .. NumPackets - 1) = NumPackets
  /\ NumPackets \in 1 .. Cardinality(0 .. NumPackets - 1)
  /\ NumAcks \in Nat \ {0}
  /\ AckWindow \in Nat \ {0}
  /\ MaxQueue \in Nat \ {0}
  /\ NoPacket \notin 0 .. NumPackets - 1
<1>1. 0 \in Int /\ NumPackets - 1 \in Int /\ NumPackets \in Nat \ {0}
  BY TransferAssumption
<1>2. IsFiniteSet(0 .. NumPackets - 1)
  BY <1>1, FS_Interval
<1>3. Cardinality(0 .. NumPackets - 1)
        = IF 0 > NumPackets - 1 THEN 0 ELSE (NumPackets - 1) - 0 + 1
  BY <1>1, FS_Interval, Zenon
<1>4. Cardinality(0 .. NumPackets - 1) = NumPackets
  BY <1>1, <1>3
<1>5. QED
  BY <1>1, <1>2, <1>4, TransferAssumption

\* The finite sets that ClientProof speaks of are those of this module.
LEMMA SameFiniteSets ==
  /\ CP!IsFiniteSet(0 .. NumPackets - 1)
  /\ CP!Cardinality(0 .. NumPackets - 1) = NumPackets
<1>1. CP!IsFiniteSet(0 .. NumPackets - 1)
  BY ClientAssumptionMet DEF IsFiniteSet, CP!IsFiniteSet
<1>2. CP!Cardinality(0 .. NumPackets - 1) = NumPackets
  BY ClientAssumptionMet, Zenon DEF Cardinality, CP!Cardinality
<1>3. QED
  BY <1>1, <1>2

\* The two programs start as their own modules say.
LEMMA InitMaps == Init => S!Init /\ SP!Init /\ C!Init /\ CP!Init
  BY DEF Init, S!Init, SP!Init, S!DispenserInit, SP!DispenserInit, C!Init, CP!Init

\* Actions of the server, as SegmentSenderProof names them.
LEMMA ServerActions ==
  /\ S!Sender \/ S!LockForResend \/ S!PutAckSum \/ S!PutAckKill =>
       SP!Sender \/ SP!LockForResend \/ SP!PutAckSum \/ SP!PutAckKill
  /\ \A s : S!PutAckMark(s) => SP!PutAckMark(s)
<1> USE DEF S!SenderAt, SP!SenderAt, S!dispenserVars, SP!dispenserVars,
            S!senderVars, SP!senderVars
<1>1. S!Sender => SP!Sender
  BY DEF S!Sender, SP!Sender, S!LoopTest, SP!LoopTest, S!QueueEmpty,
      SP!QueueEmpty, S!TakePacket, SP!TakePacket, S!SkipAcked, S!Acked,
      SP!SkipAcked, S!CountForSending, SP!CountForSending, S!CheckAcks,
      SP!CheckAcks, S!Transmit, SP!Transmit, S!TestStop, SP!TestStop,
      S!TestThreshold, SP!TestThreshold, S!ResendStep, SP!ResendStep, S!PopFront,
      SP!PopFront, S!CountPacket, SP!CountPacket, S!GetAllAcksRecieved,
      SP!GetAllAcksRecieved, S!HasBytes, SP!HasBytes, S!NeedsResend,
      SP!NeedsResend, S!ResendLimit, SP!ResendLimit, S!PushUnlessAcked,
      SP!PushUnlessAcked, S!Minimum, SP!Minimum, S!max_num_packets_sent,
      SP!max_num_packets_sent, SP!Acked
<1>2. S!LockForResend => SP!LockForResend
  BY DEF S!LockForResend, SP!LockForResend, S!AckLockFree, SP!AckLockFree
<1>3. S!PutAckSum => SP!PutAckSum
  BY DEF S!PutAckSum, S!AfterSum, SP!PutAckSum, SP!AfterSum, S!SumAcks, SP!SumAcks,
      S!SequenceNumbers, SP!SequenceNumbers
<1>4. S!PutAckKill => SP!PutAckKill
  BY DEF S!PutAckKill, SP!PutAckKill, S!SetImDead, SP!SetImDead
<1>5. \A s : S!PutAckMark(s) => SP!PutAckMark(s)
  BY DEF S!PutAckMark, SP!PutAckMark, S!AckLockFree, SP!AckLockFree,
         S!MarkAck, SP!MarkAck, S!AckRejected, SP!AckRejected
<1>6. QED
  BY <1>1, <1>2, <1>3, <1>4, <1>5

\* Actions of the client, as ClientProof names them.
LEMMA ClientActions ==
  /\ C!Receiver \/ C!Processor \/ C!Writer => CP!Receiver \/ CP!Processor \/ CP!Writer
  /\ \A p : C!Recieve(p) => CP!Recieve(p)
<1> USE DEF C!receiverVars, CP!receiverVars, C!ackVars, CP!ackVars,
            C!writerVars, CP!writerVars, C!HasAll, CP!HasAll
<1>1. C!Receiver => CP!Receiver
  BY DEF C!Receiver, CP!Receiver, C!CheckAll, CP!CheckAll,
         C!JoinThreads, CP!JoinThreads
<1>2. C!Processor => CP!Processor
  BY DEF C!Processor, CP!Processor, C!TakeDatagram, CP!TakeDatagram,
      C!ProcessPacket, CP!ProcessPacket, C!StorePacket, C!HandedOver, C!Seen,
      CP!StorePacket, C!AckBatch, C!BatchFull, CP!AckBatch, C!AckFinal,
      CP!AckFinal, C!SendAcks, CP!SendAcks, C!CreateAckPacket,
      CP!CreateAckPacket, C!Window, CP!Window, C!Range, CP!Range,
      CP!HandedOver, CP!Seen, CP!BatchFull
<1>3. C!Writer => CP!Writer
  BY DEF C!Writer, CP!Writer, C!TakeForWrite, CP!TakeForWrite, C!WritePacket,
      CP!WritePacket, C!WriterExit, C!AllWritten, CP!WriterExit,
      CP!AllWritten
<1>4. \A p : C!Recieve(p) => CP!Recieve(p)
  BY DEF C!Recieve, CP!Recieve
<1>5. QED
  BY <1>1, <1>2, <1>3, <1>4

\* What the two invariants say about the packets that pass between the programs.
LEMMA Passing ==
  ASSUME JInv
  PROVE  /\ sent \subseteq 0 .. NumPackets - 1
         /\ acked \subseteq data_map /\ data_map \subseteq sent
         /\ is_acked \subseteq data_map
<1>1. sent \subseteq 0 .. NumPackets - 1
  BY DEF JInv, SP!IInv, SP!TypeOK, SP!SequenceNumbers
<1>2. acked \subseteq data_map
  <2>1. CP!AckedInv
    BY DEF JInv, CP!IInv
  <2>2. NumPackets = CP!Cardinality(0 .. NumPackets - 1)
    BY SameFiniteSets
  <2>3. QED
    BY <2>1, <2>2 DEF CP!AckedInv
<1>3. QED
  BY <1>1, <1>2 DEF JInv, Link

\* Each step of the whole is a step of each program and its environment, or
\* leaves that program alone.
LEMMA StepMaps ==
  ASSUME JInv, [Next]_vars
  PROVE  [SP!Next]_(SP!vars) /\ [CP!Next]_(CP!vars)
<1> USE DEF SP!vars, SP!dispenserVars, SP!senderVars, CP!vars, CP!receiverVars,
            CP!ackVars, CP!writerVars
<1>1. UNCHANGED serverVars => UNCHANGED SP!vars
  BY DEF serverVars
<1>2. UNCHANGED clientVars => UNCHANGED CP!vars
  BY DEF clientVars
<1>3. CASE DeliverPacket
  <2>1. \E p \in 0 .. NumPackets - 1 : CP!Recieve(p)
    BY <1>3, Passing, ClientActions DEF DeliverPacket
  <2>2. CP!Next
    BY <2>1 DEF CP!Next, CP!Arrival
  <2>3. QED
    BY <1>1, <1>3, <2>2 DEF DeliverPacket
<1>4. CASE DeliverAck
  <2>1. \E s \in sent : SP!PutAckMark(s)
    BY <1>4, Passing, ServerActions DEF DeliverAck
  <2>2. SP!Next
    BY <2>1 DEF SP!Next, SP!Listener, SP!AckArrives
  <2>3. QED
    BY <1>2, <1>4, <2>2 DEF DeliverAck
<1>5. CASE ServerStep
  <2>1. SP!Next
    BY <1>5, ServerActions DEF ServerStep, SP!Next, SP!Listener
  <2>2. QED
    BY <1>2, <1>5, <2>1 DEF ServerStep
<1>6. CASE ClientStep
  <2>1. CP!Next
    BY <1>6, ClientActions DEF ClientStep, CP!Next
  <2>2. QED
    BY <1>1, <1>6, <2>1 DEF ClientStep
<1>7. CASE UNCHANGED vars
  BY <1>1, <1>2, <1>7 DEF vars
<1>8. QED
  BY <1>3, <1>4, <1>5, <1>6, <1>7 DEF Next

-----------------------------------------------------------------------------
\* What a step of the server does to the variables that Link relates.
LEMMA ServerEffect ==
  /\ S!Sender \/ S!LockForResend \/ S!PutAckSum \/ S!PutAckKill =>
       sent \subseteq sent' /\ UNCHANGED is_acked
  /\ \A s : S!PutAckMark(s) => UNCHANGED sent /\ is_acked' \subseteq is_acked \cup {s}
<1> USE DEF S!dispenserVars, S!senderVars
<1>1. S!Sender => sent \subseteq sent' /\ UNCHANGED is_acked
  BY DEF S!Sender, S!LoopTest, S!QueueEmpty, S!TakePacket, S!SkipAcked, S!Acked,
      S!CountForSending, S!CheckAcks, S!Transmit, S!TestStop, S!TestThreshold,
      S!ResendStep
<1>2. S!LockForResend \/ S!PutAckSum \/ S!PutAckKill => UNCHANGED <<sent,
    is_acked>>
  BY DEF S!LockForResend, S!PutAckSum, S!AfterSum, S!PutAckKill
<1>3. \A s : S!PutAckMark(s) => UNCHANGED sent /\ is_acked' \subseteq is_acked \cup {s}
  BY DEF S!PutAckMark, S!MarkAck
<1>4. QED
  BY <1>1, <1>2, <1>3

\* What a step of the client's threads does to them.
LEMMA ClientEffect ==
  /\ C!Receiver \/ C!Writer => UNCHANGED <<client_queue, ppc, packet, data_map,
      acked>>
  /\ C!TakeDatagram =>
       /\ client_queue # <<>> /\ client_queue' = Tail(client_queue)
       /\ packet' = Head(client_queue)
       /\ UNCHANGED <<data_map, acked>>
  /\ C!ProcessPacket =>
       /\ ppc = "process" /\ (ppc' = "batch" \/ packet' = packet)
       /\ UNCHANGED <<client_queue, data_map, acked>>
  /\ C!StorePacket =>
       /\ ppc = "store" /\ ppc' = "batch" /\ data_map' = data_map \cup {packet}
       /\ UNCHANGED <<client_queue, acked>>
  /\ C!AckBatch \/ C!AckFinal =>
       /\ ppc' \in {"final", "poll", "done"} /\ acked \subseteq acked'
       /\ UNCHANGED <<client_queue, data_map>>
<1> USE DEF C!receiverVars, C!writerVars, C!ackVars
<1>1. C!Receiver \/ C!Writer => UNCHANGED <<client_queue, ppc, packet, data_map,
    acked>>
  BY DEF C!Receiver, C!CheckAll, C!JoinThreads, C!Writer, C!TakeForWrite,
      C!WritePacket, C!WriterExit, C!AllWritten
<1>2. C!TakeDatagram =>
        /\ client_queue # <<>> /\ client_queue' = Tail(client_queue)
        /\ packet' = Head(client_queue)
        /\ UNCHANGED <<data_map, acked>>
  BY DEF C!TakeDatagram
<1>3. C!ProcessPacket =>
        /\ ppc = "process" /\ (ppc' = "batch" \/ packet' = packet)
        /\ UNCHANGED <<client_queue, data_map, acked>>
  BY DEF C!ProcessPacket
<1>4. C!StorePacket =>
        /\ ppc = "store" /\ ppc' = "batch" /\ data_map' = data_map \cup {packet}
        /\ UNCHANGED <<client_queue, acked>>
  BY DEF C!StorePacket, C!HandedOver, C!Seen
<1>5. \A i, q, n : C!SendAcks(i, q, n) => acked \subseteq acked'
  BY DEF C!SendAcks
<1>6. C!AckBatch =>
        /\ ppc' = "final" /\ acked \subseteq acked'
        /\ UNCHANGED <<client_queue, data_map>>
  BY <1>5 DEF C!AckBatch, C!BatchFull
<1>7. C!AckFinal =>
        /\ ppc' \in {"poll", "done"} /\ acked \subseteq acked'
        /\ UNCHANGED <<client_queue, data_map>>
  BY <1>5 DEF C!AckFinal
<1>8. QED
  BY <1>1, <1>2, <1>3, <1>4, <1>6, <1>7

\* No step of either program, and no delivery, breaks the link.
LEMMA LinkStep ==
  ASSUME JInv, [Next]_vars
  PROVE  Link'
<1> USE DEF Link
<1>1. client_queue \in Seq(0 .. NumPackets - 1)
  BY DEF JInv, CP!IInv, CP!TypeOK
<1>2. Link
  BY DEF JInv
<1>3. ASSUME UNCHANGED clientVars, sent \subseteq sent', UNCHANGED is_acked
      PROVE  Link'
  BY <1>2, <1>3 DEF clientVars
<1>4. ASSUME UNCHANGED serverVars
      PROVE  UNCHANGED <<sent, is_acked>>
  BY <1>4 DEF serverVars
<1>5. CASE DeliverPacket
  <2>1. PICK p \in sent : C!Recieve(p)
    BY <1>5 DEF DeliverPacket
  <2>2. /\ client_queue' = Append(client_queue, p)
        /\ UNCHANGED <<ppc, packet, data_map, acked>>
    BY <2>1 DEF C!Recieve, C!ackVars
  <2>3. UNCHANGED <<sent, is_acked>>
    BY <1>4, <1>5 DEF DeliverPacket
  <2>4. \A k \in DOMAIN client_queue' : client_queue'[k] \in sent
    <3>1. /\ DOMAIN client_queue = 1 .. Len(client_queue)
          /\ Len(client_queue) \in Nat
      BY <1>1
    <3>2. p \in 0 .. NumPackets - 1
      BY Passing
    <3>3. /\ DOMAIN client_queue' = 1 .. Len(client_queue) + 1
          /\ client_queue'[Len(client_queue) + 1] = p
          /\ \A k \in 1 .. Len(client_queue) : client_queue'[k] = client_queue[k]
      BY <1>1, <2>2, <3>2
    <3>4. QED
      BY <1>2, <2>1, <3>1, <3>3
  <2>5. QED
    BY <1>2, <2>2, <2>3, <2>4
<1>6. CASE DeliverAck
  <2>1. PICK s \in acked : S!PutAckMark(s)
    BY <1>6 DEF DeliverAck
  <2>2. UNCHANGED sent /\ is_acked' \subseteq acked
    BY <1>2, <2>1, ServerEffect
  <2>3. UNCHANGED clientVars
    BY <1>6 DEF DeliverAck
  <2>4. QED
    BY <1>2, <2>2, <2>3 DEF clientVars
<1>7. CASE ServerStep
  BY <1>3, <1>7, ServerEffect DEF ServerStep
<1>8. CASE ClientStep
  <2>1. UNCHANGED <<sent, is_acked>>
    BY <1>4, <1>8 DEF ClientStep
  <2>2. CASE C!Receiver \/ C!Writer
    BY <1>2, <2>1, <2>2, ClientEffect
  <2>3. CASE C!TakeDatagram
    <3>1. /\ client_queue # <<>> /\ client_queue' = Tail(client_queue)
          /\ packet' = Head(client_queue)
          /\ UNCHANGED <<data_map, acked>>
      BY <2>3, ClientEffect
    <3>2. /\ DOMAIN client_queue = 1 .. Len(client_queue)
          /\ Len(client_queue) \in Nat \ {0}
          /\ packet' = client_queue[1]
      BY <1>1, <3>1
    <3>3. /\ DOMAIN client_queue' = 1 .. Len(client_queue) - 1
          /\ \A k \in 1 .. Len(client_queue) - 1 : client_queue'[k] = client_queue[k + 1]
      BY <1>1, <3>1
    <3>4. packet' \in sent /\ \A k \in DOMAIN client_queue' : client_queue'[k] \in sent
      BY <1>2, <3>2, <3>3
    <3>5. QED
      BY <1>2, <2>1, <3>1, <3>4
  <2>4. CASE C!ProcessPacket
    BY <1>2, <2>1, <2>4, ClientEffect
  <2>5. CASE C!StorePacket
    BY <1>2, <2>1, <2>5, ClientEffect
  <2>6. CASE C!AckBatch \/ C!AckFinal
    BY <1>2, <2>1, <2>6, ClientEffect
  <2>7. QED
    BY <1>8, <2>2, <2>3, <2>4, <2>5, <2>6 DEF ClientStep, C!Processor
<1>9. CASE UNCHANGED vars
  BY <1>2, <1>9 DEF vars, serverVars, clientVars
<1>10. QED
  BY <1>5, <1>6, <1>7, <1>8, <1>9 DEF Next

-----------------------------------------------------------------------------
\* Both programs start in their invariants, and nothing has passed between them.
LEMMA InvariantInit == Init => JInv
<1> SUFFICES ASSUME Init PROVE JInv
  OBVIOUS
<1>1. SP!IInv /\ SP!DryInv
  BY InitMaps, TransferAssumption, SP!InvariantInit, SP!DryInit
<1>2. CP!IInv
  BY InitMaps, ClientAssumptionMet, SameFiniteSets, CP!InvariantInit
<1>3. Link
  BY DEF Init, S!Init, S!DispenserInit, C!Init, Link
<1>4. QED
  BY <1>1, <1>2, <1>3 DEF JInv

\* A step of the whole keeps the invariants of both programs: it is a step of
\* each, in an environment that it was proved against, or leaves it alone.
LEMMA InvariantStep == JInv /\ [Next]_vars => JInv'
<1> SUFFICES ASSUME JInv, [Next]_vars PROVE JInv'
  OBVIOUS
<1>1. [SP!Next]_(SP!vars) /\ [CP!Next]_(CP!vars)
  BY StepMaps
<1>2. SP!IInv /\ SP!TypeOK
  BY DEF JInv, SP!IInv
<1>3. SP!TypeOK'
  BY <1>1, <1>2, TransferAssumption, SP!TypeStep
<1>4. SP!IInv' /\ SP!DryInv'
  <2>1. SP!IInv'
    BY <1>1, <1>2, <1>3, TransferAssumption, SP!InvariantStep
  <2>2. SP!DryInv'
    BY <1>1, <1>2, TransferAssumption, SP!DryStep DEF JInv
  <2>3. QED
    BY <2>1, <2>2
<1>5. CP!IInv'
  BY <1>1, ClientAssumptionMet, SameFiniteSets, CP!InvariantStep DEF JInv
<1>6. Link'
  BY LinkStep
<1>7. QED
  BY <1>4, <1>5, <1>6 DEF JInv

\* Both invariants, and what links the programs, hold at all times.
THEOREM Invariance == Spec => []JInv
  BY InvariantInit, InvariantStep, PTL DEF Spec

\* The server gives a segment up, by the end of its sender or by its stop flag,
\* only when the client has taken charge of every packet of it, the transmissions
\* are used up, the queue has run dry behind a packet that the client has, or the
\* sender could not do otherwise: it met an empty packet, or is never refilled.
THEOREM SegmentsGivenUpForCause == Spec => []GivenUpForCause
<1>1. JInv => GivenUpForCause
  <2> SUFFICES ASSUME JInv PROVE GivenUpForCause
    OBVIOUS
  <2>1. data_map \subseteq 0 .. NumPackets - 1 /\ is_acked \subseteq data_map
    BY Passing
  <2>2. ASSUME is_dead
        PROVE  data_map = 0 .. NumPackets - 1 \/ packets_sent >= 2 * NumPackets
    BY <2>1, <2>2 DEF JInv, SP!IInv, SP!FlagInv, SP!StopFlagsSound,
        SP!SequenceNumbers, SP!max_num_packets_sent
  <2>3. ASSUME spc = "done"
        PROVE  \/ data_map = 0 .. NumPackets - 1
               \/ packets_sent >= 2 * NumPackets
               \/ packet_queue = <<>> /\ node \in data_map
               \/ ~S!HasBytes(node)
               \/ NumPackets \div ResendThreshold = 0
    BY <2>1, <2>3 DEF JInv, SP!DryInv, SP!EndsForCause, SP!SequenceNumbers,
        SP!max_num_packets_sent, SP!HasBytes, S!HasBytes
  <2>4. QED
    BY <2>2, <2>3 DEF GivenUpForCause
<1>2. QED
  BY Invariance, <1>1, PTL

-----------------------------------------------------------------------------
\* Joined by this network, the server is the sender of SegmentSender and the
\* client is the client of Client, so that all that is proved of them there holds
\* here.
THEOREM ProgramsUnchanged == Spec => SP!Spec /\ CP!Spec
<1>1. Init => SP!Init /\ CP!Init
  BY InitMaps
<1>2. JInv /\ [Next]_vars => [SP!Next]_(SP!vars) /\ [CP!Next]_(CP!vars)
  BY StepMaps
<1>3. QED
  BY Invariance, <1>1, <1>2, PTL DEF Spec, SP!Spec, CP!Spec

\* What can be seen of a step of the server from outside: it transmits a packet,
\* it finds the segment complete, or nothing.
LEMMA ServerRefines ==
  ASSUME JInv, ServerStep
  PROVE  [D!Next]_(D!vars)
<1> USE DEF S!dispenserVars, S!senderVars, D!vars
<1>1. UNCHANGED <<data_map, written, packet_total>>
  BY DEF ServerStep, clientVars
<1>2. CASE S!LoopTest \/ S!QueueEmpty \/ S!TakePacket \/ S!SkipAcked
           \/ S!CountForSending
  BY <1>1, <1>2 DEF S!LoopTest, S!QueueEmpty, S!TakePacket, S!SkipAcked, S!Acked,
      S!CountForSending
<1>3. CASE S!CheckAcks \/ S!TestStop \/ S!TestThreshold \/ S!ResendStep
           \/ S!LockForResend
  BY <1>1, <1>3 DEF S!CheckAcks, S!TestStop, S!TestThreshold, S!ResendStep,
                    S!LockForResend
<1>4. CASE S!PutAckKill
  BY <1>1, <1>4 DEF S!PutAckKill
<1>5. CASE S!Transmit
  <2>1. node \in 0 .. NumPackets - 1
    BY DEF JInv, SP!IInv, SP!TypeOK, SP!SequenceNumbers
  <2>2. D!Offer(node)
    BY <1>1, <1>5 DEF S!Transmit, D!Offer
  <2>3. QED
    BY <2>1, <2>2 DEF D!Next
<1>6. CASE S!PutAckSum
  <2>1. UNCHANGED <<sent, is_acked>>
    BY <1>6 DEF S!PutAckSum, S!AfterSum
  <2>2. CASE is_acked = 0 .. NumPackets - 1
    <3>1. all_acks_recieved' = TRUE
      BY <1>6, <2>2 DEF S!PutAckSum, S!AfterSum, S!SumAcks, S!SequenceNumbers
    <3>2. D!Complete
      BY <1>1, <2>1, <2>2, <3>1 DEF D!Complete
    <3>3. QED
      BY <3>2 DEF D!Next
  <2>3. CASE is_acked # 0 .. NumPackets - 1
    <3>1. all_acks_recieved' = FALSE
      BY <1>6, <2>3 DEF S!PutAckSum, S!AfterSum, S!SumAcks, S!SequenceNumbers
    <3>2. all_acks_recieved = FALSE
      BY <2>3 DEF JInv, SP!IInv, SP!TypeOK, SP!FlagInv, SP!StopFlagsSound,
                  SP!SequenceNumbers
    <3>3. QED
      BY <1>1, <2>1, <3>1, <3>2
  <2>4. QED
    BY <2>2, <2>3
<1>7. QED
  BY <1>2, <1>3, <1>4, <1>5, <1>6 DEF ServerStep, S!Sender

\* What can be seen of a step of the client from outside: it takes charge of a
\* packet, it writes one, or nothing.
LEMMA ClientRefines ==
  ASSUME JInv, ClientStep
  PROVE  [D!Next]_(D!vars)
<1> USE DEF C!receiverVars, C!ackVars, C!writerVars, D!vars
<1>1. UNCHANGED <<sent, is_acked, all_acks_recieved>>
  BY DEF ClientStep, serverVars
<1>2. CASE C!CheckAll \/ C!JoinThreads \/ C!TakeDatagram \/ C!ProcessPacket
  BY <1>1, <1>2 DEF C!CheckAll, C!JoinThreads, C!TakeDatagram, C!ProcessPacket
<1>3. CASE C!AckBatch \/ C!AckFinal \/ C!TakeForWrite \/ C!WriterExit
  BY <1>1, <1>3 DEF C!AckBatch, C!BatchFull, C!AckFinal, C!TakeForWrite,
      C!WriterExit, C!AllWritten
<1>4. CASE C!StorePacket
  <2>1. ppc = "store" /\ data_map' = data_map \cup {packet}
        /\ UNCHANGED <<written, packet_total>>
    BY <1>4 DEF C!StorePacket, C!HandedOver, C!Seen
  <2>2. packet \in 0 .. NumPackets - 1 /\ packet \notin data_map
    BY <2>1 DEF JInv, CP!IInv, CP!HandInv
  <2>3. packet \in sent
    BY <2>1 DEF JInv, Link
  <2>4. D!Accept(packet)
    BY <1>1, <2>1, <2>2, <2>3 DEF D!Accept
  <2>5. QED
    BY <2>2, <2>4 DEF D!Next
<1>5. CASE C!WritePacket
  <2>1. wpc = "write" /\ written' = written \cup {wpacket}
        /\ packet_total' = packet_total + 1 /\ UNCHANGED data_map
    BY <1>5 DEF C!WritePacket
  <2>2. wpacket \in 0 .. NumPackets - 1
    BY <2>1 DEF JInv, CP!IInv, CP!HandInv
  <2>3. wpacket \in data_map /\ wpacket \notin written
    BY <2>1 DEF JInv, CP!IInv, CP!WrittenOnce, CP!OnceInv, CP!ToWrite
  <2>4. D!Store(wpacket)
    BY <1>1, <2>1, <2>3 DEF D!Store
  <2>5. QED
    BY <2>2, <2>4 DEF D!Next
<1>6. QED
  BY <1>2, <1>3, <1>4, <1>5
     DEF ClientStep, C!Receiver, C!Processor, C!Writer

\* Every step of the two programs and their network is a step of the promise.
LEMMA StepRefines ==
  ASSUME JInv, [Next]_vars
  PROVE  [D!Next]_(D!vars)
<1> USE DEF D!vars
<1>1. CASE DeliverPacket
  <2>1. UNCHANGED <<data_map, written, packet_total>>
    BY <1>1 DEF DeliverPacket, C!Recieve, C!writerVars
  <2>2. QED
    BY <1>1, <2>1 DEF DeliverPacket, serverVars
<1>2. CASE DeliverAck
  <2>1. PICK s \in acked : S!PutAckMark(s)
    BY <1>2 DEF DeliverAck
  <2>2. s \in data_map /\ s \in 0 .. NumPackets - 1
    BY Passing
  <2>3. UNCHANGED <<data_map, written, packet_total, sent, all_acks_recieved>>
    BY <1>2, <2>1 DEF DeliverAck, clientVars, S!PutAckMark
  <2>4. is_acked' = is_acked \/ is_acked' = is_acked \cup {s}
    BY <2>1 DEF S!PutAckMark, S!MarkAck
  <2>5. CASE is_acked' = is_acked \cup {s}
    <3>1. D!Confirm(s)
      BY <2>2, <2>3, <2>5 DEF D!Confirm
    <3>2. QED
      BY <2>2, <3>1 DEF D!Next
  <2>6. QED
    BY <2>3, <2>4, <2>5
<1>3. CASE UNCHANGED vars
  BY <1>3 DEF vars, serverVars, clientVars
<1>4. QED
  BY <1>1, <1>2, <1>3, ServerRefines, ClientRefines DEF Next

\* The server and the client, over a network that loses, repeats and reorders,
\* keep the promise of Delivery: a packet is accepted once and written once, it
\* is confirmed only when accepted, and the segment is complete only when all of
\* it is confirmed (sender_thread_function, putAck, process_packet and
\* empty_data_queue together).
THEOREM KeepsPromise == Spec => DeliverySpec
<1>1. Init => D!Init
  BY DEF Init, S!Init, S!DispenserInit, C!Init, D!Init
<1>2. JInv /\ [Next]_vars => [D!Next]_(D!vars)
  BY StepRefines
<1>3. QED
  BY Invariance, <1>1, <1>2, PTL DEF Spec, DeliverySpec, D!Spec

\* The same promise, as DeliveryProof names it.
LEMMA KeepsPromiseThere == Spec => DP!Spec
<1>1. Init => DP!Init
  BY DEF Init, S!Init, S!DispenserInit, C!Init, DP!Init
<1>2. JInv /\ [Next]_vars => [DP!Next]_(DP!vars)
  <2>1. [D!Next]_(D!vars) => [DP!Next]_(DP!vars)
    BY DEF D!Next, D!Offer, D!Accept, D!Store, D!Confirm, D!Complete, D!vars,
           DP!Next, DP!Offer, DP!Accept, DP!Store, DP!Confirm, DP!Complete,
           DP!vars
  <2>2. QED
    BY <2>1, StepRefines
<1>3. QED
  BY Invariance, <1>1, <1>2, PTL DEF Spec, DP!Spec

\* In every state of the two programs the file holds only packets that the client
\* took charge of, each written once; the server counts only those as
\* acknowledged; and all_acks_recieved means all of them.
THEOREM PromiseHolds == Spec => []DP!Promise
  BY KeepsPromiseThere, DP!PromiseHolds, PTL

\* Nothing accepted, written or confirmed is ever taken back, by either program.
THEOREM NothingTakenBack == Spec => [][DP!Kept]_(DP!vars)
  BY KeepsPromiseThere, DP!NothingTakenBack, PTL

\* A segment that the server takes for acknowledged is in the file or on its way to
\* it (putAck of the server against the three threads of the client).
THEOREM SegmentsFiled == Spec => []SegmentFiled
<1>1. JInv => SegmentFiled
  <2> SUFFICES ASSUME JInv, all_acks_recieved
               PROVE  C!ToWrite \cup written = 0 .. NumPackets - 1
    BY DEF SegmentFiled
  <2>1. /\ data_map = CP!ToWrite \cup written
        /\ data_map \subseteq 0 .. NumPackets - 1
    BY DEF JInv, CP!IInv, CP!TypeOK, CP!WrittenOnce
  <2>2. C!ToWrite = CP!ToWrite
    BY DEF C!ToWrite, CP!ToWrite, C!Range, CP!Range
  <2>3. is_acked = 0 .. NumPackets - 1
    BY DEF JInv, SP!IInv, SP!FlagInv, SP!StopFlagsSound, SP!SequenceNumbers
  <2>4. QED
    BY <2>1, <2>2, <2>3, Passing
<1>2. QED
  BY Invariance, <1>1, PTL
=============================================================================
