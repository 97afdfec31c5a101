---------------------------- MODULE SegmentSender ----------------------------
(***************************************************************************)
(* One data segment of the server: sender_thread_function of server.cpp    *)
(* taking packets from its PacketDispenser, interleaved with the putAck    *)
(* calls that the listener thread makes on the same dispenser.             *)
(*                                                                         *)
(* The server is built with one sending thread per segment                 *)
(* (NUM_SENDING_THREADS is 1), so the queue has a single user and          *)
(* queue_lock is never contended.  Between the two threads only ack_lock   *)
(* excludes anything: the sender reads is_acked, all_acks_recieved and     *)
(* is_dead without a lock, hence a step of its own for each read.          *)
(*                                                                         *)
(* The network and the client are the environment: a packet that has been  *)
(* transmitted may be acknowledged at any later time, any number of times, *)
(* in any order, or never.                                                 *)
(***************************************************************************)
EXTENDS PacketDispenser

CONSTANT LastIsEmpty   \* read_from_file made the last packet an empty vector

ASSUME SenderAssumption == LastIsEmpty \in BOOLEAN

VARIABLES
  spc,    \* control point of the sender thread
  node,   \* output_data of getPacket: the packet in the sender's hand
  index,  \* loop variable of resendAll
  apc,    \* control point of the listener thread inside putAck
  sent    \* sequence numbers that have been put on the wire

senderVars == <<spc, node, index>>
vars == <<dispenserVars, senderVars, apc, sent>>

\* The packet that getPacket returns is not the empty vector.
HasBytes(n) == ~(LastIsEmpty /\ n = NumPackets - 1)

\* ack_lock is held by putAck from its first step to its last, and by
\* resendAll for the whole of its loop.
AckLockFree == apc = "idle" /\ spc # "resend"

SenderAt(from, to) == spc = from /\ spc' = to

-----------------------------------------------------------------------------
\* Faulty variants of AfterSum, both plausible slips: an early return that
\* forgets pthread_mutex_unlock(&ack_lock), and one that does not kill.
AfterSumLockLeak == IF all_acks_recieved' THEN "kill" ELSE "sum"
AfterSumNoKill == "idle"

\* Faulty variant of Acked: getPacket does not look at the table.
AckedNever(n) == FALSE

-----------------------------------------------------------------------------
Init ==
  /\ DispenserInit
  /\ spc = "loop"
  /\ node = 0
  /\ index = 0
  /\ apc = "idle"
  /\ sent = {}

\* while (!getImDead())
LoopTest ==
  /\ SenderAt("loop", IF is_dead THEN "done" ELSE "get")
  /\ UNCHANGED <<dispenserVars, node, index, apc, sent>>

\* getPacket finds the queue empty, returns {} and the sender leaves its loop.
QueueEmpty ==
  /\ SenderAt("get", "done")
  /\ packet_queue = <<>>
  /\ UNCHANGED <<dispenserVars, node, index, apc, sent>>

\* getPacket takes the oldest packet.
TakePacket ==
  /\ packet_queue # <<>>
  /\ SenderAt("get", "skip")
  /\ node' = Head(packet_queue)
  /\ PopFront
  /\ UNCHANGED <<is_acked, packets_sent, all_acks_recieved, is_dead,
                 index, apc, sent>>

Acked(n) == n \in is_acked

\* The packet has been acknowledged meanwhile: drop it and take the next one,
\* or return {} when there is none.
SkipAcked ==
  /\ Acked(node)
  /\ \/ /\ packet_queue # <<>>
        /\ SenderAt("skip", "skip")
        /\ node' = Head(packet_queue)
        /\ PopFront
     \/ /\ packet_queue = <<>>
        /\ SenderAt("skip", "done")
        /\ UNCHANGED <<packet_queue, node>>
  /\ UNCHANGED <<is_acked, packets_sent, all_acks_recieved, is_dead,
                 index, apc, sent>>

CountForSending ==
  /\ SenderAt("skip", "check")
  /\ ~Acked(node)
  /\ CountPacket
  /\ UNCHANGED <<packet_queue, is_acked, all_acks_recieved, node, index,
                 apc, sent>>

\* The last test of getPacket; the sender then leaves its loop if the packet
\* it got is an empty vector, whatever the reason.
CheckAcks ==
  /\ SenderAt("check", IF HasBytes(node) THEN "send" ELSE "done")
  /\ is_dead' = (is_dead \/ GetAllAcksRecieved)
  /\ UNCHANGED <<packet_queue, is_acked, packets_sent, all_acks_recieved,
                 node, index, apc, sent>>

\* myUDP->send
Transmit ==
  /\ SenderAt("send", "test")
  /\ sent' = sent \cup {node}
  /\ UNCHANGED <<dispenserVars, node, index, apc>>

\* The two tests that break out of the sender's loop after a transmission.
TestStop ==
  /\ SenderAt("test", IF packets_sent >= 2 * NumPackets \/ GetAllAcksRecieved
                      THEN "done" ELSE "threshold")
  /\ UNCHANGED <<dispenserVars, node, index, apc, sent>>

\* resendOnTheshold, before it calls resendAll.
TestThreshold ==
  /\ SenderAt("threshold", IF NeedsResend THEN "lock" ELSE "loop")
  /\ UNCHANGED <<dispenserVars, node, index, apc, sent>>

\* resendAll acquires ack_lock.
LockForResend ==
  /\ SenderAt("lock", "resend")
  /\ AckLockFree
  /\ index' = 0
  /\ UNCHANGED <<dispenserVars, node, apc, sent>>

\* The loop of resendAll, and the release of its locks.
ResendStep ==
  \/ /\ index < ResendLimit
     /\ SenderAt("resend", "resend")
     /\ PushUnlessAcked(index)
     /\ index' = index + 1
     /\ UNCHANGED <<is_acked, packets_sent, all_acks_recieved, is_dead,
                    node, apc, sent>>
  \/ /\ index >= ResendLimit
     /\ SenderAt("resend", "loop")
     /\ UNCHANGED <<dispenserVars, node, index, apc, sent>>

Sender ==
  \/ LoopTest \/ QueueEmpty \/ TakePacket \/ SkipAcked \/ CountForSending
  \/ CheckAcks \/ Transmit \/ TestStop \/ TestThreshold \/ ResendStep

-----------------------------------------------------------------------------
\* putAck in three steps, since the sender reads what it writes unlocked.
PutAckMark(s) ==
  /\ AckLockFree
  /\ apc' = "sum"
  /\ MarkAck(s)
  /\ UNCHANGED <<packet_queue, packets_sent, all_acks_recieved, is_dead,
                 senderVars, sent>>

AfterSum == IF all_acks_recieved' THEN "kill" ELSE "idle"

PutAckSum ==
  /\ apc = "sum"
  /\ SumAcks
  /\ apc' = AfterSum
  /\ UNCHANGED <<packet_queue, is_acked, packets_sent, is_dead,
                 senderVars, sent>>

PutAckKill ==
  /\ apc = "kill"
  /\ apc' = "idle"
  /\ SetImDead
  /\ UNCHANGED <<packet_queue, is_acked, packets_sent, all_acks_recieved,
                 senderVars, sent>>

\* An acknowledgement arrives for a packet that was transmitted at some time.
AckArrives == \E s \in sent : PutAckMark(s)

Listener == AckArrives \/ PutAckSum \/ PutAckKill

Next == Sender \/ LockForResend \/ Listener

Spec == Init /\ [][Next]_vars

\* The sender and the listener are threads that the operating system keeps
\* scheduling, and a putAck that has begun runs to its end.  The sender competes
\* with the listener for ack_lock; a client sends finitely many
\* acknowledgements, so the lock is not withheld from it for ever.
FairSpec ==
  /\ Spec
  /\ WF_vars(Sender)
  /\ SF_vars(LockForResend)
  /\ WF_vars(PutAckSum \/ PutAckKill)

-----------------------------------------------------------------------------
\* Every variable keeps its type (packet_dispenser.h:20-48).
TypeOK ==
  /\ packet_queue \in Seq(SequenceNumbers)
  /\ is_acked \in SUBSET SequenceNumbers
  /\ packets_sent \in Nat
  /\ all_acks_recieved \in BOOLEAN
  /\ is_dead \in BOOLEAN
  /\ spc \in {"loop", "get", "skip", "check", "send", "test", "threshold",
              "lock", "resend", "done"}
  /\ node \in SequenceNumbers
  /\ index \in 0 .. NumPackets
  /\ apc \in {"idle", "sum", "kill"}
  /\ sent \in SUBSET SequenceNumbers

\* The first sequence number that has not been taken from the queue yet, or
\* NumPackets after the first pass.
FirstUntaken ==
  IF spc = "skip" /\ packets_sent < NumPackets
  THEN packets_sent + 1
  ELSE Minimum(packets_sent, NumPackets)

\* Retransmissions never overtake the first pass: the queue begins with the
\* packets never taken so far, in order, and every entry behind them repeats a
\* packet already taken (the queueing of the constructor against resendAll).
FirstPassFirst ==
  LET untaken == NumPackets - FirstUntaken
  IN  /\ untaken <= Len(packet_queue)
      /\ \A i \in 1 .. Len(packet_queue) :
           IF i <= untaken
           THEN packet_queue[i] = FirstUntaken + i - 1
           ELSE packet_queue[i] < FirstUntaken

\* putAck never refuses the acknowledgement of a packet that is on the wire:
\* its range test against packets_sent cannot misfire on a late, repeated or
\* reordered acknowledgement, although packets_sent also counts
\* retransmissions and skips dropped packets.
AcksAccepted == \A s \in sent : ~AckRejected(s)

\* The stop flags tell the truth: all_acks_recieved is set only when the table
\* is full, and the sender is told to stop only then or when the budget is
\* spent.
StopFlagsSound ==
  /\ all_acks_recieved => is_acked = SequenceNumbers
  /\ is_dead => \/ is_acked = SequenceNumbers
               \/ packets_sent >= max_num_packets_sent

\* However the sender thread ends, each packet with bytes in it has been
\* transmitted at least once.
EveryPacketSent ==
  spc = "done" => \A n \in SequenceNumbers : HasBytes(n) => n \in sent

\* Requeueing is bounded: the queue never holds more than the segment itself,
\* or the segment behind what was left of the queue below the threshold.
QueueBounded ==
  \/ Len(packet_queue) <= NumPackets
  \/ Len(packet_queue) < NumPackets + NumPackets \div ResendThreshold

\* The sender thread terminates, whatever is acknowledged or lost.
SenderStops == <>(spc = "done")

\* Once every packet is acknowledged the segment is declared dead.
AckedSegmentDies == (is_acked = SequenceNumbers) ~> is_dead

Tx == INSTANCE Transmission WITH
  Budget <- max_num_packets_sent,
  Empty <- {n \in SequenceNumbers : ~HasBytes(n)},
  taken <- packets_sent,
  hand <- IF spc \in {"check", "send"} THEN {node} ELSE {},
  acked <- is_acked,
  running <- spc # "done"

\* The queue with its refills, shared with putAck, implements Transmission: the
\* first pass is complete and in order, and what is repeated had been transmitted
\* and was not acknowledged when getPacket looked (packet_dispenser.cpp:101).
TransmissionSpec == Tx!Spec

\* What the README asks of the algorithm: loss is handled, so a sender stops
\* only when all packets with bytes are acknowledged or its transmissions are
\* used up.  The code does not do so: see the run sender_gives_up, and for a
\* segment that ends in an empty packet the theorem NoRepeatBehindEmpty.
StopsForCause ==
  spc = "done" => \/ \A n \in SequenceNumbers : HasBytes(n) => n \in is_acked
                  \/ packets_sent >= max_num_packets_sent
=============================================================================
