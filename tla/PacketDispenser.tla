--------------------------- MODULE PacketDispenser ---------------------------
(***************************************************************************)
(* The PacketDispenser of packet_dispenser.cpp: the queue of the packets   *)
(* of one data segment that are still to be transmitted, the               *)
(* acknowledgement table, the transmission counter and the two stop flags. *)
(*                                                                         *)
(* A packet is represented by its sequence number within the segment; its  *)
(* bytes matter to no operation of the class.  The operators below are the *)
(* methods, or the part of a method that runs without another thread being *)
(* able to observe an intermediate state; SegmentSender composes them into *)
(* the sender thread and the thread that applies acknowledgements.         *)
(***************************************************************************)
EXTENDS Integers, Sequences

CONSTANTS
  NumPackets,       \* input_data.size(): the number of packets of the segment
  ResendThreshold   \* the argument of resendOnTheshold

\* The constructor reads input_data[0]; resendOnTheshold divides by its argument.
ASSUME DispenserAssumption ==
  /\ NumPackets \in Nat \ {0}
  /\ ResendThreshold \in Nat \ {0}

VARIABLES
  packet_queue,       \* sequence numbers waiting for transmission, oldest first
  is_acked,           \* the sequence numbers whose entry in is_acked is 1
  packets_sent,       \* packets handed out by getPacket, retransmissions included
  all_acks_recieved,  \* set by putAck once every entry of is_acked is 1
  is_dead             \* set by setImDead: the sender thread is to stop

dispenserVars ==
  <<packet_queue, is_acked, packets_sent, all_acks_recieved, is_dead>>

SequenceNumbers == 0 .. NumPackets - 1

\* A segment is allowed twice as many transmissions as it has packets.
max_num_packets_sent == 2 * NumPackets

Minimum(a, b) == IF a <= b THEN a ELSE b

-----------------------------------------------------------------------------
\* Faulty variants of the methods, each a plausible slip in the code.

AckRejectedOffByOne(s) == s >= NumPackets \/ s + 1 >= packets_sent \/ s < 0

SumAcksLastEntry == all_acks_recieved' = (NumPackets - 1 \in is_acked)

SumAcksOfSent ==
  all_acks_recieved' =
    (\A n \in SequenceNumbers : n < packets_sent => n \in is_acked)

NeedsResendAnyLength == ~all_acks_recieved

NeedsResendLate ==
  /\ Len(packet_queue) + 1 < NumPackets \div ResendThreshold
  /\ ~all_acks_recieved

ResendLimitOffByOne == Minimum(packets_sent + 1, NumPackets)

PushNextIndex(i) ==
  packet_queue' = IF i \in is_acked THEN packet_queue
                                    ELSE Append(packet_queue, i + 1)

-----------------------------------------------------------------------------
\* The constructor queues the whole segment in order.
DispenserInit ==
  /\ packet_queue = [i \in 1 .. NumPackets |-> i - 1]
  /\ is_acked = {}
  /\ packets_sent = 0
  /\ all_acks_recieved = FALSE
  /\ is_dead = FALSE

\* getAllAcksRecieved also answers yes once the budget is spent.
GetAllAcksRecieved ==
  packets_sent < max_num_packets_sent => all_acks_recieved

SetImDead == is_dead' = TRUE

\* packet_queue.front() followed by packet_queue.pop().
PopFront == packet_queue' = Tail(packet_queue)

\* getPacket has found a packet to hand out: it counts it and gives up on the
\* segment when that exhausts the budget.
CountPacket ==
  /\ packets_sent' = packets_sent + 1
  /\ is_dead' = (is_dead \/ packets_sent + 1 >= max_num_packets_sent)

\* putAck refuses a sequence number outside the range it knows to be in use.
AckRejected(s) == s > NumPackets \/ s > packets_sent \/ s < 0

MarkAck(s) ==
  is_acked' = IF AckRejected(s) THEN is_acked ELSE is_acked \cup {s}

\* The second half of putAck recomputes the flag from the whole table.
SumAcks == all_acks_recieved' = (is_acked = SequenceNumbers)

\* The unlocked test of resendOnTheshold; the division is C's, on integers.
NeedsResend ==
  /\ Len(packet_queue) < NumPackets \div ResendThreshold
  /\ ~all_acks_recieved
  /\ Len(packet_queue) < NumPackets

\* resendAll visits the sequence numbers below this one.
ResendLimit ==
  IF packets_sent <= max_num_packets_sent
  THEN Minimum(packets_sent, NumPackets)
  ELSE 0

\* One iteration of the loop of resendAll.
PushUnlessAcked(i) ==
  packet_queue' =
    IF i \in is_acked THEN packet_queue ELSE Append(packet_queue, i)
=============================================================================
