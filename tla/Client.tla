------------------------------- MODULE Client -------------------------------
(***************************************************************************)
(* The receiving program, client.cpp: three threads of one client_listen   *)
(* object.                                                                 *)
(*                                                                         *)
(*   receiver   listener(): recieve() and push into packet_queue           *)
(*   processor  empty_send_queue(): drop duplicates, hand new packets to   *)
(*              the writer, acknowledge them in batches                    *)
(*   writer     empty_data_queue(): write the payloads into the file       *)
(*                                                                         *)
(* packet_lock and write_lock each cover one push or one pop and nothing   *)
(* that blocks, so a push and a pop are one step each.  The threads test   *)
(* the size of a queue without its lock, but each queue has one producer   *)
(* and one consumer: a queue that the consumer saw nonempty stays so, and  *)
(* a size misread in the middle of a push is followed by waiting for the   *)
(* lock that the push holds.  num_packets_received and the exit tests are  *)
(* read without a lock, in steps of their own.                             *)
(*                                                                         *)
(* The environment delivers any packet of the file at any time, again and  *)
(* again, in any order, or never.                                          *)
(***************************************************************************)
EXTENDS Integers, Sequences, FiniteSets, Functions

CONSTANTS
  Packets,       \* the packet IDs of the file
  Expected,      \* num_packets_expected, NUM_PACKETS_EXPECTED
  NumAcks,       \* NUM_ACKS: acknowledgements per datagram
  AckWindow,     \* ACK_WINDOW: datagrams repeated by one call of send_ACKs
  MaxQueue,      \* bound of the model on the packets waiting in packet_queue
  NoPacket       \* a hand that holds no packet

ASSUME ClientAssumption ==
  /\ IsFiniteSet(Packets)
  /\ Expected \in 1 .. Cardinality(Packets)
  /\ NumAcks \in Nat \ {0}
  /\ AckWindow \in Nat \ {0}
  /\ MaxQueue \in Nat \ {0}
  /\ NoPacket \notin Packets

VARIABLES
  rpc,                   \* control point of the receiver
  packet_queue,          \* datagrams received and not processed, oldest first
  ppc,                   \* control point of the processor
  packet,                \* the packet in the processor's hand
  num_packets_received,  \* distinct packets seen; read by the receiver
  data_map,              \* the packet IDs seen so far
  packet_ID_list,        \* packet IDs to be acknowledged, oldest first
  ACK_queue,             \* the batches made so far, one datagram each
  index,                 \* the processor's count of full batches
  packets_for_write,     \* packets handed to the writer, oldest first
  wpc,                   \* control point of the writer
  wpacket,               \* the packet in the writer's hand
  packet_total,          \* writes to the file
  written,               \* the packets whose payload is in the file
  sends,                 \* sends[b]: how often batch b has been transmitted
  acked                  \* the IDs acknowledged to the server so far

receiverVars == <<rpc, packet_queue>>
ackVars == <<packet_ID_list, ACK_queue, index, sends, acked>>
writerVars == <<wpc, wpacket, packet_total, written>>
vars == <<receiverVars, ppc, packet, num_packets_received, data_map, ackVars,
          packets_for_write, writerVars>>

\* All packets the client waits for have been counted.
HasAll == num_packets_received >= Expected

-----------------------------------------------------------------------------
\* Faulty variants of the definitions below, each a plausible slip.

\* The vector is moved from before it is pushed.
HandedOverMoved == Append(packets_for_write, NoPacket)

\* process_packet forgets data_map.insert.
SeenForgotten == data_map

\* The window starts one batch late.
WindowOneLate(i, n) == (IF n <= AckWindow THEN 1 ELSE i + 3 - AckWindow) .. i + 1

\* create_ACK_packet copies the list and leaves it as it is.
CreateAckPacketKeepsList ==
  /\ ACK_queue' = Append(ACK_queue, packet_ID_list)
  /\ UNCHANGED packet_ID_list

\* A batch is made one acknowledgement early.
BatchFullEarly == Len(packet_ID_list) >= NumAcks - 1

\* The writer compares with the number received instead of the number written.
AllWrittenOnReceived == num_packets_received = Expected

\* The writer waits for one packet more than there are.
AllWrittenOffByOne == packet_total > Expected

-----------------------------------------------------------------------------
\* The receiver.

\* recieve() returns a datagram and it is queued under packet_lock.
Recieve(p) ==
  /\ rpc = "recieve"
  /\ Len(packet_queue) < MaxQueue
  /\ packet_queue' = Append(packet_queue, p)
  /\ rpc' = "check"
  /\ UNCHANGED <<ppc, packet, num_packets_received, data_map, ackVars,
                 packets_for_write, writerVars>>

\* The receiver looks for the end after each datagram, and only then.
CheckAll ==
  /\ rpc = "check"
  /\ rpc' = IF HasAll THEN "join" ELSE "recieve"
  /\ UNCHANGED <<packet_queue, ppc, packet, num_packets_received, data_map,
                 ackVars, packets_for_write, writerVars>>

\* Both threads are joined and the program ends.
JoinThreads ==
  /\ rpc = "join" /\ ppc = "done" /\ wpc = "done"
  /\ rpc' = "done"
  /\ UNCHANGED <<packet_queue, ppc, packet, num_packets_received, data_map,
                 ackVars, packets_for_write, writerVars>>

-----------------------------------------------------------------------------
\* The processor.  While packet_queue is empty its loop changes nothing.

TakeDatagram ==
  /\ ppc = "poll" /\ packet_queue # <<>>
  /\ packet' = Head(packet_queue)
  /\ packet_queue' = Tail(packet_queue)
  /\ ppc' = "process"
  /\ UNCHANGED <<rpc, num_packets_received, data_map, ackVars,
                 packets_for_write, writerVars>>

\* process_packet counts a new packet and lists it for acknowledgement ...
ProcessPacket ==
  /\ ppc = "process"
  /\ IF packet \in data_map
     THEN /\ ppc' = "batch"
          /\ packet' = NoPacket
          /\ UNCHANGED <<num_packets_received, packet_ID_list>>
     ELSE /\ ppc' = "store"
          /\ UNCHANGED packet
          /\ num_packets_received' = num_packets_received + 1
          /\ packet_ID_list' = Append(packet_ID_list, packet)
  /\ UNCHANGED <<receiverVars, data_map, ACK_queue, index, sends, acked,
                 packets_for_write, writerVars>>

HandedOver == Append(packets_for_write, packet)
Seen == data_map \cup {packet}

\* ... and hands it to the writer under write_lock.
StorePacket ==
  /\ ppc = "store"
  /\ packets_for_write' = HandedOver
  /\ data_map' = Seen
  /\ packet' = NoPacket
  /\ ppc' = "batch"
  /\ UNCHANGED <<receiverVars, num_packets_received, ackVars, writerVars>>

\* create_ACK_packet(packet_ID_list.size())
CreateAckPacket ==
  /\ ACK_queue' = Append(ACK_queue, packet_ID_list)
  /\ packet_ID_list' = <<>>

\* The batches that send_ACKs(i) transmits when it has n of them.
Window(i, n) == (IF n <= AckWindow THEN 1 ELSE i + 2 - AckWindow) .. i + 1

\* send_ACKs(i), called `times' times, once the batches are q.  A datagram
\* always has the length of NumAcks acknowledgements: that of a shorter batch
\* carries whatever follows the buffer in the heap.
SendAcks(i, q, times) ==
  /\ sends' = [b \in 1 .. Len(q) |->
                 (IF b <= Len(sends) THEN sends[b] ELSE 0)
                   + (IF b \in Window(i, Len(q)) THEN times ELSE 0)]
  /\ LET batches == {q[b] : b \in Window(i, Len(q))}
         listed == UNION {Range(b) : b \in batches}
     IN  \E garbage \in SUBSET Packets :
           /\ (\A b \in batches : Len(b) = NumAcks) => garbage = {}
           /\ acked' = acked \cup listed \cup garbage

BatchFull == Len(packet_ID_list) >= NumAcks

\* A full batch of acknowledgements.
AckBatch ==
  /\ ppc = "batch"
  /\ IF BatchFull
     THEN /\ CreateAckPacket
          /\ SendAcks(index, ACK_queue', 1)
          /\ index' = index + 1
     ELSE UNCHANGED ackVars
  /\ ppc' = "final"
  /\ UNCHANGED <<receiverVars, packet, num_packets_received, data_map,
                 packets_for_write, writerVars>>

\* The last batch, when everything has been received; the thread then exits.
AckFinal ==
  /\ ppc = "final"
  /\ IF HasAll
     THEN /\ CreateAckPacket
          /\ SendAcks(index, ACK_queue', AckWindow)
          /\ ppc' = "done"
     ELSE /\ ppc' = "poll"
          /\ UNCHANGED <<packet_ID_list, ACK_queue, sends, acked>>
  /\ UNCHANGED <<receiverVars, packet, num_packets_received, data_map, index,
                 packets_for_write, writerVars>>

-----------------------------------------------------------------------------
\* The writer.  While packets_for_write is empty its loop changes nothing.

TakeForWrite ==
  /\ wpc = "poll" /\ packets_for_write # <<>>
  /\ wpacket' = Head(packets_for_write)
  /\ packets_for_write' = Tail(packets_for_write)
  /\ wpc' = "write"
  /\ UNCHANGED <<receiverVars, ppc, packet, num_packets_received, data_map,
                 ackVars, packet_total, written>>

\* file.write
WritePacket ==
  /\ wpc = "write"
  /\ written' = written \cup {wpacket}
  /\ packet_total' = packet_total + 1
  /\ wpacket' = NoPacket
  /\ wpc' = "poll"
  /\ UNCHANGED <<receiverVars, ppc, packet, num_packets_received, data_map,
                 ackVars, packets_for_write>>

AllWritten == packet_total = Expected

WriterExit ==
  /\ wpc = "poll"
  /\ packets_for_write = <<>>
  /\ AllWritten
  /\ wpc' = "done"
  /\ UNCHANGED <<receiverVars, ppc, packet, num_packets_received, data_map,
                 ackVars, packets_for_write, wpacket, packet_total, written>>

-----------------------------------------------------------------------------
Init ==
  /\ rpc = "recieve" /\ packet_queue = <<>>
  /\ ppc = "poll" /\ packet = NoPacket
  /\ num_packets_received = 0 /\ data_map = {}
  /\ packet_ID_list = <<>> /\ ACK_queue = <<>> /\ index = 0
  /\ sends = <<>> /\ acked = {}
  /\ packets_for_write = <<>>
  /\ wpc = "poll" /\ wpacket = NoPacket /\ packet_total = 0 /\ written = {}

Arrival == \E p \in Packets : Recieve(p)

Processor == TakeDatagram \/ ProcessPacket \/ StorePacket \/ AckBatch \/ AckFinal
Writer == TakeForWrite \/ WritePacket \/ WriterExit

Receiver == CheckAll \/ JoinThreads

Next == Arrival \/ Receiver \/ Processor \/ Writer

Spec == Init /\ [][Next]_vars

\* The threads are scheduled for ever; nothing obliges the network to deliver,
\* so Arrival is not among the fair actions.
FairSpec ==
  /\ Spec
  /\ WF_vars(Receiver)
  /\ WF_vars(Processor)
  /\ WF_vars(Writer)
-----------------------------------------------------------------------------
\* Every variable keeps its type (client.h:14-22 and the locals of the threads).
TypeOK ==
  /\ rpc \in {"recieve", "check", "join", "done"}
  /\ ppc \in {"poll", "process", "store", "batch", "final", "done"}
  /\ wpc \in {"poll", "write", "done"}
  /\ packet_queue \in Seq(Packets)
  /\ packet \in Packets \cup {NoPacket}
  /\ wpacket \in Packets \cup {NoPacket}
  /\ num_packets_received \in Nat
  /\ data_map \in SUBSET Packets
  /\ packet_ID_list \in Seq(Packets)
  /\ ACK_queue \in Seq(Seq(Packets))
  /\ index \in Nat
  /\ sends \in Seq(Nat)
  /\ acked \in SUBSET Packets
  /\ packets_for_write \in Seq(Packets)
  /\ packet_total \in Nat
  /\ written \in SUBSET Packets

\* The packets the writer has been given and has not written yet.
ToWrite ==
  Range(packets_for_write) \cup (IF wpc = "write" THEN {wpacket} ELSE {})

\* Nothing is lost and nothing is written twice between the processor and the
\* writer: a packet in data_map waits for the writer, is in its hand or is in
\* the file, in exactly one of these places and once (process_packet against
\* empty_data_queue, with duplicate datagrams arriving throughout).
WrittenOnce ==
  /\ data_map = ToWrite \cup written
  /\ Cardinality(data_map)
       = Len(packets_for_write) + (IF wpc = "write" THEN 1 ELSE 0) + packet_total

\* Every packet counted is listed once for acknowledgement: it waits in
\* packet_ID_list or is in one batch, in one place of it.
AckedOnce ==
  LET lists == Append(ACK_queue, packet_ID_list)
      places == UNION {{<<b, i>> : i \in DOMAIN lists[b]} : b \in DOMAIN lists}
  IN  /\ Cardinality(places) = num_packets_received
      /\ {lists[pl[1]][pl[2]] : pl \in places}
           = data_map \cup (IF ppc = "store" THEN {packet} ELSE {})

\* A packet acknowledged to the server, even by the bytes behind a short batch,
\* is one whose payload the writer already has: the server may forget it.  Holds
\* when the file has exactly the expected number of packets.
AcksTruthful ==
  Expected = Cardinality(Packets) => acked \subseteq ToWrite \cup written

\* The sliding window: when the processor exits, each batch of
\* acknowledgements has been transmitted at least ACK_WINDOW times, whether it
\* was made early, late or last (client.cpp:26 and 479).
WindowRepeats ==
  ppc = "done" => \A b \in DOMAIN ACK_queue : sends[b] >= AckWindow

\* The program ends with the whole file written and acknowledged.
CompleteAtExit ==
  /\ wpc = "done" => Cardinality(written) = Expected /\ ToWrite = {}
  /\ rpc = "done" => written = data_map /\ data_map \subseteq acked

\* What has been acknowledged reaches the file: the server will not send it
\* again.
AckedIsWritten == \A p \in Packets : p \in acked ~> p \in written

\* Once everything is received the two working threads end by themselves.
WorkersEnd == HasAll ~> (ppc = "done" /\ wpc = "done")

\* "have all the packets" (client.cpp:267): the receiver ends the program when
\* it has them.  The code does not do so: see the run client_hangs.
ReceiverEnds == HasAll ~> rpc = "done"
=============================================================================
