------------------------------- MODULE Transfer -------------------------------
(***************************************************************************)
(* The server's sender of one segment (SegmentSender) and the client       *)
(* (Client), joined by the network.  The file is that one segment.         *)
(*                                                                         *)
(* Each side has been modelled against an arbitrary environment; here the  *)
(* environment of each is the other.  The network carries packets one way  *)
(* and acknowledgements the other; it may lose them, deliver them again    *)
(* and reorder them, but it invents none: a packet can be received once it *)
(* has been sent, an acknowledgement applied once the client has sent it.  *)
(***************************************************************************)
EXTENDS Integers, Sequences, FiniteSets

CONSTANTS
  NumPackets, ResendThreshold, LastIsEmpty,   \* of the segment
  NumAcks, AckWindow, MaxQueue, NoPacket      \* of the client

ASSUME TransferAssumption ==
  /\ NumPackets \in Nat \ {0} /\ ResendThreshold \in Nat \ {0}
  /\ LastIsEmpty \in BOOLEAN
  /\ NumAcks \in Nat \ {0} /\ AckWindow \in Nat \ {0} /\ MaxQueue \in Nat \ {0}
  /\ NoPacket \notin 0 .. NumPackets - 1

VARIABLES
  packet_queue, is_acked, packets_sent, all_acks_recieved, is_dead,
  spc, node, index, apc, sent,                \* of SegmentSender
  rpc, client_queue, ppc, packet, num_packets_received, data_map,
  packet_ID_list, ACK_queue, ack_index, packets_for_write, wpc, wpacket,
  packet_total, written, sends, acked         \* of Client

serverVars ==
  <<packet_queue, is_acked, packets_sent, all_acks_recieved, is_dead,
    spc, node, index, apc, sent>>
clientVars ==
  <<rpc, client_queue, ppc, packet, num_packets_received, data_map,
    packet_ID_list, ACK_queue, ack_index, packets_for_write, wpc, wpacket,
    packet_total, written, sends, acked>>
vars == <<serverVars, clientVars>>

S == INSTANCE SegmentSender

C == INSTANCE Client WITH
  Packets <- 0 .. NumPackets - 1,
  Expected <- NumPackets,
  packet_queue <- client_queue,
  index <- ack_index

-----------------------------------------------------------------------------
Init == S!Init /\ C!Init

\* recieve() of the client returns a packet that send() of the server took.
DeliverPacket ==
  /\ \E p \in sent : C!Recieve(p)
  /\ UNCHANGED serverVars

\* recieve() of the server returns an acknowledgement of the client.
DeliverAck ==
  /\ \E s \in acked : S!PutAckMark(s)
  /\ UNCHANGED clientVars

ServerStep ==
  /\ S!Sender \/ S!LockForResend \/ S!PutAckSum \/ S!PutAckKill
  /\ UNCHANGED clientVars

ClientStep ==
  /\ C!Receiver \/ C!Processor \/ C!Writer
  /\ UNCHANGED serverVars

Next == DeliverPacket \/ DeliverAck \/ ServerStep \/ ClientStep

Spec == Init /\ [][Next]_vars

-----------------------------------------------------------------------------
D == INSTANCE Delivery WITH
  Packets <- 0 .. NumPackets - 1,
  offered <- sent,
  accepted <- data_map,
  stored <- written,
  writes <- packet_total,
  confirmed <- is_acked,
  complete <- all_acks_recieved

\* The two programs keep the promise of Delivery: queues, duplicates, batches,
\* padding and retransmission in between cannot be seen from outside
\* (process_packet, empty_data_queue and putAck together).
DeliverySpec == D!Spec

\* The server gives a segment up when its sender ends, whereupon the launcher
\* deletes the dispenser with all packets (server.cpp:387), or when the
\* dispenser is dead and the listener drops the segment (server.cpp:228).  It
\* does so, although it learns of the client from lossy batches only, for one of
\* these reasons: the client has taken charge of every packet; the transmissions
\* are used up; the queue has run dry, which happens only behind a packet that
\* the client has, and whatever else it lacks (server.cpp:411); the sender has
\* met the empty packet; or the segment is too short to be refilled at all.
GivenUpForCause ==
  is_dead \/ spc = "done" =>
    \/ data_map = 0 .. NumPackets - 1
    \/ packets_sent >= 2 * NumPackets
    \/ spc = "done" /\ packet_queue = <<>> /\ node \in data_map
    \/ spc = "done" /\ ~S!HasBytes(node)
    \/ NumPackets \div ResendThreshold = 0

\* When the server takes the segment for acknowledged, from whatever the lossy
\* batches brought back, each of its payloads is in the file or on its way to it
\* (putAck of packet_dispenser.cpp:248 against empty_data_queue of the client).
SegmentFiled ==
  all_acks_recieved => C!ToWrite \cup written = 0 .. NumPackets - 1
=============================================================================
