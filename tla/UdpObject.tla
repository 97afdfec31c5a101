------------------------------ MODULE UdpObject ------------------------------
(***************************************************************************)
(* The UDP object that the sender threads of all concurrent segments       *)
(* share.  Its field send_packet_size is the length of the next datagram;  *)
(* a sender with a short packet sets it, sends, and sets it back, under no *)
(* lock, while the others send what they have (server.cpp:426).            *)
(*                                                                         *)
(* A packet is represented by its length.  The counters of the object,     *)
(* which are only printed, are left out; so are its sockets and the        *)
(* receiving side, which has a single user in each program.                *)
(***************************************************************************)
EXTENDS Integers

CONSTANTS
  NumSenders,   \* the sender threads running at the same time
  Full          \* SEND_PACKET_SIZE

ASSUME UdpAssumption ==
  /\ NumSenders \in Nat \ {0}
  /\ Full \in Nat \ {0, 1}

Senders == 1 .. NumSenders

VARIABLES
  send_packet_size,   \* the field of the object
  short,              \* short[u]: the length of the last packet of u's segment
  pc,                 \* control point of each sender
  temp,               \* the packet in each sender's hand
  overlapped          \* history: while a sender had its packet in hand, another
                      \* had a short one between setting the size and resetting

vars == <<send_packet_size, short, pc, temp, overlapped>>

IsShort(u) == temp[u] < Full

\* u has set the size for its short packet and not set it back.
InWindow(u) == IsShort(u) /\ pc[u] \in {"send", "reset"}

-----------------------------------------------------------------------------
\* Faulty variants of the definitions below: the header is not counted; the size
\* is not set back; it is set back to that of the sender's own short packets.
SizeOfLessHeader(u) == temp[u] - 1
AfterSendNoReset(u) == "loop"
SizeAfterShort(u) == short[u]

-----------------------------------------------------------------------------
\* main sets the size before it starts any thread; read_from_file has cut the
\* segments.
Init ==
  /\ send_packet_size = Full
  /\ short \in [Senders -> 1 .. Full - 1]
  /\ pc = [u \in Senders |-> "loop"]
  /\ temp = [u \in Senders |-> Full]
  /\ overlapped = [u \in Senders |-> FALSE]

\* The sender has a packet from its dispenser, full or short, and tests its size.
GetPacket(u) ==
  /\ pc[u] = "loop"
  /\ \E len \in {Full, short[u]} :
       /\ temp' = [temp EXCEPT ![u] = len]
       /\ pc' = [pc EXCEPT ![u] = IF len < Full THEN "set" ELSE "send"]
  /\ overlapped' =
       [overlapped EXCEPT ![u] = \E w \in Senders \ {u} : InWindow(w)]
  /\ UNCHANGED <<send_packet_size, short>>

SizeOf(u) == temp[u]
SizeAfter(u) == Full
AfterSend(u) == IF IsShort(u) THEN "reset" ELSE "loop"

\* setSendPacketSize(temp.size())
SetSize(u) ==
  /\ pc[u] = "set"
  /\ send_packet_size' = SizeOf(u)
  /\ pc' = [pc EXCEPT ![u] = "send"]
  /\ overlapped' =
       [w \in Senders |-> overlapped[w] \/ (w # u /\ pc[w] # "loop")]
  /\ UNCHANGED <<short, temp>>

\* send() hands send_packet_size bytes from the packet's buffer to sendto.
Send(u) ==
  /\ pc[u] = "send"
  /\ pc' = [pc EXCEPT ![u] = AfterSend(u)]
  /\ UNCHANGED <<send_packet_size, short, temp, overlapped>>

\* setSendPacketSize(SEND_PACKET_SIZE)
ResetSize(u) ==
  /\ pc[u] = "reset"
  /\ send_packet_size' = SizeAfter(u)
  /\ pc' = [pc EXCEPT ![u] = "loop"]
  /\ UNCHANGED <<short, temp, overlapped>>

Next == \E u \in Senders : GetPacket(u) \/ SetSize(u) \/ Send(u) \/ ResetSize(u)

Spec == Init /\ [][Next]_vars

-----------------------------------------------------------------------------
\* Every variable keeps its type.
TypeOK ==
  /\ send_packet_size \in 1 .. Full
  /\ short \in [Senders -> 1 .. Full - 1]
  /\ pc \in [Senders -> {"loop", "set", "send", "reset"}]
  /\ temp \in [Senders -> 1 .. Full]
  /\ overlapped \in [Senders -> BOOLEAN]

\* However the writes of several senders interleave, a short size never stays
\* behind: it is that of a sender still busy with its short packet, so once none
\* is, the next full packet goes out whole (server.cpp:428).
ShortOnlyInWindow ==
  send_packet_size # Full =>
    \E u \in Senders : InWindow(u) /\ send_packet_size = short[u]

\* A datagram has the length of its packet unless another sender was busy with a
\* short packet meanwhile: only then can a full packet be cut, or a short one
\* be sent with bytes from behind its buffer (UDP.cpp:156).
RightLengthAlone ==
  \A u \in Senders :
    pc[u] = "send" /\ ~overlapped[u] => send_packet_size = temp[u]
=============================================================================
