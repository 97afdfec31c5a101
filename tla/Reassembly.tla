------------------------------ MODULE Reassembly ------------------------------
(***************************************************************************)
(* Where the bytes of a file end up: the server cuts it into packets       *)
(* (Numbering), the network delays and reorders them, and the writer of    *)
(* the client (empty_data_queue) computes for each packet where in the     *)
(* output file its payload belongs.  It corrects that place for the short  *)
(* packets it has seen, and so depends on the order of arrival.            *)
(*                                                                         *)
(* Duplicates never reach the writer (WrittenOnce of Client), and packets  *)
(* are assumed to arrive with the length they left read_from_file with     *)
(* (UdpObject says when they do not).                                      *)
(***************************************************************************)
EXTENDS Numbering, SequencesExt

CONSTANTS MinFile, MaxFile   \* bounds of the model on the length of the file

\* The length of a file is an int (server.cpp:583), and so is the client's
\* packet_ID (client.cpp:397): the number of packets is far below its sign bit.
ASSUME FileAssumption ==
  /\ MinFile \in Nat /\ MaxFile \in Nat
  /\ 2 * (MaxFile \div Payload + NumSegs) <= HeaderRange

\* A rest shorter than a header makes a packet whose header is written beyond
\* its end (server.cpp:420); such files are left out.
FileLengths ==
  {f \in MinFile .. MaxFile :
     \A s \in Segs : Remainder(SegLength(f, s)) \notin 1 .. Header - 1}

VARIABLES
  file,            \* the length of the file
  wristband_map,   \* for each short packet seen, wrist_band_sum at that time
  wrist_band_sum,  \* the bytes that all short packets seen fall short by
  at,              \* for each packet written, the index the writer seeked to
  failed,          \* the stream has failed: seeks and writes have no effect
  shorts           \* history: the short packets in the order of their arrival

vars == <<file, wristband_map, wrist_band_sum, at, failed, shorts>>

\* A packet is named by its segment and its number within it.
Length(p) == PacketLength(SegLength(file, p[1]), p[2])
Bytes(p) == DataBytes(SegLength(file, p[1]), p[2])
Number(p) == Offset(file, p[1]) + p[2]

AllPackets ==
  UNION {{<<s, n>> : n \in 0 .. PacketCount(SegLength(file, s)) - 1} : s \in Segs}

\* The sender takes an empty packet for the end of its queue.
SentPackets == {p \in AllPackets : Length(p) > 0}

\* The client is compiled with the number of packets that the server prints.
Expected == Offset(file, NumSegs + 1)

packet_total == Cardinality(DOMAIN at)

-----------------------------------------------------------------------------
\* Faulty variants of the definitions below, each a plausible slip.

\* The header is counted as missing from every packet.
ShortfallOfPayload(p) == PacketSize - Bytes(p)

\* The header is forgotten.
ShortfallOfHeader(p) == Payload - Length(p)

\* A packet is corrected for itself too.
CorrectionInclusive(map, id) ==
  LET keys == {k \in DOMAIN map : k <= id}
  IN  IF keys = {} THEN 0 ELSE map[Max(keys)]

-----------------------------------------------------------------------------
Init ==
  /\ file \in FileLengths
  /\ wristband_map = <<>> /\ wrist_band_sum = 0
  /\ at = <<>> /\ failed = FALSE /\ shorts = <<>>

\* What the packet lacks of the full size.
Shortfall(p) == PacketSize - Length(p)

\* std::map::insert: an entry that is there stays.
Insert(map, x, y) ==
  [z \in DOMAIN map \cup {x} |-> IF z \in DOMAIN map THEN map[z] ELSE y]

\* The entry of the last short packet with a lower number.
Correction(map, id) ==
  LET keys == {k \in DOMAIN map : k < id}
  IN  IF keys = {} THEN 0 ELSE map[Max(keys)]

\* One turn of the writer's loop.  A negative index fails the stream for good.
WritePacket(p) ==
  LET id == BytesToInt(ConstIntToBytes(Number(p)))
      isShort == Shortfall(p) > 0
      sum == wrist_band_sum + Shortfall(p)
      map == IF isShort /\ packet_total # Expected - 1
             THEN Insert(wristband_map, id, sum)
             ELSE wristband_map
      index == id * Payload - Correction(map, id)
  IN  /\ p \in SentPackets \ DOMAIN at
      /\ wrist_band_sum' = sum
      /\ wristband_map' = map
      /\ at' = Insert(at, p, index)
      /\ failed' = (failed \/ index < 0)
      /\ shorts' = IF isShort THEN Append(shorts, p) ELSE shorts
      /\ UNCHANGED file

Next == \E p \in SentPackets : WritePacket(p)

Spec == Init /\ [][Next]_vars

-----------------------------------------------------------------------------
\* Every variable keeps its type (the locals of empty_data_queue).
TypeOK ==
  /\ file \in FileLengths
  /\ DOMAIN at \subseteq SentPackets
  /\ \A p \in DOMAIN at : at[p] \in Int
  /\ \A k \in DOMAIN wristband_map : wristband_map[k] \in Nat
  /\ wrist_band_sum \in Nat
  /\ failed \in BOOLEAN
  /\ shorts \in Seq(SentPackets)

IsExact(s) == Remainder(SegLength(file, s)) = 0

\* Where the payload of p belongs: behind the bytes that are sent of all earlier
\* packets.  The bytes that never leave the server (LossBounded) leave no gap, so
\* this is not the place that the bytes had in the server's file.
Start(p) ==
  MapThenSumSet(Bytes, {q \in AllPackets : Number(q) < Number(p)})

LastPacket(s) == <<s, PacketCount(SegLength(file, s)) - 1>>

\* The short packets of all segments before that of p have arrived, in order
\* and before any later short packet.
ShortsBefore(p) ==
  IsPrefix([t \in 1 .. p[1] - 1 |-> LastPacket(t)], shorts)

\* A payload is put right behind the bytes sent of all earlier packets (which is
\* before its place in the server's file, by the bytes that were never sent of the
\* earlier segments) when the short packets of the earlier
\* segments came first, whatever the order of everything else; so the first
\* segment is always in place, and a transfer segment by segment is, though
\* packets are delayed and reordered within each (client.cpp:401).  It needs a
\* short packet in each of them: an empty one is numbered but not sent.
PlacedAfterShorts ==
  [][\A p \in DOMAIN at' \ DOMAIN at :
       ShortsBefore(p) /\ (\A t \in 1 .. p[1] - 1 : ~IsExact(t))
         => at'[p] = Start(p)]_vars

\* The corrections never exceed the index, so no order of arrival makes the
\* stream fail, if the first segment has as many packets as there are segments
\* (client.cpp:424).
StreamHolds == PacketCount(SegLength(file, 1)) >= NumSegs => ~failed

\* The bytes that never leave the server are one header's worth for each
\* segment with a short packet, and no more (server.cpp:509).
LossBounded ==
  MapThenSumSet(Bytes, AllPackets)
    = file - Header * Cardinality({s \in Segs : ~IsExact(s)})

\* The client can receive all packets that it waits for but one for each segment
\* that ends in an empty packet (server.cpp:487): it reaches its count if there is
\* no such segment, and waits for ever if there is one.
CountReached ==
  Cardinality(SentPackets) + Cardinality({s \in Segs : IsExact(s)}) = Expected

\* The header of each packet, sent back as an acknowledgement, leads the server
\* to that packet of that segment, across segment boundaries (server.cpp:276).
AcksComeHome ==
  \A p \in SentPackets :
    Route(file, VectorBytesToInt(ConstIntToBytes(Number(p)))) = p

\* "The network experiences delay and loss probabilities, which must be handled
\* in the algorithm" (README.md:8): a payload is put behind the bytes sent of all
\* earlier packets whatever the delays.  The code does not do so: see the run reassembly_misplaces.
RightPlace == \A p \in DOMAIN at : at[p] = Start(p)
=============================================================================
