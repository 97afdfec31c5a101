------------------------------ MODULE Numbering ------------------------------
(***************************************************************************)
(* How the server cuts a file into segments and packets, how packets are   *)
(* numbered through the whole file, how a number travels in a header, and  *)
(* how the server finds the packet that an acknowledgement means.          *)
(*                                                                         *)
(* Lengths are in bytes.  A segment is numbered from 1, a packet within    *)
(* its segment from 0.                                                     *)
(***************************************************************************)
EXTENDS Integers, Sequences, FiniteSets

CONSTANTS
  NumSegs,      \* DATA_SEGS
  Payload,      \* data_packet_size: bytes of the file in a full packet
  Header,       \* SEQUENCE_BYTE_NUM, HEADER_SIZE
  Base          \* values of a byte

ASSUME NumberingAssumption ==
  /\ NumSegs \in Nat \ {0}
  /\ Header \in Nat \ {0}
  /\ Payload \in Nat \ {0}
  /\ Base \in Nat /\ Base % 2 = 0 /\ Base > 0

Segs == 1 .. NumSegs

PacketSize == Payload + Header

\* The factor of a shift by k bytes.
Shift[k \in 0 .. Header] == IF k = 0 THEN 1 ELSE Base * Shift[k - 1]

\* The numbers that fit into a header: those of an unsigned integer.
HeaderRange == Shift[Header]

-----------------------------------------------------------------------------
\* Faulty variants of the definitions below, each a plausible slip.

BetweenClosed(i, a, b) == a <= i /\ i <= b

\* The test of read_from_file with > for >=.
PacketLengthStrict(len, n) ==
  LET remainder == len - n * Payload
  IN  IF remainder > Payload THEN PacketSize ELSE remainder

\* The last packet gets what is left behind a header.
PacketLengthLessHeader(len, n) ==
  LET remainder == len - n * Payload
  IN  IF remainder >= Payload THEN PacketSize ELSE remainder - Header

-----------------------------------------------------------------------------
\* seg_lengths: equal shares, and the rest of the division for the last one.
SegLength(file, s) ==
  LET share == file \div NumSegs
  IN  IF s < NumSegs THEN share ELSE file - share * (NumSegs - 1)

\* read_from_file: its loop runs once more than there are full packets ...
PacketCount(len) == len \div Payload + 1

Remainder(len) == len % Payload

\* ... and makes of the rest a packet of as many bytes as are left, the header
\* among them.  Of no bytes it makes an empty packet, which is never sent.
PacketLength(len, n) ==
  LET remainder == len - n * Payload
  IN  IF remainder >= Payload THEN PacketSize ELSE remainder

\* The bytes of the file that packet n of a segment of this length carries.
DataBytes(len, n) ==
  IF PacketLength(len, n) >= Header THEN PacketLength(len, n) - Header ELSE 0

\* main's offset when it starts segment s: the packets of the earlier ones.
Offset(file, s) ==
  LET offset[t \in 1 .. NumSegs + 1] ==
        IF t = 1 THEN 0 ELSE offset[t - 1] + PacketCount(SegLength(file, t - 1))
  IN  offset[s]

-----------------------------------------------------------------------------
\* const_int_to_bytes: the lowest Header bytes, most significant first.
ConstIntToBytes(x) == [i \in 1 .. Header |-> (x \div Shift[Header - i]) % Base]

\* vector_bytes_to_int, by which the server reads an acknowledgement: each byte is
\* shifted to its place and added to the rest.
VectorBytesToInt(b) ==
  LET output[i \in 0 .. Header] ==
        IF i = 0 THEN 0 ELSE output[i - 1] + b[i] * Shift[Header - i]
  IN  output[Header]

\* bytes_to_int, by which the client reads a header.  It assembles the number in
\* an int, bit by bit: the highest bit of a full header is the sign.
BytesToInt(b) ==
  LET v == VectorBytesToInt(b)
  IN  IF 2 * v >= HeaderRange THEN v - HeaderRange ELSE v

InBetween(i, a, b) == a <= i /\ i < b

\* globalPutAcks: the segment whose range of numbers contains this one, and the
\* number within it; NumSegs + 1 if there is none.
Route(file, ack) ==
  LET start(s) == Offset(file, s)
      hits == {s \in Segs :
                 InBetween(ack, start(s),
                           start(s) + PacketCount(SegLength(file, s)))}
      s == IF hits = {} THEN NumSegs + 1
           ELSE CHOOSE t \in hits : \A u \in hits : t <= u
  IN  <<s, ack - start(s)>>
=============================================================================
