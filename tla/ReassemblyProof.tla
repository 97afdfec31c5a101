--------------------------- MODULE ReassemblyProof ---------------------------
(***************************************************************************)
(* Proofs about Reassembly, for every number of segments, size of packets  *)
(* and header, and every length of a file that FileLengths admits: first   *)
(* about numbers of packets, then about sums of bytes over sets of them,   *)
(* and last the invariant of the writer and the properties.                *)
(***************************************************************************)
EXTENDS Reassembly, NumberingProof, FiniteSetTheorems, FunctionTheorems,
        TLAPS

\* A length is a number, at most MaxFile.
LEMMA FileType ==
  ASSUME NEW f \in FileLengths
  PROVE  f \in Nat /\ f <= MaxFile
BY FileAssumption DEF FileLengths

\* A packet is a segment and a number within the segment.
LEMMA PacketParts ==
  ASSUME NEW p \in AllPackets, file \in Nat
  PROVE  /\ p[1] \in Segs /\ p[2] \in 0 .. PacketCount(SegLength(file, p[1])) - 1
         /\ p = <<p[1], p[2]>>
         /\ SegLength(file, p[1]) \in Nat
         /\ PacketCount(SegLength(file, p[1])) \in Nat \ {0}
         /\ p[2] \in Nat
<1>1. \E s \in Segs : \E n \in 0 .. PacketCount(SegLength(file, s)) - 1 : p = <<s, n>>
  BY DEF AllPackets
<1>2. PICK s \in Segs : \E n \in 0 .. PacketCount(SegLength(file, s)) - 1 : p = <<s, n>>
  BY <1>1
<1>3. PICK n \in 0 .. PacketCount(SegLength(file, s)) - 1 : p = <<s, n>>
  BY <1>2
<1>4. p[1] = s /\ p[2] = n
  BY <1>3
<1>5. SegLength(file, s) \in Nat
  BY SegLengthType
<1>6. PacketCount(SegLength(file, s)) \in Nat \ {0}
  BY <1>5, PacketCountType
<1>7. n \in Nat
  BY <1>6
<1>8. QED
  BY <1>3, <1>4, <1>5, <1>6, <1>7

\* d goes at least q times into a number that is d * q or more.
LEMMA QuotientAtLeast ==
  ASSUME NEW d \in Nat \ {0}, NEW q \in Nat, NEW x \in Nat, d * q <= x
  PROVE  q <= x \div d
<1> DEFINE k == x \div d
<1>1. k \in Nat /\ x % d \in Nat /\ x % d < d /\ x = d * k + (x % d)
  BY Division
<1> HIDE DEF k
<1>2. CASE k < q
  <2>1. d * (k + 1) <= d * q
    BY <1>1, <1>2, ProductMonotone
  <2>2. d * (k + 1) = d * k + d /\ d * k \in Nat /\ d * q \in Nat
    BY <1>1
  <2>3. FALSE
    BY <1>1, <2>1, <2>2
  <2>4. QED
    BY <2>3
<1>3. QED
  BY <1>1, <1>2 DEF k

\* The offset of a segment is a number, also the one behind the last segment.
LEMMA OffsetType ==
  ASSUME NEW f \in Nat, NEW s \in 1 .. NumSegs + 1
  PROVE  Offset(f, s) \in Nat
<1>1. NumSegs \in Nat \ {0} /\ Segs = 1 .. NumSegs
  BY NumberingAssumption DEF Segs
<1>2. \A t \in Segs : Offset(f, t) \in Nat
  <2>1. PacketCount(f \div NumSegs) \in Nat
    BY <1>1, Division, PacketCountType
  <2>2. SUFFICES ASSUME NEW t \in Segs PROVE Offset(f, t) \in Nat
    OBVIOUS
  <2>3. t - 1 \in Nat
    BY <1>1
  <2>4. Offset(f, t) = (t - 1) * PacketCount(f \div NumSegs)
    BY OffsetIsMultiple
  <2>5. QED
    BY <2>1, <2>3, <2>4
<1>3. NumSegs \in Segs /\ PacketCount(SegLength(f, NumSegs)) \in Nat
  <2>1. NumSegs \in Segs
    BY <1>1
  <2>2. SegLength(f, NumSegs) \in Nat
    BY <2>1, SegLengthType
  <2>3. QED
    BY <2>1, <2>2, PacketCountType
<1>4. Offset(f, NumSegs + 1) \in Nat
  BY <1>2, <1>3, OffsetDef
<1>5. s \in Segs \/ s = NumSegs + 1
  BY <1>1
<1>6. QED
  BY <1>2, <1>4, <1>5

\* The numbers of all segments together: a full packet for every Payload bytes,
\* and one packet more for each segment.
LEMMA ExpectedBounded ==
  ASSUME NEW f \in Nat
  PROVE  Offset(f, NumSegs + 1) <= f \div Payload + NumSegs
<1> DEFINE share == f \div NumSegs
           a == share \div Payload
           last == f - share * (NumSegs - 1)
           b == last \div Payload
<1>1. NumSegs \in Nat \ {0} /\ Payload \in Nat \ {0} /\ NumSegs - 1 \in Nat
      /\ NumSegs \in Segs
  BY NumberingAssumption DEF Segs
<1>2. share \in Nat
  BY <1>1, Division
<1>3. SegLength(f, NumSegs) = last
  BY <1>1 DEF SegLength
<1>4. last \in Nat
  BY <1>1, <1>3, SegLengthType
<1>5. f = last + share * (NumSegs - 1)
  <2>1. share * (NumSegs - 1) \in Nat
    BY <1>1, <1>2
  <2>2. QED
    BY <2>1
<1>6. Offset(f, NumSegs) = (NumSegs - 1) * (a + 1)
  BY <1>1, OffsetIsMultiple DEF PacketCount
<1>7. Offset(f, NumSegs + 1) = (NumSegs - 1) * (a + 1) + (b + 1)
  BY <1>1, <1>3, <1>6, OffsetDef DEF PacketCount
<1> HIDE DEF share, last
<1>8. /\ a \in Nat /\ share % Payload \in Nat /\ share = Payload * a + (share % Payload)
      /\ b \in Nat /\ last % Payload \in Nat /\ last = Payload * b + (last % Payload)
  BY <1>1, <1>2, <1>4, Division
<1> HIDE DEF a, b
<1>9. Payload * a <= share /\ Payload * b <= last /\ Payload * a \in Nat /\ Payload * b \in Nat
  BY <1>1, <1>8
<1>10. (NumSegs - 1) * (Payload * a) <= (NumSegs - 1) * share
  BY <1>1, <1>2, <1>9, ProductMonotone
<1>11. Payload * ((NumSegs - 1) * a + b) = (NumSegs - 1) * (Payload * a) + Payload * b
  BY <1>1, <1>8
<1>12. (NumSegs - 1) * a + b \in Nat /\ (NumSegs - 1) * share \in Nat
       /\ share * (NumSegs - 1) = (NumSegs - 1) * share
       /\ (NumSegs - 1) * (Payload * a) \in Nat
  BY <1>1, <1>2, <1>8, <1>9
<1>13. Payload * ((NumSegs - 1) * a + b) <= f
  BY <1>4, <1>5, <1>9, <1>10, <1>11, <1>12
<1>14. (NumSegs - 1) * a + b <= f \div Payload
  BY <1>1, <1>12, <1>13, QuotientAtLeast
<1>15. (NumSegs - 1) * (a + 1) + (b + 1) = ((NumSegs - 1) * a + b) + NumSegs
  BY <1>1, <1>8
<1>16. f \div Payload \in Nat
  BY <1>1, Division
<1>17. QED
  BY <1>1, <1>7, <1>12, <1>14, <1>15, <1>16

\* The numbers of packets stay below the sign bit of the client's integer.
LEMMA ExpectedFits ==
  ASSUME NEW f \in FileLengths
  PROVE  2 * Offset(f, NumSegs + 1) <= HeaderRange
<1>1. f \in Nat /\ f <= MaxFile /\ MaxFile \in Nat
  BY FileType, FileAssumption
<1>2. Payload \in Nat \ {0} /\ NumSegs \in Nat /\ NumSegs + 1 \in 1 .. NumSegs + 1
  BY NumberingAssumption
<1> DEFINE q == f \div Payload
           m == MaxFile \div Payload
<1>3. q \in Nat /\ f % Payload \in Nat /\ f = Payload * q + (f % Payload) /\ m \in Nat
  BY <1>1, <1>2, Division
<1> HIDE DEF q
<1>4. Payload * q <= MaxFile
  <2>1. Payload * q \in Nat
    BY <1>2, <1>3
  <2>2. QED
    BY <1>1, <1>3, <2>1
<1>5. q <= m
  BY <1>1, <1>2, <1>3, <1>4, QuotientAtLeast
<1>6. 2 * (m + NumSegs) <= HeaderRange
  BY FileAssumption
<1> HIDE DEF m
<1>7. Offset(f, NumSegs + 1) <= q + NumSegs
  BY <1>1, ExpectedBounded DEF q
<1>8. Offset(f, NumSegs + 1) \in Nat /\ HeaderRange \in Nat
  <2>1. Header \in 0 .. Header
    BY NumberingAssumption
  <2>2. HeaderRange \in Nat
    BY <2>1, ShiftPositive DEF HeaderRange
  <2>3. QED
    BY <1>1, <1>2, <2>2, OffsetType
<1>9. QED
  BY <1>2, <1>3, <1>5, <1>6, <1>7, <1>8
-----------------------------------------------------------------------------
\* The numbers of packets: below Expected, and far from the client's sign bit.
LEMMA NumberFits ==
  ASSUME file \in FileLengths, NEW p \in AllPackets
  PROVE  /\ Number(p) \in Nat /\ Number(p) < Expected /\ Expected \in Nat
         /\ Number(p) \in 0 .. HeaderRange - 1 /\ 2 * Number(p) < HeaderRange
<1> DEFINE s == p[1]
           n == p[2]
           c == PacketCount(SegLength(file, s))
<1>1. file \in Nat
  BY FileType
<1>2. NumSegs \in Nat \ {0} /\ Segs = 1 .. NumSegs
  BY NumberingAssumption DEF Segs
<1>3. s \in Segs /\ n \in Nat /\ n \in 0 .. c - 1 /\ c \in Nat
  BY <1>1, PacketParts
<1>4. /\ s \in 1 .. NumSegs + 1 /\ s + 1 \in 1 .. NumSegs + 1
      /\ NumSegs \in 1 .. NumSegs + 1 /\ NumSegs + 1 \in 1 .. NumSegs + 1
      /\ NumSegs \in Segs
  BY <1>2, <1>3
<1>5. Offset(file, s) \in Nat /\ Offset(file, NumSegs) \in Nat /\ Expected \in Nat
  BY <1>1, <1>4, OffsetType DEF Expected
<1>6. Number(p) = Offset(file, s) + n
  BY DEF Number
<1>7. Offset(file, s) + c <= Expected
  <2>1. CASE s = NumSegs
    BY <1>1, <1>3, <1>5, <2>1, OffsetDef DEF Expected
  <2>2. CASE s # NumSegs
    <3>1. s < NumSegs
      BY <1>2, <1>3, <2>2
    <3>2. Offset(file, s) + c <= Offset(file, NumSegs)
      BY <1>1, <1>3, <1>4, <3>1, RangesApart
    <3>3. SegLength(file, NumSegs) \in Nat
      BY <1>1, <1>4, SegLengthType
    <3>4. PacketCount(SegLength(file, NumSegs)) \in Nat
      BY <3>3, PacketCountType
    <3>5. Expected = Offset(file, NumSegs) + PacketCount(SegLength(file, NumSegs))
      BY <1>1, <1>4, OffsetDef DEF Expected
    <3>6. QED
      BY <1>3, <1>5, <3>2, <3>4, <3>5
  <2>3. QED
    BY <2>1, <2>2
<1>8. 2 * Expected <= HeaderRange
  BY ExpectedFits DEF Expected
<1>9. HeaderRange \in Nat
  <2>1. Header \in 0 .. Header
    BY NumberingAssumption
  <2>2. QED
    BY <2>1, ShiftPositive DEF HeaderRange
<1> HIDE DEF n, s, c
<1>10. QED
  BY <1>3, <1>5, <1>6, <1>7, <1>8, <1>9

\* The client reads from a header the number that the server wrote into it.
LEMMA IdIsNumber ==
  ASSUME file \in FileLengths, NEW p \in AllPackets
  PROVE  BytesToInt(ConstIntToBytes(Number(p))) = Number(p)
<1>1. VectorBytesToInt(ConstIntToBytes(Number(p))) = Number(p)
  BY NumberFits, HeaderRoundTrip
<1>2. ~(2 * Number(p) >= HeaderRange)
  <2>1. Header \in 0 .. Header
    BY NumberingAssumption
  <2>2. HeaderRange \in Nat
    BY <2>1, ShiftPositive DEF HeaderRange
  <2>3. QED
    BY <2>2, NumberFits
<1>3. QED
  BY <1>1, <1>2 DEF BytesToInt

\* The server finds every packet again by its number.
LEMMA NumberRoutes ==
  ASSUME file \in FileLengths, NEW p \in AllPackets
  PROVE  Route(file, Number(p)) = p
<1>1. file \in Nat
  BY FileType
<1>2. /\ p[1] \in Segs /\ p[2] \in 0 .. PacketCount(SegLength(file, p[1])) - 1
      /\ p = <<p[1], p[2]>>
  BY <1>1, PacketParts
<1>3. Route(file, Offset(file, p[1]) + p[2]) = <<p[1], p[2]>>
  BY <1>1, <1>2, RouteFinds
<1>4. QED
  BY <1>2, <1>3 DEF Number

\* Every number below Expected is the number of a packet.
LEMMA NumberOnto ==
  ASSUME file \in FileLengths, NEW x \in Nat, x < Expected
  PROVE  \E p \in AllPackets : Number(p) = x
<1> DEFINE T == {s \in 1 .. NumSegs + 1 : x < Offset(file, s)}
<1>1. file \in Nat
  BY FileType
<1>2. NumSegs \in Nat \ {0} /\ Segs = 1 .. NumSegs
  BY NumberingAssumption DEF Segs
<1>3. NumSegs + 1 \in T /\ T \in SUBSET Nat
  BY <1>2 DEF Expected
<1>4. PICK s \in T : \A t \in T : ~(t < s)
  BY <1>3, LeastNumber
<1>5. s # 1
  BY <1>1, OffsetDef
<1> DEFINE r == s - 1
<1>6. r \in Segs /\ r \in 1 .. NumSegs + 1 /\ r < s /\ s = r + 1
  BY <1>2, <1>4, <1>5
<1>7. Offset(file, r) \in Nat
  BY <1>1, <1>6, OffsetType
<1>8. Offset(file, r) <= x
  BY <1>4, <1>6, <1>7
<1>9. x < Offset(file, r + 1)
  BY <1>4, <1>6
<1> HIDE DEF r
<1>10. SegLength(file, r) \in Nat
  BY <1>1, <1>6, SegLengthType
<1>11. PacketCount(SegLength(file, r)) \in Nat
  BY <1>10, PacketCountType
<1>12. Offset(file, r + 1) = Offset(file, r) + PacketCount(SegLength(file, r))
  BY <1>1, <1>6, OffsetDef
<1> DEFINE n == x - Offset(file, r)
<1>13. n \in 0 .. PacketCount(SegLength(file, r)) - 1 /\ Offset(file, r) + n = x
  BY <1>7, <1>8, <1>9, <1>11, <1>12
<1> HIDE DEF n
<1>14. <<r, n>> \in AllPackets
  BY <1>6, <1>13 DEF AllPackets
<1>15. Number(<<r, n>>) = x
  BY <1>13 DEF Number
<1>16. QED
  BY <1>14, <1>15

\* So there are as many packets as there are numbers.
LEMMA PacketsCounted ==
  ASSUME file \in FileLengths
  PROVE  IsFiniteSet(AllPackets) /\ Cardinality(AllPackets) = Expected
<1> DEFINE f == [p \in AllPackets |-> Number(p)]
<1>1. NumSegs \in Nat /\ NumSegs + 1 \in 1 .. NumSegs + 1 /\ file \in Nat
  BY NumberingAssumption, FileType
<1>2. Expected \in Nat
  BY <1>1, OffsetType DEF Expected
<1>3. f \in [AllPackets -> 0 .. Expected - 1]
  BY <1>2, NumberFits
<1>4. \A p, q \in AllPackets : f[p] = f[q] => p = q
  BY NumberRoutes
<1>5. \A x \in 0 .. Expected - 1 : \E p \in AllPackets : f[p] = x
  BY <1>2, NumberOnto
<1>6. f \in Bijection(AllPackets, 0 .. Expected - 1)
  BY <1>3, <1>4, <1>5, Fun_IsBij
<1>7. ExistsBijection(0 .. Expected - 1, AllPackets)
  BY <1>6, Fun_ExistsBij, Fun_ExistsBijSymmetric
<1>8. IsFiniteSet(0 .. Expected - 1) /\ Cardinality(0 .. Expected - 1) = Expected
  BY <1>2, FS_Interval
<1>9. QED
  BY <1>7, <1>8, FS_Bijection

-----------------------------------------------------------------------------
\* Only the last packet of a segment is short, and by no more than a payload.
LEMMA ShortIsLast ==
  ASSUME file \in FileLengths, NEW p \in SentPackets
  PROVE  /\ Shortfall(p) \in 0 .. Payload
         /\ Shortfall(p) > 0 => p = LastPacket(p[1])
<1> DEFINE len == SegLength(file, p[1])
           n == p[2]
           q == len \div Payload
           r == len % Payload
<1>1. file \in Nat /\ p \in AllPackets /\ Length(p) > 0
  BY FileType DEF SentPackets
<1>2. p[1] \in Segs /\ p = <<p[1], n>> /\ len \in Nat /\ n \in 0 .. PacketCount(len) - 1
  BY <1>1, PacketParts
<1>3. Payload \in Nat \ {0} /\ Header \in Nat \ {0} /\ PacketSize = Payload + Header
  BY NumberingAssumption DEF PacketSize
<1>4. r \notin 1 .. Header - 1
  BY <1>2 DEF FileLengths, Remainder
<1>5. Length(p) = PacketLength(len, n)
  BY DEF Length
<1>6. LastPacket(p[1]) = <<p[1], PacketCount(len) - 1>>
  BY DEF LastPacket
<1> HIDE DEF len, n
<1>7. q \in Nat /\ r \in Nat /\ r < Payload /\ len = Payload * q + r
  BY <1>2, <1>3, Division
<1>8. PacketCount(len) = q + 1
  BY DEF PacketCount
<1> HIDE DEF q, r
<1>9. n \in Nat /\ n <= q
  BY <1>2, <1>7, <1>8
<1>10. Payload * n \in Nat /\ Payload * q \in Nat /\ n * Payload = Payload * n
  BY <1>3, <1>7, <1>9
<1>11. CASE n < q
  <2>1. Payload * (n + 1) <= Payload * q
    BY <1>3, <1>7, <1>9, <1>11, ProductMonotone
  <2>2. Payload * (n + 1) = Payload * n + Payload
    BY <1>3, <1>9
  <2>3. len - n * Payload >= Payload
    BY <1>3, <1>7, <1>10, <2>1, <2>2
  <2>4. Length(p) = PacketSize
    BY <1>5, <2>3 DEF PacketLength
  <2>5. QED
    BY <1>3, <2>4 DEF Shortfall
<1>12. CASE n = q
  <2>1. len - n * Payload = r
    BY <1>3, <1>7, <1>10, <1>12
  <2>2. Length(p) = r
    BY <1>3, <1>5, <1>7, <2>1 DEF PacketLength
  <2>3. r >= Header
    BY <1>1, <1>3, <1>4, <1>7, <2>2
  <2>4. Shortfall(p) \in 0 .. Payload
    BY <1>3, <1>7, <2>2, <2>3 DEF Shortfall
  <2>5. p = LastPacket(p[1])
    BY <1>2, <1>6, <1>7, <1>8, <1>12
  <2>6. QED
    BY <2>4, <2>5
<1>13. QED
  BY <1>7, <1>9, <1>11, <1>12

\* A packet is empty if it is the last of a segment that is a multiple of the
\* payload, and only then.
LEMMA EmptyIsLast ==
  ASSUME file \in FileLengths, NEW p \in AllPackets
  PROVE  p \in SentPackets <=> ~(IsExact(p[1]) /\ p = LastPacket(p[1]))
<1> DEFINE len == SegLength(file, p[1])
           n == p[2]
           q == len \div Payload
           r == len % Payload
<1>1. file \in Nat
  BY FileType
<1>2. p[1] \in Segs /\ len \in Nat /\ n \in 0 .. PacketCount(len) - 1
  BY <1>1, PacketParts
<1>3. Payload \in Nat \ {0} /\ PacketSize \in Nat \ {0}
  BY NumberingAssumption DEF PacketSize
<1>4. IsExact(p[1]) <=> r = 0
  BY DEF IsExact, Remainder
<1>5. Length(p) = PacketLength(len, n) /\ (p \in SentPackets <=> Length(p) > 0)
  BY DEF Length, SentPackets
<1>6. p = LastPacket(p[1]) <=> n = PacketCount(len) - 1
  BY DEF LastPacket, AllPackets
<1> HIDE DEF len, n
<1>7. q \in Nat /\ r \in Nat /\ r < Payload /\ len = Payload * q + r
  BY <1>2, <1>3, Division
<1>8. PacketCount(len) = q + 1
  BY DEF PacketCount
<1> HIDE DEF q, r
<1>9. n \in Nat /\ n <= q
  BY <1>2, <1>7, <1>8
<1>10. Payload * n \in Nat /\ Payload * q \in Nat /\ n * Payload = Payload * n
  BY <1>3, <1>7, <1>9
<1>11. CASE n < q
  <2>1. Payload * (n + 1) <= Payload * q
    BY <1>3, <1>7, <1>9, <1>11, ProductMonotone
  <2>2. Payload * (n + 1) = Payload * n + Payload
    BY <1>3, <1>9
  <2>3. len - n * Payload >= Payload
    BY <1>3, <1>7, <1>10, <2>1, <2>2
  <2>4. Length(p) > 0
    BY <1>3, <1>5, <2>3 DEF PacketLength
  <2>5. QED
    BY <1>5, <1>6, <1>7, <1>8, <1>9, <1>11, <2>4
<1>12. CASE n = q
  <2>1. len - n * Payload = r
    BY <1>3, <1>7, <1>10, <1>12
  <2>2. Length(p) = r
    BY <1>3, <1>5, <1>7, <2>1 DEF PacketLength
  <2>3. QED
    BY <1>4, <1>5, <1>6, <1>7, <1>8, <1>12, <2>2
<1>13. QED
  BY <1>7, <1>9, <1>11, <1>12

\* So as many packets are not sent as segments are multiples of the payload.
LEMMA SentCounted ==
  ASSUME file \in FileLengths
  PROVE  Cardinality(SentPackets) + Cardinality({s \in Segs : IsExact(s)}) = Expected
<1> DEFINE Exact == {s \in Segs : IsExact(s)}
           Unsent == AllPackets \ SentPackets
           f == [s \in Exact |-> LastPacket(s)]
<1>1. NumSegs \in Nat /\ file \in Nat
  BY NumberingAssumption, FileType
<1>2. IsFiniteSet(Exact)
  <2>1. 1 \in Int /\ NumSegs \in Int
    BY <1>1
  <2>2. IsFiniteSet(1 .. NumSegs)
    BY <2>1, FS_Interval
  <2>3. QED
    BY <2>2, FS_Subset DEF Segs
<1>3. ASSUME NEW s \in Segs
      PROVE  LastPacket(s) \in AllPackets /\ LastPacket(s)[1] = s
  <2>1. SegLength(file, s) \in Nat
    BY <1>1, <1>3, SegLengthType
  <2>2. PacketCount(SegLength(file, s)) \in Nat \ {0}
    BY <2>1, PacketCountType
  <2>3. PacketCount(SegLength(file, s)) - 1
          \in 0 .. PacketCount(SegLength(file, s)) - 1
    BY <2>2
  <2>4. QED
    BY <2>3 DEF LastPacket, AllPackets
<1>4. f \in [Exact -> Unsent]
  BY <1>3, EmptyIsLast
<1>5. \A s, t \in Exact : f[s] = f[t] => s = t
  BY <1>3
<1>6. \A p \in Unsent : \E s \in Exact : f[s] = p
  <2> SUFFICES ASSUME NEW p \in Unsent PROVE \E s \in Exact : f[s] = p
    OBVIOUS
  <2>1. p[1] \in Segs
    BY <1>1, PacketParts
  <2>2. IsExact(p[1]) /\ p = LastPacket(p[1])
    BY EmptyIsLast
  <2>3. QED
    BY <2>1, <2>2
<1>7. f \in Bijection(Exact, Unsent)
  BY <1>4, <1>5, <1>6, Fun_IsBij
<1>8. IsFiniteSet(Unsent) /\ Cardinality(Unsent) = Cardinality(Exact)
  BY <1>2, <1>7, Fun_ExistsBij, FS_Bijection
<1>9. /\ IsFiniteSet(AllPackets) /\ Cardinality(AllPackets) = Expected
      /\ Cardinality(AllPackets) \in Nat
  BY PacketsCounted, FS_CardinalityType
<1>10. Cardinality(AllPackets \ Unsent)
         = Cardinality(AllPackets) - Cardinality(AllPackets \cap Unsent)
  BY <1>9, FS_Difference
<1>11. AllPackets \ Unsent = SentPackets /\ AllPackets \cap Unsent = Unsent
  BY DEF SentPackets
<1>12. Cardinality(Exact) \in Nat
  BY <1>2, FS_CardinalityType
<1>13. Cardinality(SentPackets) = Cardinality(AllPackets) - Cardinality(Unsent)
  BY <1>10, <1>11, Zenon
<1>14. Cardinality(Unsent) = Cardinality(Exact)
  BY <1>8
<1>15. Cardinality(SentPackets) = Expected - Cardinality(Exact)
  BY <1>9, <1>13, <1>14, Zenon
<1>16. Expected \in Nat
  BY <1>9, Zenon
<1> HIDE DEF Exact
<1>17. Cardinality(SentPackets) + Cardinality(Exact) = Expected
  BY <1>12, <1>15, <1>16
<1>18. QED
  BY <1>17 DEF Exact

\* The greatest of some numbers below a bound.
LEMMA GreatestNumber ==
  ASSUME NEW S \in SUBSET Nat, S # {}, NEW b \in Nat, \A k \in S : k < b
  PROVE  Max(S) \in S
<1> DEFINE T == {x \in Nat : \E k \in S : x = b - k}
<1>1. T \in SUBSET Nat /\ T # {}
  <2>1. PICK k \in S : k \in Nat /\ k < b
    OBVIOUS
  <2>2. b - k \in T
    BY <2>1
  <2>3. QED
    BY <2>2
<1>2. PICK x \in T : \A y \in T : ~(y < x)
  BY <1>1, LeastNumber
<1>3. PICK m \in S : x = b - m
  BY <1>2
<1>4. \A y \in S : m >= y
  <2>1. SUFFICES ASSUME NEW y \in S PROVE m >= y
    OBVIOUS
  <2>2. b - y \in T
    OBVIOUS
  <2>3. ~(b - y < x)
    BY <1>2, <2>2
  <2>4. QED
    BY <1>3, <2>3
<1>5. QED
  BY <1>3, <1>4 DEF Max

\* A correction is 0 or an entry of the map with a lower number.
LEMMA CorrectionIsEntry ==
  ASSUME NEW map, DOMAIN map \in SUBSET Nat, NEW id \in Nat
  PROVE  \/ Correction(map, id) = 0
         \/ \E k \in DOMAIN map : k < id /\ Correction(map, id) = map[k]
<1> DEFINE keys == {k \in DOMAIN map : k < id}
<1>1. CASE keys = {}
  BY <1>1 DEF Correction
<1>2. CASE keys # {}
  <2>1. keys \in SUBSET Nat /\ \A k \in keys : k < id
    OBVIOUS
  <2>2. Max(keys) \in keys
    BY <1>2, <2>1, GreatestNumber
  <2>3. Correction(map, id) = map[Max(keys)]
    BY <1>2 DEF Correction
  <2>4. QED
    BY <2>2, <2>3
<1>3. QED
  BY <1>1, <1>2

-----------------------------------------------------------------------------
\* MapThenSumSet over the bytes of packets.  The sum is a function on the
\* subsets of a set, which takes away an arbitrary element at a time.
Some(s) == CHOOSE x \in s : TRUE

IsSum(g, U) ==
  g = [s \in SUBSET U |->
         IF s = {} THEN 0 ELSE Bytes(Some(s)) + g[s \ {Some(s)}]]

Sum(S) == MapThenSumSet(Bytes, S)

\* MapThenSumSet, with its operators put in.
LEMMA SumUnfold ==
  ASSUME NEW S
  PROVE  Sum(S) = (CHOOSE g : IsSum(g, S))[S]
BY DEF Sum, MapThenSumSet, MapThenFoldSet, IsSum, Some

\* An element less.
LEMMA OneLess ==
  ASSUME NEW U, IsFiniteSet(U), NEW s \in SUBSET U, NEW x \in s
  PROVE  /\ IsFiniteSet(s) /\ Cardinality(s) \in Nat
         /\ s \ {x} \in SUBSET U
         /\ Cardinality(s \ {x}) \in Nat /\ Cardinality(s \ {x}) < Cardinality(s)
<1>1. IsFiniteSet(s) /\ IsFiniteSet(s \ {x})
  BY FS_Subset
<1>2. Cardinality(s) \in Nat /\ Cardinality(s \ {x}) \in Nat
  BY <1>1, FS_CardinalityType
<1>3. Cardinality(s \ {x}) = Cardinality(s) - 1
  BY <1>1, FS_RemoveElement
<1>4. QED
  BY <1>1, <1>2, <1>3

\* The element taken is one of the set.
LEMMA SomeElement ==
  ASSUME NEW s, s # {}
  PROVE  Some(s) \in s
BY DEF Some

\* There is such a function, for every finite set.
LEMMA SumExists ==
  ASSUME NEW U, IsFiniteSet(U)
  PROVE  \E g : IsSum(g, U)
<1> DEFINE Small(n) == {s \in SUBSET U : Cardinality(s) <= n}
           IsPart(g, n) ==
             g = [s \in Small(n) |->
                    IF s = {} THEN 0 ELSE Bytes(Some(s)) + g[s \ {Some(s)}]]
           T == {n \in Nat : ~(\E g : IsPart(g, n))}
<1>1. \A s \in SUBSET U : /\ IsFiniteSet(s)
                          /\ Cardinality(s) \in Nat
                          /\ Cardinality(s) <= Cardinality(U)
                          /\ Cardinality(s) = 0 <=> s = {}
  BY FS_Subset, FS_CardinalityType, FS_EmptySet
<1>2. Cardinality(U) \in Nat
  BY FS_CardinalityType
<1>3. T = {}
  <2> SUFFICES ASSUME T # {} PROVE FALSE
    OBVIOUS
  <2>1. PICK n \in T : \A m \in T : ~(m < n)
    <3>1. T \in SUBSET Nat
      OBVIOUS
    <3> HIDE DEF T
    <3>2. QED
      BY <3>1, LeastNumber
  <2>2. n \in Nat /\ ~(\E g : IsPart(g, n))
    OBVIOUS
  <2>3. CASE n = 0
    <3>1. \A s \in Small(0) : s = {}
      BY <1>1
    <3>2. IsPart([s \in Small(0) |-> 0], 0)
      <4> DEFINE h == [s \in Small(0) |-> 0]
                 k == [s \in Small(0) |->
                         IF s = {} THEN 0 ELSE Bytes(Some(s)) + h[s \ {Some(s)}]]
      <4>1. \A s \in Small(0) : k[s] = 0
        BY <3>1
      <4>2. h = k
        BY <4>1
      <4>3. QED
        BY <4>2
    <3>3. QED
      BY <2>2, <2>3, <3>2
  <2>4. CASE n # 0
    <3>1. n - 1 \in Nat /\ n - 1 < n
      BY <2>2, <2>4
    <3>2. PICK g : IsPart(g, n - 1)
      BY <2>1, <3>1
    <3> DEFINE h == [s \in Small(n) |->
                       IF s = {} THEN 0 ELSE Bytes(Some(s)) + g[s \ {Some(s)}]]
    <3>3. \A s \in Small(n) : s # {} =>
             /\ s \ {Some(s)} \in Small(n - 1) /\ s \ {Some(s)} \in Small(n)
      <4> SUFFICES ASSUME NEW s \in Small(n), s # {}
                   PROVE  s \ {Some(s)} \in Small(n - 1) /\ s \ {Some(s)} \in Small(n)
        OBVIOUS
      <4>1. Some(s) \in s
        BY SomeElement
      <4>2. /\ s \ {Some(s)} \in SUBSET U
            /\ Cardinality(s) \in Nat
            /\ Cardinality(s \ {Some(s)}) \in Nat
            /\ Cardinality(s \ {Some(s)}) < Cardinality(s)
        BY <4>1, OneLess
      <4>3. QED
        BY <2>2, <3>1, <4>2
    <3>4. \A s \in Small(n - 1) : s \in Small(n) /\ h[s] = g[s]
      <4>1. Small(n - 1) \subseteq Small(n)
        BY <1>1, <2>2, <3>1
      <4>2. \A s \in Small(n - 1) :
              g[s] = IF s = {} THEN 0 ELSE Bytes(Some(s)) + g[s \ {Some(s)}]
        BY <3>2
      <4>3. QED
        BY <4>1, <4>2
    <3>5. h = [s \in Small(n) |->
                 IF s = {} THEN 0 ELSE Bytes(Some(s)) + h[s \ {Some(s)}]]
      <4> DEFINE k == [s \in Small(n) |->
                         IF s = {} THEN 0 ELSE Bytes(Some(s)) + h[s \ {Some(s)}]]
      <4>1. \A s \in Small(n) : s # {} => h[s \ {Some(s)}] = g[s \ {Some(s)}]
        BY <3>3, <3>4
      <4>2. \A s \in Small(n) : h[s] = k[s]
        BY <4>1
      <4>3. QED
        BY <4>2
    <3>6. IsPart(h, n)
      BY <3>5
    <3>7. QED
      BY <2>2, <3>6
  <2>5. QED
    BY <2>3, <2>4
<1>4. PICK g : IsPart(g, Cardinality(U))
  BY <1>2, <1>3
<1>5. Small(Cardinality(U)) = SUBSET U
  BY <1>1
<1>6. QED
  BY <1>4, <1>5 DEF IsSum

\* The recursion of such a function.
LEMMA SumRecursion ==
  ASSUME NEW U, NEW g, IsSum(g, U)
  PROVE  /\ {} \in SUBSET U => g[{}] = 0
         /\ \A s \in SUBSET U : s # {} =>
              g[s] = Bytes(Some(s)) + g[s \ {Some(s)}]
<1>1. \A s \in SUBSET U :
        g[s] = IF s = {} THEN 0 ELSE Bytes(Some(s)) + g[s \ {Some(s)}]
  BY DEF IsSum
<1>2. QED
  BY <1>1

\* An induction over the subsets of a finite set: of those that are not as
\* they should be one is smallest.
LEMMA SmallestSet ==
  ASSUME NEW U, IsFiniteSet(U), NEW B \in SUBSET (SUBSET U), B # {}
  PROVE  \E s \in B : \A t \in B : ~(Cardinality(t) < Cardinality(s))
<1> DEFINE T == {n \in Nat : \E s \in B : Cardinality(s) = n}
<1>1. \A s \in B : Cardinality(s) \in Nat
  BY FS_Subset, FS_CardinalityType
<1>2. T \in SUBSET Nat /\ T # {}
  BY <1>1
<1>3. PICK n \in T : \A m \in T : ~(m < n)
  BY <1>2, LeastNumber
<1>4. PICK s \in B : Cardinality(s) = n
  BY <1>3
<1>5. QED
  BY <1>1, <1>3, <1>4

\* On what two sets share, their functions agree.
LEMMA SumUnique ==
  ASSUME NEW U, IsFiniteSet(U), NEW S \in SUBSET U,
         NEW g, IsSum(g, U), NEW h, IsSum(h, S)
  PROVE  g[S] = h[S]
<1> DEFINE B == {s \in SUBSET S : g[s] # h[s]}
<1>1. SUFFICES ASSUME B # {} PROVE FALSE
  OBVIOUS
<1>2. PICK s \in B : \A t \in B : ~(Cardinality(t) < Cardinality(s))
  BY <1>1, SmallestSet, FS_Subset
<1>3. s \in SUBSET S /\ s \in SUBSET U /\ g[s] # h[s]
  OBVIOUS
<1>4. s # {}
  BY <1>3, SumRecursion
<1>5. Some(s) \in s
  BY <1>4, SomeElement
<1>6. s \ {Some(s)} \in SUBSET S /\ Cardinality(s \ {Some(s)}) < Cardinality(s)
  BY <1>3, <1>5, OneLess
<1>7. g[s \ {Some(s)}] = h[s \ {Some(s)}]
  BY <1>2, <1>6
<1>8. g[s] = Bytes(Some(s)) + g[s \ {Some(s)}] /\ h[s] = Bytes(Some(s)) + h[s \ {Some(s)}]
  BY <1>3, <1>4, SumRecursion
<1>9. QED
  BY <1>3, <1>7, <1>8

\* The sums of a set are numbers, and do not depend on the order in which the
\* elements are taken.
LEMMA SumAnyOrder ==
  ASSUME NEW U, IsFiniteSet(U), \A x \in U : Bytes(x) \in Int,
         NEW g, IsSum(g, U)
  PROVE  /\ \A s \in SUBSET U : g[s] \in Int
         /\ \A s \in SUBSET U : \A x \in s : g[s] = Bytes(x) + g[s \ {x}]
<1>1. \A s \in SUBSET U : g[s] \in Int
  <2> DEFINE B == {s \in SUBSET U : g[s] \notin Int}
  <2>1. SUFFICES ASSUME B # {} PROVE FALSE
    OBVIOUS
  <2>2. PICK s \in B : \A t \in B : ~(Cardinality(t) < Cardinality(s))
    BY <2>1, SmallestSet
  <2>3. s \in SUBSET U /\ g[s] \notin Int
    OBVIOUS
  <2>4. s # {}
    <3>1. {} \in SUBSET U
      OBVIOUS
    <3>2. g[{}] = 0
      BY <3>1, SumRecursion
    <3>3. 0 \in Int
      OBVIOUS
    <3>4. QED
      BY <2>3, <3>2, <3>3
  <2>5. Some(s) \in s /\ Bytes(Some(s)) \in Int
    BY <2>3, <2>4, SomeElement
  <2>6. s \ {Some(s)} \in SUBSET U /\ Cardinality(s \ {Some(s)}) < Cardinality(s)
    BY <2>3, <2>5, OneLess
  <2>7. g[s \ {Some(s)}] \in Int
    BY <2>2, <2>6
  <2>8. g[s] = Bytes(Some(s)) + g[s \ {Some(s)}]
    BY <2>3, <2>4, SumRecursion
  <2>9. QED
    BY <2>3, <2>5, <2>7, <2>8
<1>2. \A s \in SUBSET U : \A x \in s : g[s] = Bytes(x) + g[s \ {x}]
  <2> DEFINE B == {s \in SUBSET U : \E x \in s : g[s] # Bytes(x) + g[s \ {x}]}
  <2>1. SUFFICES ASSUME B # {} PROVE FALSE
    OBVIOUS
  <2>2. PICK s \in B : \A t \in B : ~(Cardinality(t) < Cardinality(s))
    BY <2>1, SmallestSet
  <2>3. PICK x \in s : g[s] # Bytes(x) + g[s \ {x}]
    BY <2>2
  <2> DEFINE c == Some(s)
  <2>4. s \in SUBSET U /\ s # {} /\ c \in s
    BY <2>3, SomeElement
  <2>5. g[s] = Bytes(c) + g[s \ {c}]
    BY <2>4, SumRecursion
  <2>6. x # c
    BY <2>3, <2>5
  <2> HIDE DEF c
  <2>7. /\ s \ {c} \in SUBSET U /\ Cardinality(s \ {c}) < Cardinality(s) /\ x \in s \ {c}
        /\ s \ {x} \in SUBSET U /\ Cardinality(s \ {x}) < Cardinality(s) /\ c \in s \ {x}
    BY <2>4, <2>6, OneLess
  <2>8. s \ {c} \notin B /\ s \ {x} \notin B
    BY <2>2, <2>7
  <2>9. /\ g[s \ {c}] = Bytes(x) + g[(s \ {c}) \ {x}]
        /\ g[s \ {x}] = Bytes(c) + g[(s \ {x}) \ {c}]
    BY <2>7, <2>8
  <2> DEFINE r == (s \ {x}) \ {c}
  <2>10. (s \ {c}) \ {x} = r /\ r \in SUBSET U
    BY <2>4
  <2> HIDE DEF r
  <2>11. Bytes(x) \in Int /\ Bytes(c) \in Int /\ g[r] \in Int
    BY <1>1, <2>4, <2>10
  <2>12. g[s] = Bytes(c) + (Bytes(x) + g[r]) /\ g[s \ {x}] = Bytes(c) + g[r]
    BY <2>5, <2>9, <2>10 DEF r
  <2>13. Bytes(c) + (Bytes(x) + g[r]) = Bytes(x) + (Bytes(c) + g[r])
    BY <2>11
  <2>14. QED
    BY <2>3, <2>12, <2>13
<1>3. QED
  BY <1>1, <1>2

\* The first of the two laws of sums that the properties rest on ...
LEMMA SumEmpty == Sum({}) = 0
<1>1. PICK g : IsSum(g, {})
  BY SumExists, FS_EmptySet
<1>2. IsSum(CHOOSE h : IsSum(h, {}), {})
  BY <1>1
<1>3. QED
  BY <1>2, SumUnfold, SumRecursion

\* ... and the second.
LEMMA SumOneMore ==
  ASSUME NEW S, NEW x, x \notin S, IsFiniteSet(S),
         \A y \in S \cup {x} : Bytes(y) \in Int
  PROVE  /\ Sum(S) \in Int
         /\ Sum(S \cup {x}) = Bytes(x) + Sum(S)
<1> DEFINE U == S \cup {x}
           g == CHOOSE f : IsSum(f, U)
           h == CHOOSE f : IsSum(f, S)
<1>1. IsFiniteSet(U)
  BY FS_AddElement
<1>2. IsSum(g, U) /\ IsSum(h, S)
  BY <1>1, SumExists
<1>3. Sum(U) = g[U] /\ Sum(S) = h[S]
  BY SumUnfold
<1>4. S \in SUBSET U /\ U \in SUBSET U /\ x \in U /\ U \ {x} = S
  OBVIOUS
<1> HIDE DEF U, g, h
<1>5. g[S] = h[S]
  BY <1>1, <1>2, <1>4, SumUnique
<1>6. g[S] \in Int /\ g[U] = Bytes(x) + g[U \ {x}]
  <2>1. \A y \in U : Bytes(y) \in Int
    BY DEF U
  <2>2. QED
    BY <1>1, <1>2, <1>4, <2>1, SumAnyOrder
<1>7. QED
  BY <1>3, <1>4, <1>5, <1>6 DEF U

-----------------------------------------------------------------------------
\* The bytes of a file that the packets of a segment of this length carry.
SegBytes(len) == IF Remainder(len) = 0 THEN len ELSE len - Header

\* The bytes of a packet: a payload, or what the last one has behind its header.
LEMMA BytesOfPacket ==
  ASSUME file \in FileLengths, NEW p \in AllPackets
  PROVE  LET len == SegLength(file, p[1]) IN
         /\ Bytes(p) \in Nat
         /\ p # LastPacket(p[1]) => Bytes(p) = Payload
         /\ p = LastPacket(p[1]) => p[2] * Payload + Bytes(p) = SegBytes(len)
         /\ p = LastPacket(p[1]) /\ Remainder(len) # 0 =>
              Shortfall(p) + Bytes(p) = Payload /\ Shortfall(p) > 0
<1> DEFINE len == SegLength(file, p[1])
           n == p[2]
           q == len \div Payload
           r == len % Payload
<1>1. file \in Nat
  BY FileType
<1>2. p[1] \in Segs /\ p = <<p[1], n>> /\ len \in Nat /\ n \in 0 .. PacketCount(len) - 1
  BY <1>1, PacketParts
<1>3. Payload \in Nat \ {0} /\ Header \in Nat \ {0} /\ PacketSize = Payload + Header
  BY NumberingAssumption DEF PacketSize
<1>4. r \notin 1 .. Header - 1
  BY <1>2 DEF FileLengths, Remainder
<1>5. Bytes(p) = DataBytes(len, n) /\ Shortfall(p) = PacketSize - PacketLength(len, n)
  BY DEF Bytes, Shortfall, Length
<1>6. LastPacket(p[1]) = <<p[1], PacketCount(len) - 1>>
  BY DEF LastPacket
<1>7. Remainder(len) = r
  BY DEF Remainder
<1> SUFFICES /\ Bytes(p) \in Nat
             /\ p # LastPacket(p[1]) => Bytes(p) = Payload
             /\ p = LastPacket(p[1]) => n * Payload + Bytes(p) = SegBytes(len)
             /\ p = LastPacket(p[1]) /\ r # 0 =>
                  Shortfall(p) + Bytes(p) = Payload /\ Shortfall(p) > 0
  BY <1>7
<1> HIDE DEF len, n
<1>8. q \in Nat /\ r \in Nat /\ r < Payload /\ len = Payload * q + r
  BY <1>2, <1>3, Division
<1>9. PacketCount(len) = q + 1
  BY DEF PacketCount
<1> HIDE DEF q, r
<1>10. n \in Nat /\ n <= q /\ (p = LastPacket(p[1]) <=> n = q)
  BY <1>2, <1>6, <1>8, <1>9
<1>11. Payload * n \in Nat /\ Payload * q \in Nat /\ n * Payload = Payload * n
  BY <1>3, <1>8, <1>10
<1>12. CASE n < q
  <2>1. Payload * (n + 1) <= Payload * q
    BY <1>3, <1>8, <1>10, <1>12, ProductMonotone
  <2>2. Payload * (n + 1) = Payload * n + Payload
    BY <1>3, <1>10
  <2>3. len - n * Payload >= Payload
    BY <1>3, <1>8, <1>11, <2>1, <2>2
  <2>4. PacketLength(len, n) = PacketSize
    BY <2>3 DEF PacketLength
  <2>5. Bytes(p) = Payload
    BY <1>3, <1>5, <2>4 DEF DataBytes
  <2>6. QED
    BY <1>3, <1>10, <1>12, <2>5
<1>13. CASE n = q
  <2>1. len - n * Payload = r
    BY <1>3, <1>8, <1>11, <1>13
  <2>2. PacketLength(len, n) = r
    BY <1>3, <1>8, <2>1 DEF PacketLength
  <2>3. r = 0 => Bytes(p) = 0
    BY <1>3, <1>5, <2>2 DEF DataBytes
  <2>4. r # 0 => r >= Header
    BY <1>3, <1>4, <1>8
  <2>5. r # 0 => Bytes(p) = r - Header /\ Bytes(p) \in Nat
    BY <1>3, <1>5, <1>8, <2>2, <2>4 DEF DataBytes
  <2>6. r # 0 => Shortfall(p) + Bytes(p) = Payload /\ Shortfall(p) > 0
    BY <1>3, <1>5, <1>8, <2>2, <2>5
  <2>7. n * Payload + Bytes(p) = SegBytes(len)
    BY <1>3, <1>7, <1>8, <1>11, <1>13, <2>3, <2>5 DEF SegBytes
  <2>8. QED
    BY <1>10, <1>13, <2>3, <2>5, <2>6, <2>7
<1>14. QED
  BY <1>8, <1>10, <1>12, <1>13

\* The bytes carried of a segment are a number.
LEMMA SegBytesType ==
  ASSUME file \in FileLengths, NEW s \in Segs
  PROVE  SegBytes(SegLength(file, s)) \in Int
<1>1. SegLength(file, s) \in Nat
  BY FileType, SegLengthType
<1>2. QED
  BY <1>1, NumberingAssumption DEF SegBytes

\* The packets of the file before a packet.
Earlier(p) == {q \in AllPackets : Number(q) < Number(p)}

\* No two packets have the same number.
LEMMA NumberInjective ==
  ASSUME file \in FileLengths, NEW p \in AllPackets, NEW q \in AllPackets,
         Number(p) = Number(q)
  PROVE  p = q
<1>1. Route(file, Number(p)) = p /\ Route(file, Number(q)) = q
  BY NumberRoutes
<1>2. QED
  BY <1>1

\* The bytes of the packets before a packet and of that packet.
LEMMA StartOfNext ==
  ASSUME file \in FileLengths, NEW q \in AllPackets
  PROVE  /\ Start(q) \in Int
         /\ Sum(Earlier(q) \cup {q}) = Bytes(q) + Start(q)
<1>1. IsFiniteSet(Earlier(q))
  BY PacketsCounted, FS_Subset DEF Earlier
<1>2. q \notin Earlier(q)
  BY NumberFits DEF Earlier
<1>3. \A y \in Earlier(q) \cup {q} : Bytes(y) \in Int
  <2>1. \A y \in AllPackets : Bytes(y) \in Nat
    BY BytesOfPacket
  <2>2. QED
    BY <2>1 DEF Earlier
<1>4. Start(q) = Sum(Earlier(q))
  BY DEF Start, Sum, Earlier
<1>5. QED
  BY <1>1, <1>2, <1>3, <1>4, SumOneMore

\* All segments but the last are equally long.
LEMMA EqualShares ==
  ASSUME NEW f \in Nat, NEW s \in Segs, s < NumSegs
  PROVE  SegLength(f, s) = SegLength(f, 1)
BY NumberingAssumption DEF SegLength, Segs

\* Before a packet there are whole segments, and full packets of its own.
LEMMA StartOfPacket ==
  ASSUME file \in FileLengths, NEW p \in AllPackets
  PROVE  Start(p) = (p[1] - 1) * SegBytes(SegLength(file, 1)) + p[2] * Payload
<1> DEFINE B == SegBytes(SegLength(file, 1))
           Claim(q) == Start(q) = (q[1] - 1) * B + q[2] * Payload
           T == {Number(q) : q \in {r \in AllPackets : ~Claim(r)}}
<1>1. SUFFICES ASSUME ~Claim(p) PROVE FALSE
  OBVIOUS
<1>2. T # {} /\ T \in SUBSET Nat
  <2>1. Number(p) \in T
    BY <1>1
  <2>2. \A q \in AllPackets : Number(q) \in Nat
    BY NumberFits
  <2>3. QED
    BY <2>1, <2>2
<1>3. PICK x \in T : \A y \in T : ~(y < x)
  <2> HIDE DEF T
  <2>1. QED
    BY <1>2, LeastNumber
<1>4. PICK w \in AllPackets : Number(w) = x /\ ~Claim(w)
  OBVIOUS
<1>5. \A q \in AllPackets : Number(q) < x => Claim(q)
  BY <1>3
<1> HIDE DEF T
<1>6. file \in Nat /\ NumSegs \in Nat \ {0} /\ Segs = 1 .. NumSegs /\ 1 \in Segs
      /\ Payload \in Nat
  BY FileType, NumberingAssumption DEF Segs
<1>7. B \in Int
  BY <1>6, SegBytesType
<1>8. x \in Nat /\ x < Expected /\ Expected \in Nat
  BY <1>4, NumberFits
<1>9. CASE x = 0
  <2>1. <<1, 0>> \in AllPackets
    <3>1. SegLength(file, 1) \in Nat
      BY <1>6, SegLengthType
    <3>2. 0 \in 0 .. PacketCount(SegLength(file, 1)) - 1
      BY <3>1, PacketCountType
    <3>3. QED
      BY <1>6, <3>2 DEF AllPackets
  <2>2. Number(<<1, 0>>) = 0
    BY <1>6, OffsetDef DEF Number
  <2>3. w = <<1, 0>>
    BY <1>4, <1>9, <2>1, <2>2, NumberInjective
  <2>4. Earlier(w) = {}
    <3>1. \A q \in AllPackets : Number(q) \in Nat
      BY NumberFits
    <3>2. QED
      BY <1>4, <1>9, <3>1 DEF Earlier
  <2>5. Start(w) = 0
    <3>1. Start(w) = Sum(Earlier(w))
      BY DEF Start, Sum, Earlier
    <3>2. QED
      BY <2>4, <3>1, SumEmpty
  <2>6. (1 - 1) * B + 0 * Payload = 0
    BY <1>6, <1>7
  <2> HIDE DEF B
  <2>7. QED
    BY <1>4, <2>3, <2>5, <2>6
<1>10. CASE x # 0
  <2>1. x - 1 \in Nat /\ x - 1 < Expected /\ x - 1 < x
    BY <1>8, <1>10
  <2>2. PICK q \in AllPackets : Number(q) = x - 1
    BY <2>1, NumberOnto
  <2>3. Claim(q)
    BY <1>5, <2>1, <2>2
  <2> DEFINE s == q[1]
             n == q[2]
             c == PacketCount(SegLength(file, s))
  <2>4. /\ s \in Segs /\ n \in Nat /\ n \in 0 .. c - 1 /\ c \in Nat
        /\ q = <<s, n>>
    BY <1>6, PacketParts
  <2>5. Earlier(w) = Earlier(q) \cup {q}
    <3>1. \A r \in AllPackets : Number(r) \in Nat
      BY NumberFits
    <3>2. \A r \in AllPackets : Number(r) < x <=> Number(r) < x - 1 \/ r = q
      BY <1>8, <2>2, <3>1, NumberInjective
    <3>3. QED
      BY <1>4, <2>2, <3>2 DEF Earlier
  <2>6. Start(w) = Bytes(q) + Start(q) /\ Start(q) \in Int
    <3>1. Start(w) = Sum(Earlier(w))
      BY DEF Start, Sum, Earlier
    <3>2. QED
      BY <2>5, <3>1, StartOfNext
  <2>7. Bytes(q) \in Nat
    BY BytesOfPacket
  <2>8. Number(q) = Offset(file, s) + n /\ Offset(file, s) \in Nat
    <3>1. s \in 1 .. NumSegs + 1
      BY <1>6, <2>4
    <3>2. QED
      BY <1>6, <3>1, OffsetType DEF Number
  <2>9. (s - 1) * B \in Int /\ n * Payload \in Int
    BY <1>6, <1>7, <2>4
  <2>10. CASE n < c - 1
    <3>1. <<s, n + 1>> \in AllPackets
      <4>1. n + 1 \in 0 .. c - 1
        BY <2>4, <2>10
      <4>2. QED
        BY <2>4, <4>1 DEF AllPackets
    <3>2. Number(<<s, n + 1>>) = x
      BY <1>8, <2>2, <2>4, <2>8 DEF Number
    <3>3. w = <<s, n + 1>>
      BY <1>4, <3>1, <3>2, NumberInjective
    <3>4. q # LastPacket(s)
      BY <2>4, <2>10 DEF LastPacket
    <3>5. Bytes(q) = Payload
      BY <3>4, BytesOfPacket
    <3> HIDE DEF s, n, B
    <3>6. (n + 1) * Payload = n * Payload + Payload
      BY <1>6, <2>4
    <3>7. Start(q) = (s - 1) * B + n * Payload
      BY <2>3 DEF s, n
    <3>8. Start(w) = (s - 1) * B + (n + 1) * Payload
      BY <1>6, <2>6, <2>9, <3>5, <3>6, <3>7
    <3>9. QED
      BY <1>4, <3>3, <3>8
  <2>11. CASE n = c - 1
    <3>1. s # NumSegs
      <4>1. Expected = Offset(file, NumSegs) + PacketCount(SegLength(file, NumSegs))
        BY <1>6, OffsetDef DEF Expected
      <4>2. QED
        BY <1>8, <2>2, <2>4, <2>8, <2>11, <4>1
    <3>2. s < NumSegs /\ s + 1 \in Segs
      BY <1>6, <2>4, <3>1
    <3>3. <<s + 1, 0>> \in AllPackets
      <4>1. SegLength(file, s + 1) \in Nat
        BY <1>6, <3>2, SegLengthType
      <4>2. 0 \in 0 .. PacketCount(SegLength(file, s + 1)) - 1
        BY <4>1, PacketCountType
      <4>3. QED
        BY <3>2, <4>2 DEF AllPackets
    <3>4. Number(<<s + 1, 0>>) = x
      <4>1. Offset(file, s + 1) = Offset(file, s) + c
        BY <1>6, <2>4, OffsetDef
      <4>2. Number(<<s + 1, 0>>) = Offset(file, s + 1) + 0
        BY DEF Number
      <4> HIDE DEF s, n, c
      <4>3. QED
        BY <1>8, <2>2, <2>4, <2>8, <2>11, <4>1, <4>2
    <3>5. w = <<s + 1, 0>>
      BY <1>4, <3>3, <3>4, NumberInjective
    <3>6. q = LastPacket(s)
      BY <2>4, <2>11 DEF LastPacket
    <3>7. n * Payload + Bytes(q) = B
      <4>1. SegLength(file, s) = SegLength(file, 1)
        BY <1>6, <2>4, <3>2, EqualShares
      <4>2. QED
        BY <3>6, <4>1, BytesOfPacket
    <3>8. Start(q) = (s - 1) * B + n * Payload
      BY <2>3
    <3> HIDE DEF s, n, B
    <3>9. Start(w) = (s - 1) * B + B
      BY <1>6, <1>7, <2>6, <2>7, <2>9, <3>7, <3>8
    <3>10. (s - 1) * B + B = ((s + 1) - 1) * B + 0 * Payload
      BY <1>6, <1>7, <2>4
    <3>11. QED
      BY <1>4, <3>5, <3>9, <3>10
  <2>12. QED
    BY <2>4, <2>10, <2>11
<1>11. QED
  BY <1>9, <1>10

\* The numbers from 1 to n are n.
LEMMA IntervalSize ==
  ASSUME NEW n \in Nat
  PROVE  Cardinality(1 .. n) = n
<1>1. Cardinality(1 .. n) = IF 1 > n THEN 0 ELSE n - 1 + 1
  BY FS_Interval
<1>2. QED
  BY <1>1

\* In all, a header for every segment with a short packet stays behind.
LEMMA BytesOfAll ==
  ASSUME file \in FileLengths
  PROVE  Sum(AllPackets) = file - Header * Cardinality({s \in Segs : ~IsExact(s)})
<1> DEFINE B == SegBytes(SegLength(file, 1))
           len == SegLength(file, NumSegs)
           share == file \div NumSegs
           p == LastPacket(NumSegs)
           I == {s \in Segs : ~IsExact(s)}
<1>1. /\ file \in Nat /\ NumSegs \in Nat \ {0} /\ Segs = 1 .. NumSegs
      /\ 1 \in Segs /\ NumSegs \in Segs
      /\ Payload \in Nat /\ Header \in Nat
  BY FileType, NumberingAssumption DEF Segs
<1>2. SegLength(file, 1) \in Nat /\ len \in Nat
  BY <1>1, SegLengthType
<1>3. PacketCount(len) \in Nat \ {0}
  BY <1>2, PacketCountType
<1>4. p[1] = NumSegs /\ p[2] = PacketCount(len) - 1 /\ p = <<NumSegs, PacketCount(len) - 1>>
  BY DEF LastPacket
<1> HIDE DEF len, p
<1>5. p \in AllPackets
  <2>1. PacketCount(len) - 1 \in 0 .. PacketCount(len) - 1
    BY <1>3
  <2>2. QED
    BY <1>1, <1>4, <2>1 DEF AllPackets, len
<1>6. Number(p) = Expected - 1
  <2>1. Number(p) = Offset(file, NumSegs) + (PacketCount(len) - 1)
    BY <1>4 DEF Number
  <2>2. Expected = Offset(file, NumSegs) + PacketCount(len)
    BY <1>1, OffsetDef DEF Expected, len
  <2>3. Offset(file, NumSegs) \in Nat
    <3>1. NumSegs \in 1 .. NumSegs + 1
      BY <1>1
    <3>2. QED
      BY <1>1, <3>1, OffsetType
  <2>4. QED
    BY <1>3, <2>1, <2>2, <2>3
<1>7. AllPackets = Earlier(p) \cup {p}
  <2>1. SUFFICES ASSUME NEW q \in AllPackets, q # p PROVE Number(q) < Number(p)
    BY <1>5 DEF Earlier
  <2>2. /\ Number(q) \in Nat /\ Number(q) < Expected /\ Expected \in Nat
        /\ Number(q) # Number(p)
    BY <1>5, <2>1, NumberFits, NumberInjective
  <2>3. QED
    BY <1>6, <2>2
<1>8. Sum(AllPackets) = Bytes(p) + Start(p) /\ Bytes(p) \in Nat
  BY <1>5, <1>7, StartOfNext, BytesOfPacket
<1>9. Start(p) = (NumSegs - 1) * B + p[2] * Payload
  BY <1>4, <1>5, StartOfPacket
<1>10. p[2] * Payload + Bytes(p) = SegBytes(len)
  <2>1. p = LastPacket(p[1])
    BY <1>4 DEF p
  <2>2. QED
    BY <1>4, <1>5, <2>1, BytesOfPacket DEF len
<1>11. B \in Int /\ SegBytes(len) \in Int
  BY <1>1, SegBytesType DEF len
<1> HIDE DEF B
<1>12. Sum(AllPackets) = (NumSegs - 1) * B + SegBytes(len)
  <2>1. (NumSegs - 1) * B \in Int /\ p[2] * Payload \in Int
    BY <1>1, <1>3, <1>4, <1>11
  <2>2. QED
    BY <1>8, <1>9, <1>10, <2>1
<1>13. file = (NumSegs - 1) * SegLength(file, 1) + len
  <2>1. share \in Nat
    BY <1>1, Division
  <2>2. len = file - share * (NumSegs - 1)
    BY <1>1 DEF len, SegLength
  <2> HIDE DEF share
  <2>3. share * (NumSegs - 1) = (NumSegs - 1) * share /\ (NumSegs - 1) * share \in Nat
    BY <1>1, <2>1
  <2>4. CASE NumSegs = 1
    <3>1. (1 - 1) * SegLength(file, 1) = 0 /\ share * (1 - 1) = 0
      BY <1>2, <2>1
    <3>2. QED
      BY <1>1, <1>2, <2>2, <2>4, <3>1
  <2>5. CASE NumSegs # 1
    <3>1. SegLength(file, 1) = share
      BY <1>1, <2>5 DEF SegLength, share
    <3>2. QED
      BY <1>1, <2>2, <2>3, <3>1
  <2>6. QED
    BY <2>4, <2>5
<1>14. \A s \in Segs : s < NumSegs => (IsExact(s) <=> Remainder(SegLength(file, 1)) = 0)
  BY <1>1, EqualShares DEF IsExact
<1>15. IsExact(NumSegs) <=> Remainder(len) = 0
  BY DEF IsExact, len
<1> DEFINE a == SegLength(file, 1)
<1>16. /\ Remainder(a) = 0 => B = a
       /\ Remainder(a) # 0 => B = a - Header
       /\ Remainder(len) = 0 => SegBytes(len) = len
       /\ Remainder(len) # 0 => SegBytes(len) = len - Header
  BY DEF SegBytes, B
<1>17. a \in Nat
  BY <1>2
<1> HIDE DEF a
<1> DEFINE k == (NumSegs - 1) * a
           h == (NumSegs - 1) * Header
<1>18. /\ k \in Nat /\ h \in Nat
       /\ (NumSegs - 1) * (a - Header) = k - h
       /\ Header * (NumSegs - 1) = h
       /\ Header * NumSegs = h + Header
       /\ Header * 0 = 0 /\ Header * 1 = Header
  BY <1>1, <1>17
<1>19. file = k + len
  BY <1>13 DEF a
<1>20. IF Remainder(a) = 0 THEN (NumSegs - 1) * B = k ELSE (NumSegs - 1) * B = k - h
  BY <1>16, <1>18
<1> HIDE DEF k, h
<1>21. CASE Remainder(a) = 0 /\ Remainder(len) = 0
  <2>1. I = {}
    BY <1>1, <1>14, <1>15, <1>21 DEF a
  <2>2. Cardinality(I) = 0
    BY <2>1, FS_EmptySet
  <2>3. Header * Cardinality(I) = 0
    BY <1>1, <1>18, <2>2
  <2> HIDE DEF I
  <2>4. Sum(AllPackets) = file - Header * Cardinality(I)
    BY <1>1, <1>2, <1>12, <1>16, <1>18, <1>19, <1>20, <1>21, <2>3
  <2>5. QED
    BY <2>4 DEF I
<1>22. CASE Remainder(a) = 0 /\ Remainder(len) # 0
  <2>1. I = {NumSegs}
    BY <1>1, <1>14, <1>15, <1>22 DEF a
  <2>2. Cardinality(I) = 1
    BY <2>1, FS_Singleton
  <2>3. Header * Cardinality(I) = Header
    BY <1>1, <1>18, <2>2
  <2> HIDE DEF I
  <2>4. Sum(AllPackets) = file - Header * Cardinality(I)
    BY <1>1, <1>2, <1>12, <1>16, <1>18, <1>19, <1>20, <1>22, <2>3
  <2>5. QED
    BY <2>4 DEF I
<1>23. CASE Remainder(a) # 0 /\ Remainder(len) = 0
  <2>1. I = 1 .. NumSegs - 1
    BY <1>1, <1>14, <1>15, <1>23 DEF a
  <2>2. Cardinality(I) = NumSegs - 1
    <3>1. NumSegs - 1 \in Nat
      BY <1>1
    <3>2. QED
      BY <2>1, <3>1, IntervalSize
  <2>3. Header * Cardinality(I) = h
    BY <1>1, <1>18, <2>2
  <2> HIDE DEF I
  <2>4. Sum(AllPackets) = file - Header * Cardinality(I)
    BY <1>1, <1>2, <1>12, <1>16, <1>18, <1>19, <1>20, <1>23, <2>3
  <2>5. QED
    BY <2>4 DEF I
<1>24. CASE Remainder(a) # 0 /\ Remainder(len) # 0
  <2>1. I = 1 .. NumSegs
    BY <1>1, <1>14, <1>15, <1>24 DEF a
  <2>2. Cardinality(I) = NumSegs
    BY <1>1, <2>1, IntervalSize
  <2>3. Header * Cardinality(I) = h + Header
    BY <1>1, <1>18, <2>2
  <2> HIDE DEF I
  <2>4. Sum(AllPackets) = file - Header * Cardinality(I)
    BY <1>1, <1>2, <1>12, <1>16, <1>18, <1>19, <1>20, <1>24, <2>3
  <2>5. QED
    BY <2>4 DEF I
<1>25. QED
  BY <1>21, <1>22, <1>23, <1>24

-----------------------------------------------------------------------------
\* The segments whose short packet has been written.
ShortSegs ==
  {s \in Segs : LastPacket(s) \in DOMAIN at /\ Shortfall(LastPacket(s)) > 0}

\* Every entry of the map belongs to a short packet, and the sum that the
\* writer has reached bounds it: at most a payload for each segment.
MapInv ==
  /\ \A k \in DOMAIN wristband_map :
       /\ \E p \in DOMAIN at : Shortfall(p) > 0 /\ k = Number(p)
       /\ wristband_map[k] <= wrist_band_sum
  /\ wrist_band_sum <= Payload * Cardinality(ShortSegs)

\* The segments' short packets from the first to the i-th came first, in order.
InOrder(i) == i \in 1 .. Len(shorts) /\ \A j \in 1 .. i : shorts[j] = LastPacket(j)

\* After each of them the sum is that many times what the packet of the first
\* segment lacks, and so is its entry, unless the packet completed the file.
ShortsInv ==
  /\ \A i \in 1 .. Len(shorts) : shorts[i] \in DOMAIN at
  /\ Len(shorts) = 0 => wrist_band_sum = 0
  /\ \A i \in 1 .. NumSegs - 1 : InOrder(i) =>
       LET sum == i * Shortfall(LastPacket(1))
           id == Number(LastPacket(i))
       IN  /\ Len(shorts) = i => wrist_band_sum = sum
           /\ \/ id \in DOMAIN wristband_map /\ wristband_map[id] = sum
              \/ AllPackets \subseteq DOMAIN at

\* The inductive invariant.
Inv == TypeOK /\ MapInv /\ ShortsInv /\ StreamHolds

\* There are no more short packets than segments.
LEMMA ShortSegsBounded ==
  /\ IsFiniteSet(ShortSegs)
  /\ Cardinality(ShortSegs) \in Nat /\ Cardinality(ShortSegs) <= NumSegs
<1>1. NumSegs \in Nat /\ Segs = 1 .. NumSegs
  BY NumberingAssumption DEF Segs
<1>2. IsFiniteSet(Segs) /\ Cardinality(Segs) = NumSegs
  BY <1>1, FS_Interval
<1>3. ShortSegs \in SUBSET Segs
  BY DEF ShortSegs
<1>4. QED
  BY <1>2, <1>3, FS_Subset, FS_CardinalityType

\* The invariant holds before the first packet is written.
LEMMA Initially == Init => Inv
<1> SUFFICES ASSUME Init PROVE Inv
  OBVIOUS
<1>1. TypeOK
  <2>1. DOMAIN at = {} /\ DOMAIN wristband_map = {}
    BY DEF Init
  <2>2. shorts \in Seq(SentPackets)
    BY DEF Init
  <2>3. QED
    BY <2>1, <2>2 DEF Init, TypeOK
<1>2. Payload * Cardinality(ShortSegs) \in Nat
  BY ShortSegsBounded, NumberingAssumption
<1>3. MapInv
  BY <1>2 DEF Init, MapInv
<1>4. StreamHolds
  BY DEF Init, StreamHolds
<1>5. ShortsInv
  <2>1. Len(shorts) = 0 /\ wrist_band_sum = 0
    BY DEF Init
  <2>2. QED
    BY <2>1 DEF ShortsInv, InOrder
<1>6. QED
  BY <1>1, <1>3, <1>4, <1>5 DEF Inv

\* The number of a short packet: behind all full packets of the first segment.
LEMMA ShortNumber ==
  ASSUME file \in FileLengths, PacketCount(SegLength(file, 1)) >= NumSegs,
         NEW q \in SentPackets, Shortfall(q) > 0
  PROVE  Number(q) >= NumSegs - 1
<1> DEFINE s == q[1]
           c == PacketCount(SegLength(file, 1))
<1>1. file \in Nat /\ q \in AllPackets
  BY FileType DEF SentPackets
<1>2. NumSegs \in Nat \ {0} /\ Segs = 1 .. NumSegs /\ 1 \in Segs
  BY NumberingAssumption DEF Segs
<1>3. s \in Segs /\ q = <<s, q[2]>> /\ PacketCount(SegLength(file, s)) \in Nat \ {0}
  BY <1>1, PacketParts
<1>4. q = LastPacket(s)
  BY ShortIsLast
<1>5. q[2] = PacketCount(SegLength(file, s)) - 1
  BY <1>4 DEF LastPacket
<1>6. Number(q) = Offset(file, s) + (PacketCount(SegLength(file, s)) - 1)
  BY <1>5 DEF Number
<1>7. Offset(file, s) \in Nat
  <2>1. s \in 1 .. NumSegs + 1
    BY <1>2, <1>3
  <2>2. QED
    BY <1>1, <2>1, OffsetType
<1>8. c \in Nat
  <2>1. SegLength(file, 1) \in Nat
    BY <1>1, <1>2, SegLengthType
  <2>2. QED
    BY <2>1, PacketCountType
<1> HIDE DEF s
<1>9. CASE s = 1
  BY <1>2, <1>3, <1>6, <1>7, <1>9
<1>10. CASE s # 1
  <2>1. 1 < s
    BY <1>2, <1>3, <1>10
  <2>2. Offset(file, 1) + c <= Offset(file, s)
    BY <1>1, <1>2, <1>3, <2>1, RangesApart
  <2>3. Offset(file, 1) = 0
    BY <1>1, OffsetDef
  <2> HIDE DEF c
  <2>4. Offset(file, s) >= c
    BY <1>7, <1>8, <2>2, <2>3
  <2>5. QED
    BY <1>2, <1>3, <1>6, <1>7, <1>8, <2>4 DEF c
<1>11. QED
  BY <1>9, <1>10

\* What one turn of the writer does, the client's number being the server's.
LEMMA WriteEffect ==
  ASSUME file \in FileLengths, NEW p, WritePacket(p)
  PROVE  /\ file' = file /\ p \in SentPackets /\ p \notin DOMAIN at
         /\ wrist_band_sum' = wrist_band_sum + Shortfall(p)
         /\ \/ wristband_map' = wristband_map
            \/ /\ Shortfall(p) > 0
               /\ wristband_map' = Insert(wristband_map, Number(p), wrist_band_sum')
         /\ Shortfall(p) > 0 /\ packet_total # Expected - 1 =>
              wristband_map' = Insert(wristband_map, Number(p), wrist_band_sum')
         /\ at' = Insert(at, p, Number(p) * Payload
                                - Correction(wristband_map', Number(p)))
         /\ failed' = (failed \/ Number(p) * Payload
                                  - Correction(wristband_map', Number(p)) < 0)
         /\ shorts' = IF Shortfall(p) > 0 THEN Append(shorts, p) ELSE shorts
<1>1. p \in SentPackets /\ p \in AllPackets
  BY DEF WritePacket, SentPackets
<1>2. BytesToInt(ConstIntToBytes(Number(p))) = Number(p)
  BY <1>1, IdIsNumber
<1>3. QED
  BY <1>2 DEF WritePacket

\* What the packets of a file are does not change while the file is written.
LEMMA SameFile ==
  ASSUME file' = file
  PROVE  /\ SentPackets' = SentPackets
         /\ \A s : LastPacket(s)' = LastPacket(s)
         /\ \A q : Shortfall(q)' = Shortfall(q)
         /\ \A q : Number(q)' = Number(q)
<1>1. \A q : Length(q)' = Length(q)
  BY DEF Length
<1>2. AllPackets' = AllPackets
  BY DEF AllPackets
<1>3. QED
  BY <1>1, <1>2 DEF SentPackets, LastPacket, Shortfall, Number

\* The short packets of all segments but the last lack the same.
LEMMA EqualShortfalls ==
  ASSUME file \in FileLengths, NEW s \in Segs, s < NumSegs
  PROVE  Shortfall(LastPacket(s)) = Shortfall(LastPacket(1))
<1>1. SegLength(file, s) = SegLength(file, 1)
  BY FileType, EqualShares
<1>2. QED
  BY <1>1 DEF Shortfall, Length, LastPacket

\* The entries of the map stay what ShortsInv says when a packet is written.
LEMMA ShortsStep ==
  ASSUME Inv, NEW p, WritePacket(p)
  PROVE  ShortsInv'
<1> DEFINE d == Shortfall(LastPacket(1))
           len == Len(shorts)
<1>1. /\ file \in FileLengths /\ wrist_band_sum \in Nat
      /\ DOMAIN at \subseteq SentPackets
      /\ shorts \in Seq(SentPackets) /\ len \in Nat
  BY DEF Inv, TypeOK
<1>2. /\ file' = file /\ p \in SentPackets /\ p \notin DOMAIN at
      /\ wrist_band_sum' = wrist_band_sum + Shortfall(p)
      /\ \/ wristband_map' = wristband_map
         \/ /\ Shortfall(p) > 0
            /\ wristband_map' = Insert(wristband_map, Number(p), wrist_band_sum')
      /\ Shortfall(p) > 0 /\ packet_total # Expected - 1 =>
           wristband_map' = Insert(wristband_map, Number(p), wrist_band_sum')
      /\ DOMAIN at' = DOMAIN at \cup {p}
      /\ shorts' = IF Shortfall(p) > 0 THEN Append(shorts, p) ELSE shorts
  BY <1>1, WriteEffect DEF Insert
<1>3. /\ AllPackets' = AllPackets
      /\ \A s : LastPacket(s)' = LastPacket(s)
      /\ \A q : Shortfall(q)' = Shortfall(q)
      /\ \A q : Number(q)' = Number(q)
  BY <1>2, SameFile DEF AllPackets
<1>4. NumSegs \in Nat \ {0} /\ Segs = 1 .. NumSegs /\ 1 \in Segs
  BY NumberingAssumption DEF Segs
<1>5. Shortfall(p) \in Nat
  BY <1>1, <1>2, ShortIsLast, NumberingAssumption
<1>6. /\ \A i \in 1 .. len : shorts[i] \in DOMAIN at
      /\ len = 0 => wrist_band_sum = 0
      /\ \A i \in 1 .. NumSegs - 1 : InOrder(i) =>
           /\ len = i => wrist_band_sum = i * d
           /\ \/ /\ Number(LastPacket(i)) \in DOMAIN wristband_map
                 /\ wristband_map[Number(LastPacket(i))] = i * d
              \/ AllPackets \subseteq DOMAIN at
  BY DEF Inv, ShortsInv
<1>7. \A k \in DOMAIN wristband_map :
        k \in DOMAIN wristband_map' /\ wristband_map'[k] = wristband_map[k]
  BY <1>2 DEF Insert
<1> SUFFICES /\ \A i \in 1 .. Len(shorts') : shorts'[i] \in DOMAIN at'
             /\ Len(shorts') = 0 => wrist_band_sum' = 0
             /\ \A i \in 1 .. NumSegs - 1 : InOrder(i)' =>
                  /\ Len(shorts') = i => wrist_band_sum' = i * d
                  /\ \/ /\ Number(LastPacket(i)) \in DOMAIN wristband_map'
                        /\ wristband_map'[Number(LastPacket(i))] = i * d
                     \/ AllPackets \subseteq DOMAIN at'
  BY <1>3 DEF ShortsInv
<1> HIDE DEF d
<1>8. CASE ~(Shortfall(p) > 0)
  <2>1. shorts' = shorts /\ wrist_band_sum' = wrist_band_sum
    BY <1>1, <1>2, <1>5, <1>8
  <2>2. \A i : InOrder(i)' <=> InOrder(i)
    BY <1>3, <2>1 DEF InOrder
  <2>3. QED
    BY <1>2, <1>6, <1>7, <2>1, <2>2
<1>9. CASE Shortfall(p) > 0
  <2>1. /\ Len(shorts') = len + 1
        /\ \A i \in 1 .. len : shorts'[i] = shorts[i]
        /\ shorts'[len + 1] = p
    BY <1>1, <1>2, <1>9
  <2>2. \A i \in 1 .. Len(shorts') : shorts'[i] \in DOMAIN at'
    BY <1>1, <1>2, <1>6, <2>1
  <2>3. SUFFICES ASSUME NEW i \in 1 .. NumSegs - 1, InOrder(i)'
                 PROVE  /\ Len(shorts') = i => wrist_band_sum' = i * d
                        /\ \/ /\ Number(LastPacket(i)) \in DOMAIN wristband_map'
                              /\ wristband_map'[Number(LastPacket(i))] = i * d
                           \/ AllPackets \subseteq DOMAIN at'
    BY <1>1, <2>1, <2>2
  <2>4. i \in 1 .. len + 1 /\ \A j \in 1 .. i : shorts'[j] = LastPacket(j)
    BY <1>3, <2>1, <2>3 DEF InOrder
  <2>5. CASE i <= len
    <3>1. InOrder(i)
      BY <1>1, <2>1, <2>4, <2>5 DEF InOrder
    <3>2. QED
      BY <1>1, <1>2, <1>6, <1>7, <2>1, <2>5, <3>1
  <2>6. CASE i = len + 1
    <3>1. p = LastPacket(i)
      BY <2>1, <2>4, <2>6
    <3>2. Shortfall(p) = d
      <4>1. i \in Segs /\ i < NumSegs
        BY <1>4
      <4>2. QED
        BY <1>1, <3>1, <4>1, EqualShortfalls DEF d
    <3>3. wrist_band_sum = len * d
      <4>1. CASE len = 0
        <5>1. 0 * d = 0
          BY <1>5, <3>2
        <5>2. QED
          BY <1>6, <4>1, <5>1
      <4>2. CASE len # 0
        <5>1. InOrder(len)
          BY <1>1, <2>1, <2>4, <2>6, <4>2 DEF InOrder
        <5>2. len \in 1 .. NumSegs - 1
          BY <1>1, <1>4, <2>6, <4>2
        <5>3. QED
          BY <1>6, <5>1, <5>2
      <4>3. QED
        BY <4>1, <4>2
    <3>4. wrist_band_sum' = i * d
      <4>1. (len + 1) * d = len * d + d
        BY <1>1, <1>5, <3>2
      <4>2. QED
        BY <1>2, <2>6, <3>2, <3>3, <4>1
    <3>5. CASE packet_total # Expected - 1
      <4>1. wristband_map' = Insert(wristband_map, Number(p), wrist_band_sum')
        BY <1>2, <1>9, <3>5
      <4>2. Number(p) \notin DOMAIN wristband_map
        <5>1. SUFFICES ASSUME Number(p) \in DOMAIN wristband_map PROVE FALSE
          OBVIOUS
        <5>2. PICK q \in DOMAIN at : Number(p) = Number(q)
          BY <5>1 DEF Inv, MapInv
        <5>3. p \in AllPackets /\ q \in AllPackets
          BY <1>1, <1>2 DEF SentPackets
        <5>4. p = q
          BY <1>1, <5>2, <5>3, NumberInjective
        <5>5. QED
          BY <1>2, <5>4
      <4>3. /\ Number(p) \in DOMAIN wristband_map'
            /\ wristband_map'[Number(p)] = wrist_band_sum'
        BY <4>1, <4>2 DEF Insert
      <4>4. QED
        BY <3>1, <3>4, <4>3
    <3>6. CASE packet_total = Expected - 1
      <4>1. IsFiniteSet(AllPackets) /\ Cardinality(AllPackets) = Expected
        BY <1>1, PacketsCounted
      <4>2. DOMAIN at \in SUBSET AllPackets /\ DOMAIN at' \in SUBSET AllPackets
        BY <1>1, <1>2 DEF SentPackets
      <4>3. IsFiniteSet(DOMAIN at)
        BY <4>1, <4>2, FS_Subset
      <4>4. Cardinality(DOMAIN at') = Cardinality(DOMAIN at) + 1
        BY <1>2, <4>3, FS_AddElement
      <4>5. Expected \in Nat
        BY <4>1, FS_CardinalityType
      <4>6. Cardinality(DOMAIN at') = Cardinality(AllPackets)
        BY <3>6, <4>1, <4>4, <4>5 DEF packet_total
      <4>7. DOMAIN at' = AllPackets
        BY <4>1, <4>2, <4>6, FS_Subset
      <4>8. QED
        BY <3>4, <4>7
    <3>7. QED
      BY <3>5, <3>6
  <2>7. QED
    BY <1>1, <2>4, <2>5, <2>6
<1>10. QED
  BY <1>8, <1>9

\* The invariant is inductive.
LEMMA StepKeepsInv == Inv /\ [Next]_vars => Inv'
<1> SUFFICES ASSUME Inv, [Next]_vars PROVE Inv'
  OBVIOUS
<1>1. CASE UNCHANGED vars
  <2>1. TypeOK'
    BY <1>1 DEF Inv, TypeOK, vars, SentPackets, AllPackets, Length
  <2>2. ShortSegs' = ShortSegs
    BY <1>1, SameFile DEF ShortSegs, vars
  <2>3. MapInv'
    BY <1>1, <2>2, SameFile DEF Inv, MapInv, vars
  <2>4. StreamHolds'
    BY <1>1 DEF Inv, StreamHolds, vars
  <2>5. ShortsInv'
    <3>1. \A i : InOrder(i)' <=> InOrder(i)
      BY <1>1 DEF InOrder, vars, LastPacket
    <3>2. AllPackets' = AllPackets
      BY <1>1 DEF AllPackets, vars
    <3>3. ShortsInv
      BY DEF Inv
    <3>4. QED
      BY <1>1, <3>1, <3>2, <3>3, SameFile DEF ShortsInv, vars
  <2>6. QED
    BY <2>1, <2>3, <2>4, <2>5 DEF Inv
<1>2. ASSUME NEW p, WritePacket(p) PROVE Inv'
  <2> DEFINE index == Number(p) * Payload - Correction(wristband_map', Number(p))
  <2>1. /\ file \in FileLengths /\ wrist_band_sum \in Nat
        /\ DOMAIN at \subseteq SentPackets
        /\ \A q \in DOMAIN at : at[q] \in Int
        /\ \A k \in DOMAIN wristband_map : wristband_map[k] \in Nat
        /\ failed \in BOOLEAN /\ shorts \in Seq(SentPackets)
    BY DEF Inv, TypeOK
  <2>2. /\ file' = file /\ p \in SentPackets /\ p \notin DOMAIN at
        /\ wrist_band_sum' = wrist_band_sum + Shortfall(p)
        /\ \/ wristband_map' = wristband_map
           \/ /\ Shortfall(p) > 0
              /\ wristband_map' = Insert(wristband_map, Number(p), wrist_band_sum')
        /\ at' = Insert(at, p, index)
        /\ failed' = (failed \/ index < 0)
        /\ shorts' = IF Shortfall(p) > 0 THEN Append(shorts, p) ELSE shorts
    BY <1>2, <2>1, WriteEffect
  <2> HIDE DEF index
  <2>3. \A q \in SentPackets : q \in AllPackets
    BY DEF SentPackets
  <2>4. /\ Shortfall(p) \in Nat /\ Shortfall(p) <= Payload
        /\ Shortfall(p) > 0 => p = LastPacket(p[1])
    BY <2>1, <2>2, ShortIsLast, NumberingAssumption
  <2>5. file \in Nat /\ p[1] \in Segs
    BY <2>1, <2>2, <2>3, FileType, PacketParts
  <2>6. \A q \in SentPackets : Number(q) \in Nat
    BY <2>1, <2>3, NumberFits
  <2>7. wrist_band_sum' \in Nat /\ wrist_band_sum <= wrist_band_sum'
    BY <2>1, <2>2, <2>4
  <2>8. /\ SentPackets' = SentPackets
        /\ \A s : LastPacket(s)' = LastPacket(s)
        /\ \A q : Shortfall(q)' = Shortfall(q)
        /\ \A q : Number(q)' = Number(q)
    BY <2>2, SameFile
  <2>9. \A k \in DOMAIN wristband_map' :
          /\ k \in Nat /\ wristband_map'[k] \in Nat
          /\ wristband_map'[k] <= wrist_band_sum'
          /\ \E q \in DOMAIN at' : Shortfall(q) > 0 /\ k = Number(q)
    <3>0. DOMAIN at' = DOMAIN at \cup {p}
      BY <2>2 DEF Insert
    <3>1. \A k \in DOMAIN wristband_map :
            /\ k \in Nat /\ wristband_map[k] \in Nat
            /\ wristband_map[k] <= wrist_band_sum'
            /\ \E q \in DOMAIN at : Shortfall(q) > 0 /\ k = Number(q)
      BY <2>1, <2>6, <2>7 DEF Inv, MapInv
    <3>2. CASE wristband_map' = wristband_map
      BY <3>0, <3>1, <3>2
    <3>3. CASE /\ Shortfall(p) > 0
               /\ wristband_map' = Insert(wristband_map, Number(p), wrist_band_sum')
      <4>1. DOMAIN wristband_map' = DOMAIN wristband_map \cup {Number(p)}
        BY <3>3 DEF Insert
      <4>2. \A k \in DOMAIN wristband_map : wristband_map'[k] = wristband_map[k]
        BY <3>3 DEF Insert
      <4>3. Number(p) \notin DOMAIN wristband_map =>
              wristband_map'[Number(p)] = wrist_band_sum'
        BY <3>3 DEF Insert
      <4>4. Number(p) \in Nat /\ wrist_band_sum' <= wrist_band_sum'
        BY <2>2, <2>6, <2>7
      <4>5. QED
        BY <2>2, <2>7, <3>0, <3>1, <3>3, <4>1, <4>2, <4>3, <4>4
    <3>4. QED
      BY <2>2, <3>2, <3>3
  <2>10. \/ Correction(wristband_map', Number(p)) = 0
         \/ \E k \in DOMAIN wristband_map' :
              k < Number(p) /\ Correction(wristband_map', Number(p)) = wristband_map'[k]
    <3>1. Number(p) \in Nat /\ DOMAIN wristband_map' \in SUBSET Nat
      BY <2>2, <2>6, <2>9
    <3>2. QED
      BY <3>1, CorrectionIsEntry
  <2>11. Correction(wristband_map', Number(p)) \in Nat
    BY <2>9, <2>10
  <2>12. index \in Int
    <3>1. Number(p) * Payload \in Nat
      BY <2>2, <2>6, NumberingAssumption
    <3>2. QED
      BY <2>11, <3>1 DEF index
  <2>13. TypeOK'
    <3>1. DOMAIN at' = DOMAIN at \cup {p} /\ \A q \in DOMAIN at' : at'[q] \in Int
      BY <2>1, <2>2, <2>12 DEF Insert
    <3>2. shorts' \in Seq(SentPackets)
      BY <2>1, <2>2
    <3>3. failed' \in BOOLEAN
      BY <2>1, <2>2
    <3>4. FileLengths' = FileLengths
      BY DEF FileLengths
    <3>5. QED
      BY <2>1, <2>2, <2>7, <2>8, <2>9, <3>1, <3>2, <3>3 DEF TypeOK
  <2>14. wrist_band_sum' <= Payload * Cardinality(ShortSegs')
    <3> DEFINE c == Cardinality(ShortSegs)
    <3>1. IsFiniteSet(ShortSegs) /\ c \in Nat /\ Payload \in Nat
      BY ShortSegsBounded, NumberingAssumption
    <3>2. wrist_band_sum <= Payload * c
      BY DEF Inv, MapInv
    <3>3. DOMAIN at' = DOMAIN at \cup {p}
      BY <2>2 DEF Insert
    <3>4. CASE Shortfall(p) > 0
      <4>1. p[1] \notin ShortSegs
        BY <2>2, <2>4, <3>4 DEF ShortSegs
      <4>2. ShortSegs' = ShortSegs \cup {p[1]}
        <5>1. \A s \in Segs : LastPacket(s) = p => s = p[1]
          BY DEF LastPacket
        <5>2. QED
          BY <2>4, <2>5, <2>8, <3>3, <3>4, <5>1 DEF ShortSegs
      <4>3. Cardinality(ShortSegs') = c + 1
        BY <3>1, <4>1, <4>2, FS_AddElement
      <4> HIDE DEF c
      <4>4. Payload * (c + 1) = Payload * c + Payload /\ Payload * c \in Nat
        BY <3>1
      <4>5. QED
        BY <2>1, <2>2, <2>4, <3>1, <3>2, <4>3, <4>4
    <3>5. CASE ~(Shortfall(p) > 0)
      <4>1. ShortSegs' = ShortSegs
        BY <2>8, <3>3, <3>5 DEF ShortSegs
      <4>2. wrist_band_sum' = wrist_band_sum
        BY <2>1, <2>2, <2>4, <3>5
      <4>3. QED
        BY <3>2, <4>1, <4>2
    <3>6. QED
      BY <3>4, <3>5
  <2>15. MapInv'
    BY <2>8, <2>9, <2>14 DEF MapInv
  <2>16. StreamHolds'
    <3>1. SUFFICES ASSUME PacketCount(SegLength(file, 1)) >= NumSegs
                   PROVE  ~(index < 0)
      BY <2>2 DEF Inv, StreamHolds
    <3>2. NumSegs \in Nat \ {0} /\ Payload \in Nat /\ Number(p) \in Nat
      BY <2>2, <2>6, NumberingAssumption
    <3>3. Number(p) * Payload \in Nat
      BY <3>2
    <3>4. CASE Correction(wristband_map', Number(p)) = 0
      BY <3>3, <3>4 DEF index
    <3>5. CASE \E k \in DOMAIN wristband_map' :
                 /\ k < Number(p)
                 /\ Correction(wristband_map', Number(p)) = wristband_map'[k]
      <4>1. PICK q \in SentPackets : Shortfall(q) > 0 /\ Number(q) < Number(p)
        <5>1. DOMAIN at' \subseteq SentPackets
          BY <2>1, <2>2 DEF Insert
        <5>2. QED
          BY <2>9, <3>5, <5>1
      <4>2. Number(q) >= NumSegs - 1
        BY <2>1, <3>1, <4>1, ShortNumber
      <4>3. Number(p) >= NumSegs
        BY <2>6, <3>2, <4>1, <4>2
      <4>4. Payload * NumSegs <= Payload * Number(p)
        BY <3>2, <4>3, ProductMonotone
      <4>5. Correction(wristband_map', Number(p)) <= wrist_band_sum'
        BY <2>9, <3>5
      <4> DEFINE c == Cardinality(ShortSegs')
      <4>6. c \in Nat /\ c <= NumSegs
        <5>1. IsFiniteSet(Segs) /\ Cardinality(Segs) = NumSegs
          BY <3>2, FS_Interval DEF Segs
        <5>2. ShortSegs' \in SUBSET Segs
          BY DEF ShortSegs
        <5>3. QED
          BY <5>1, <5>2, FS_Subset, FS_CardinalityType
      <4> HIDE DEF c
      <4>7. Payload * c <= Payload * NumSegs
        BY <3>2, <4>6, ProductMonotone
      <4>8. /\ Payload * c \in Nat /\ Payload * NumSegs \in Nat
            /\ Payload * Number(p) = Number(p) * Payload
        BY <3>2, <4>6
      <4>9. Correction(wristband_map', Number(p)) <= Number(p) * Payload
        BY <2>7, <2>11, <2>14, <3>3, <4>4, <4>5, <4>7, <4>8 DEF c
      <4>10. QED
        BY <2>11, <3>3, <4>9 DEF index
    <3>6. QED
      BY <2>10, <3>4, <3>5
  <2>17. ShortsInv'
    BY <1>2, ShortsStep
  <2>18. QED
    BY <2>13, <2>15, <2>16, <2>17 DEF Inv
<1>3. QED
  BY <1>1, <1>2 DEF Next

\* The writer's variables keep their types.
THEOREM TypeCorrect == Spec => []TypeOK
<1>1. Inv => TypeOK
  BY DEF Inv
<1>2. QED
  BY <1>1, Initially, StepKeepsInv, PTL DEF Spec

\* The writer never seeks before the beginning of its file and so never makes
\* its stream fail, in whatever order the packets arrive, if the first segment
\* has a packet for each segment (client.cpp:424).
THEOREM StreamNeverFails == Spec => []StreamHolds
<1>1. Inv => StreamHolds
  BY DEF Inv
<1>2. QED
  BY <1>1, Initially, StepKeepsInv, PTL DEF Spec

\* The number in a header leads the server from an acknowledgement back to the
\* packet: of that segment, and of no other (server.cpp:276).
THEOREM AcksFindTheirPackets == Spec => []AcksComeHome
<1>1. Inv => AcksComeHome
  <2> SUFFICES ASSUME Inv, NEW p \in SentPackets
               PROVE  Route(file, VectorBytesToInt(ConstIntToBytes(Number(p)))) = p
    BY DEF AcksComeHome
  <2>1. file \in FileLengths /\ p \in AllPackets
    BY DEF Inv, TypeOK, SentPackets
  <2>2. VectorBytesToInt(ConstIntToBytes(Number(p))) = Number(p)
    BY <2>1, NumberFits, HeaderRoundTrip
  <2>3. QED
    BY <2>1, <2>2, NumberRoutes
<1>2. QED
  BY <1>1, Initially, StepKeepsInv, PTL DEF Spec

\* The client waits for as many packets as the server sends, and one more for each
\* segment that ends in an empty packet (server.cpp:487).
THEOREM CountMatches == Spec => []CountReached
<1>1. Inv => CountReached
  BY SentCounted DEF Inv, TypeOK, CountReached
<1>2. QED
  BY <1>1, Initially, StepKeepsInv, PTL DEF Spec

\* No byte of the file is lost but those that the headers of the short packets
\* push out: one header for each segment that has one (server.cpp:509).
THEOREM LossIsHeaders == Spec => []LossBounded
<1>1. Inv => LossBounded
  <2>1. Inv => file \in FileLengths
    BY DEF Inv, TypeOK
  <2>2. QED
    BY <2>1, BytesOfAll DEF LossBounded, Sum
<1>2. QED
  BY <1>1, Initially, StepKeepsInv, PTL DEF Spec

-----------------------------------------------------------------------------
\* What ShortsBefore says of the sequence of short packets.
LEMMA ShortsBeforeInOrder ==
  ASSUME NEW p, p[1] \in Segs, p[1] # 1, ShortsBefore(p), shorts \in Seq(SentPackets)
  PROVE  InOrder(p[1] - 1)
<1> DEFINE m == p[1] - 1
           f == [t \in 1 .. m |-> LastPacket(t)]
<1>1. m \in Nat \ {0}
  BY NumberingAssumption DEF Segs
<1> HIDE DEF m
<1>2. Len(f) = m
  BY <1>1
<1>3. m <= Len(shorts) /\ SubSeq(f, 1, m) = SubSeq(shorts, 1, m)
  BY <1>2 DEF ShortsBefore, IsPrefix, m
<1>4. \A j \in 1 .. m : SubSeq(f, 1, m)[j] = LastPacket(j)
  BY <1>1, <1>2
<1>5. \A j \in 1 .. m : SubSeq(shorts, 1, m)[j] = shorts[j]
  BY <1>1, <1>3
<1>6. \A j \in 1 .. m : shorts[j] = LastPacket(j)
  BY <1>3, <1>4, <1>5
<1>7. m \in 1 .. Len(shorts)
  <2>1. Len(shorts) \in Nat
    OBVIOUS
  <2>2. QED
    BY <1>1, <1>3, <2>1
<1>8. InOrder(m)
  BY <1>6, <1>7 DEF InOrder
<1>9. QED
  BY <1>8 DEF m

\* A short packet with a lower number ends an earlier segment.
LEMMA EarlierShort ==
  ASSUME file \in FileLengths, NEW p \in SentPackets, NEW q \in SentPackets,
         Shortfall(q) > 0, Number(q) < Number(p)
  PROVE  q[1] < p[1] /\ q = LastPacket(q[1])
<1>1. file \in Nat /\ p \in AllPackets /\ q \in AllPackets
  BY FileType DEF SentPackets
<1>2. q = LastPacket(q[1])
  BY ShortIsLast
<1> DEFINE s == p[1]
           t == q[1]
           cs == PacketCount(SegLength(file, s))
           ct == PacketCount(SegLength(file, t))
<1>3. /\ s \in Segs /\ p[2] \in 0 .. cs - 1 /\ p[2] \in Nat /\ cs \in Nat
      /\ t \in Segs /\ q[2] \in Nat
  BY <1>1, PacketParts
<1>4. q[2] = ct - 1
  BY <1>2 DEF LastPacket
<1>5. NumSegs \in Nat /\ Segs = 1 .. NumSegs
  BY NumberingAssumption DEF Segs
<1>6. Offset(file, s) \in Nat /\ Offset(file, t) \in Nat
  <2>1. s \in 1 .. NumSegs + 1 /\ t \in 1 .. NumSegs + 1
    BY <1>3, <1>5
  <2>2. QED
    BY <1>1, <2>1, OffsetType
<1>7. Number(p) = Offset(file, s) + p[2] /\ Number(q) = Offset(file, t) + q[2]
  BY DEF Number
<1>8. t = s => ct = cs
  OBVIOUS
<1>9. s < t => Offset(file, s) + cs <= Offset(file, t)
  BY <1>1, <1>3, RangesApart
<1> HIDE DEF cs, ct
<1>10. t # s
  <2> HIDE DEF s, t
  <2>1. QED
    BY <1>3, <1>4, <1>6, <1>7, <1>8
<1>11. ~(s < t)
  <2> HIDE DEF s, t
  <2>1. QED
    BY <1>3, <1>6, <1>7, <1>9
<1>12. QED
  BY <1>2, <1>3, <1>5, <1>10, <1>11

\* The correction of a packet whose segment the short packets of all earlier
\* ones have preceded.
LEMMA CorrectionInOrder ==
  ASSUME Inv, NEW p, WritePacket(p), ShortsBefore(p)
  PROVE  Correction(wristband_map', Number(p))
           = (p[1] - 1) * Shortfall(LastPacket(1))
<1> DEFINE d == Shortfall(LastPacket(1))
           s == p[1]
           keys == {k \in DOMAIN wristband_map' : k < Number(p)}
<1>1. /\ file \in FileLengths /\ file \in Nat
      /\ DOMAIN at \subseteq SentPackets
      /\ shorts \in Seq(SentPackets)
  BY FileType DEF Inv, TypeOK
<1>2. /\ p \in SentPackets /\ p \notin DOMAIN at
      /\ \/ wristband_map' = wristband_map
         \/ wristband_map' = Insert(wristband_map, Number(p), wrist_band_sum')
  BY <1>1, WriteEffect
<1>3. \A q \in SentPackets : q \in AllPackets /\ Number(q) \in Nat
  BY <1>1, NumberFits DEF SentPackets
<1>4. s \in Segs
  BY <1>1, <1>2, <1>3, PacketParts
<1>5. NumSegs \in Nat \ {0} /\ Segs = 1 .. NumSegs /\ 1 \in Segs
  BY NumberingAssumption DEF Segs
<1>6. d \in Int
  <2>1. SegLength(file, 1) \in Nat
    BY <1>1, <1>5, SegLengthType
  <2>2. SegLength(file, 1) - (PacketCount(SegLength(file, 1)) - 1) * Payload \in Int
    <3>1. PacketCount(SegLength(file, 1)) \in Nat
      BY <2>1, PacketCountType
    <3>2. QED
      BY <2>1, <3>1, NumberingAssumption
  <2>3. QED
    BY <2>2, NumberingAssumption
       DEF Shortfall, Length, LastPacket, PacketLength, PacketSize
<1>7. \A k \in keys : k \in DOMAIN wristband_map /\ wristband_map'[k] = wristband_map[k]
  <2>1. \A k \in keys : k # Number(p)
    BY <1>2, <1>3
  <2>2. QED
    BY <1>2, <2>1 DEF Insert
<1>8. \A k \in keys : \E t \in Segs : t < s /\ k = Number(LastPacket(t))
  <2> SUFFICES ASSUME NEW k \in keys
               PROVE  \E t \in Segs : t < s /\ k = Number(LastPacket(t))
    OBVIOUS
  <2>1. PICK q \in DOMAIN at : Shortfall(q) > 0 /\ k = Number(q)
    BY <1>7 DEF Inv, MapInv
  <2>2. q \in SentPackets /\ Number(q) < Number(p)
    BY <1>1, <2>1
  <2>3. q[1] < s /\ q = LastPacket(q[1])
    BY <1>1, <1>2, <2>1, <2>2, EarlierShort
  <2>4. q[1] \in Segs
    BY <1>1, <1>3, <2>2, PacketParts
  <2>5. QED
    BY <2>1, <2>3, <2>4
<1>9. CASE s = 1
  <2>1. keys = {}
    BY <1>5, <1>8, <1>9
  <2>2. Correction(wristband_map', Number(p)) = 0
    BY <2>1 DEF Correction
  <2>3. (1 - 1) * d = 0
    BY <1>6
  <2>4. QED
    BY <1>9, <2>2, <2>3
<1>10. CASE s # 1
  <2> DEFINE m == s - 1
             id == Number(LastPacket(m))
  <2>1. m \in Segs /\ m \in 1 .. NumSegs - 1 /\ m < s /\ \A t \in Segs : t < s => t <= m
    BY <1>4, <1>5, <1>10
  <2>2. InOrder(m)
    BY <1>1, <1>4, <1>10, ShortsBeforeInOrder
  <2> HIDE DEF m
  <2>3. \/ id \in DOMAIN wristband_map /\ wristband_map[id] = m * d
        \/ AllPackets \subseteq DOMAIN at
    BY <2>1, <2>2 DEF Inv, ShortsInv
  <2>4. id \in DOMAIN wristband_map /\ wristband_map[id] = m * d
    BY <1>2, <1>3, <2>3
  <2>5. \A t \in Segs : Number(LastPacket(t)) = Offset(file, t) + (PacketCount(SegLength(file, t)) - 1)
    BY DEF Number, LastPacket
  <2>6. \A t \in Segs : Offset(file, t) \in Nat /\ PacketCount(SegLength(file, t)) \in Nat
    <3> SUFFICES ASSUME NEW t \in Segs
                 PROVE  Offset(file, t) \in Nat /\ PacketCount(SegLength(file, t)) \in Nat
      OBVIOUS
    <3>1. t \in 1 .. NumSegs + 1
      BY <1>5
    <3>2. SegLength(file, t) \in Nat
      BY <1>1, SegLengthType
    <3>3. QED
      BY <1>1, <3>1, <3>2, OffsetType, PacketCountType
  <2>7. id < Number(p)
    <3>1. Offset(file, m) + PacketCount(SegLength(file, m)) <= Offset(file, s)
      BY <1>1, <1>4, <2>1, RangesApart
    <3>2. Number(p) = Offset(file, s) + p[2] /\ p[2] \in Nat
      BY <1>1, <1>2, <1>3, PacketParts DEF Number
    <3>3. id = Offset(file, m) + (PacketCount(SegLength(file, m)) - 1)
      BY <2>1, <2>5
    <3> HIDE DEF id, s
    <3>4. QED
      BY <1>4, <2>1, <2>6, <3>1, <3>2, <3>3
  <2>8. id \in keys
    <3>1. id \in DOMAIN wristband_map'
      BY <1>2, <2>4 DEF Insert
    <3>2. QED
      BY <2>7, <3>1
  <2>9. \A k \in keys : k \in Nat /\ k <= id
    <3> SUFFICES ASSUME NEW k \in keys PROVE k \in Nat /\ k <= id
      OBVIOUS
    <3>1. PICK t \in Segs : t < s /\ k = Number(LastPacket(t))
      BY <1>8
    <3>2. k = Offset(file, t) + (PacketCount(SegLength(file, t)) - 1)
      BY <2>5, <3>1
    <3>3. id = Offset(file, m) + (PacketCount(SegLength(file, m)) - 1)
      BY <2>1, <2>5
    <3>4. PacketCount(SegLength(file, t)) # 0 /\ PacketCount(SegLength(file, m)) # 0
      <4>1. SegLength(file, t) \in Nat /\ SegLength(file, m) \in Nat
        BY <1>1, <2>1, SegLengthType
      <4>2. QED
        BY <4>1, PacketCountType
    <3>5. t # m => Offset(file, t) + PacketCount(SegLength(file, t)) <= Offset(file, m)
      <4>1. t <= m
        BY <2>1, <3>1
      <4>2. t \in Nat /\ m \in Nat
        BY <1>5, <2>1
      <4>3. QED
        BY <1>1, <2>1, <4>1, <4>2, RangesApart
    <3>6. t = m => k = id
      BY <3>1
    <3> HIDE DEF id
    <3>7. QED
      BY <2>1, <2>6, <3>2, <3>3, <3>4, <3>5, <3>6
  <2>10. Max(keys) = id
    <3> HIDE DEF keys, id
    <3>1. \A y \in keys : id >= y /\ y \in Nat
      BY <2>8, <2>9
    <3>2. Max(keys) \in keys /\ \A y \in keys : Max(keys) >= y
      BY <2>8, <3>1 DEF Max
    <3>3. Max(keys) \in Nat /\ id \in Nat /\ id >= Max(keys) /\ Max(keys) >= id
      BY <2>8, <3>1, <3>2
    <3>4. QED
      BY <3>3
  <2>11. Correction(wristband_map', Number(p)) = wristband_map'[Max(keys)]
    BY <2>8 DEF Correction
  <2>12. QED
    BY <1>7, <2>4, <2>8, <2>10, <2>11 DEF m
<1>11. QED
  BY <1>9, <1>10

\* The same of one turn of the writer's loop.
LEMMA PlacedStep ==
  ASSUME Inv, NEW p, WritePacket(p), ShortsBefore(p),
         \A t \in 1 .. p[1] - 1 : ~IsExact(t)
  PROVE  at'[p] = Start(p)
<1> DEFINE s == p[1]
           n == p[2]
           d == Shortfall(LastPacket(1))
           c == PacketCount(SegLength(file, 1))
           B == SegBytes(SegLength(file, 1))
<1>1. file \in FileLengths /\ file \in Nat
  BY FileType DEF Inv, TypeOK
<1>2. /\ p \in SentPackets /\ p \in AllPackets /\ p \notin DOMAIN at
      /\ at' = Insert(at, p, Number(p) * Payload
                             - Correction(wristband_map', Number(p)))
  BY <1>1, WriteEffect DEF SentPackets
<1>3. at'[p] = Number(p) * Payload - Correction(wristband_map', Number(p))
  BY <1>2 DEF Insert
<1>4. at'[p] = Number(p) * Payload - (s - 1) * d
  BY <1>3, CorrectionInOrder
<1>5. Start(p) = (s - 1) * B + n * Payload
  BY <1>1, <1>2, StartOfPacket
<1>6. NumSegs \in Nat \ {0} /\ Segs = 1 .. NumSegs /\ 1 \in Segs /\ Payload \in Nat
  BY NumberingAssumption DEF Segs
<1>7. s \in Segs /\ n \in Nat /\ Number(p) = Offset(file, s) + n
  BY <1>1, <1>2, PacketParts DEF Number
<1>8. SegLength(file, 1) \in Nat /\ c \in Nat \ {0}
  <2>1. SegLength(file, 1) \in Nat
    BY <1>1, <1>6, SegLengthType
  <2>2. QED
    BY <2>1, PacketCountType
<1>9. Offset(file, s) = (s - 1) * c
  <2>1. Offset(file, s) = (s - 1) * PacketCount(file \div NumSegs)
    BY <1>1, <1>7, OffsetIsMultiple
  <2>2. CASE s = 1
    <3>1. (1 - 1) * c = 0
      BY <1>8
    <3>2. Offset(file, 1) = 0
      BY <1>1, OffsetDef
    <3>3. QED
      BY <2>2, <3>1, <3>2
  <2>3. CASE s # 1
    <3>1. 1 < NumSegs
      BY <1>6, <1>7, <2>3
    <3>2. SegLength(file, 1) = file \div NumSegs
      BY <3>1 DEF SegLength
    <3>3. QED
      BY <2>1, <3>2
  <2>4. QED
    BY <2>2, <2>3
<1>10. CASE s = 1
  <2>1. B \in Int
    BY <1>1, <1>6, SegBytesType
  <2>2. d \in Int
    <3>1. (c - 1) * Payload \in Int
      BY <1>6, <1>8
    <3>2. SegLength(file, 1) - (c - 1) * Payload \in Int
      BY <1>8, <3>1
    <3>3. QED
      BY <3>2, NumberingAssumption
         DEF Shortfall, Length, LastPacket, PacketLength, PacketSize
  <2> HIDE DEF B, d, c, n
  <2>3. (1 - 1) * B = 0 /\ (1 - 1) * c = 0 /\ (1 - 1) * d = 0
    BY <1>8, <2>1, <2>2
  <2>4. Number(p) = n
    BY <1>7, <1>9, <1>10, <2>3
  <2>5. n * Payload \in Int
    BY <1>6, <1>7
  <2>6. QED
    BY <1>4, <1>5, <1>10, <2>3, <2>4, <2>5
<1>11. CASE s # 1
  <2>1. 1 \in 1 .. s - 1
    BY <1>6, <1>7, <1>11
  <2>2. Remainder(SegLength(file, 1)) # 0
    BY <2>1 DEF IsExact
  <2> DEFINE l == LastPacket(1)
  <2>3. l[1] = 1 /\ l[2] = c - 1 /\ l = <<1, c - 1>>
    BY DEF LastPacket
  <2>4. l \in AllPackets
    <3>1. c - 1 \in 0 .. c - 1
      BY <1>8
    <3>2. QED
      BY <1>6, <2>3, <3>1 DEF AllPackets
  <2>5. l = LastPacket(l[1])
    BY <2>3
  <2>6. /\ Bytes(l) \in Nat
        /\ (c - 1) * Payload + Bytes(l) = B
        /\ Shortfall(l) + Bytes(l) = Payload
    BY <1>1, <2>2, <2>3, <2>4, <2>5, BytesOfPacket
  <2>7. d \in Int /\ d = Payload - Bytes(l)
    <3>1. Shortfall(l) \in Int
      <4>1. (c - 1) * Payload \in Int
        BY <1>6, <1>8
      <4>2. SegLength(file, 1) - (c - 1) * Payload \in Int
        BY <1>8, <4>1
      <4>3. QED
        BY <4>2, NumberingAssumption
           DEF Shortfall, Length, LastPacket, PacketLength, PacketSize
    <3> HIDE DEF l
    <3>2. QED
      BY <1>6, <2>6, <3>1 DEF l
  <2> HIDE DEF B, d, c, n, l
  <2>8. B = c * Payload - d
    <3>1. (c - 1) * Payload = c * Payload - Payload /\ c * Payload \in Int
      BY <1>6, <1>8
    <3>2. QED
      BY <1>6, <2>6, <2>7, <3>1
  <2> DEFINE r == s - 1
  <2>9. r \in Nat
    BY <1>6, <1>7
  <2> HIDE DEF r
  <2>10. r * B = r * (c * Payload) - r * d
    BY <1>6, <1>8, <2>7, <2>8, <2>9
  <2>11. (r * c + n) * Payload = r * (c * Payload) + n * Payload
    BY <1>6, <1>7, <1>8, <2>9
  <2>12. r * (c * Payload) \in Int /\ n * Payload \in Int /\ r * d \in Int
    BY <1>6, <1>7, <1>8, <2>7, <2>9
  <2>13. at'[p] = (r * c + n) * Payload - r * d
    BY <1>4, <1>7, <1>9 DEF r
  <2>14. Start(p) = r * B + n * Payload
    BY <1>5 DEF r
  <2>15. QED
    BY <2>10, <2>11, <2>12, <2>13, <2>14
<1>12. QED
  BY <1>10, <1>11

\* A payload is put behind the bytes sent of all earlier packets if the short
\* packets of the earlier segments came first, in order, whatever else the network
\* did to the packets (client.cpp:401).
THEOREM PlacedRight == Spec => PlacedAfterShorts
<1> DEFINE Placed ==
      \A p \in DOMAIN at' \ DOMAIN at :
        ShortsBefore(p) /\ (\A t \in 1 .. p[1] - 1 : ~IsExact(t)) => at'[p] = Start(p)
<1>1. Inv /\ [Next]_vars => [Placed]_vars
  <2> SUFFICES ASSUME Inv, NEW w, WritePacket(w)
               PROVE  Placed
    BY DEF Next
  <2>1. DOMAIN at' = DOMAIN at \cup {w}
    BY WriteEffect DEF Inv, TypeOK, Insert
  <2>2. \A p \in DOMAIN at' \ DOMAIN at : p = w
    BY <2>1
  <2>3. QED
    BY PlacedStep, <2>2
<1>2. QED
  BY <1>1, Initially, StepKeepsInv, PTL DEF Spec, PlacedAfterShorts

\* Start, with the operators of MapThenSumSet put in, as an operator of the file.
StartIn(f, p) ==
  LET packets == UNION {{<<s, n>> : n \in 0 .. PacketCount(SegLength(f, s)) - 1}
                        : s \in Segs}
      earlier == {q \in packets : Offset(f, q[1]) + q[2] < Offset(f, p[1]) + p[2]}
  IN  (CHOOSE g :
         g = [s \in SUBSET earlier |->
                IF s = {} THEN 0
                ELSE DataBytes(SegLength(f, Some(s)[1]), Some(s)[2])
                       + g[s \ {Some(s)}]])[earlier]

\* Where payloads belong does not change while the file is written.
LEMMA SameStart ==
  ASSUME file' = file, NEW p
  PROVE  Start(p)' = Start(p)
<1>1. Start(p) = StartIn(file, p)
  BY DEF Start, StartIn, MapThenSumSet, MapThenFoldSet, Some, Bytes, Number, AllPackets
<1>2. Start(p)' = StartIn(file', p)
  BY DEF Start, StartIn, MapThenSumSet, MapThenFoldSet, Some, Bytes, Number, AllPackets
<1>3. QED
  BY <1>1, <1>2

\* The payloads of the first segment are in their places from the first to the
\* last, in whatever order the packets of the file arrive.
FirstInPlace == \A p \in DOMAIN at : p[1] = 1 => at[p] = Start(p)

\* No earlier segment has a short packet that a packet of the first one would
\* have to wait for, and what is written stays where it is (client.cpp:424).
THEOREM FirstSegmentInPlace == Spec => []FirstInPlace
<1>1. Init => FirstInPlace
  BY DEF Init, FirstInPlace
<1>2. Inv /\ FirstInPlace /\ [Next]_vars => FirstInPlace'
  <2> SUFFICES ASSUME Inv, FirstInPlace, [Next]_vars,
                      NEW p \in DOMAIN at', p[1] = 1
               PROVE  at'[p] = Start(p)'
    BY DEF FirstInPlace
  <2>1. CASE UNCHANGED vars
    <3>1. Start(p)' = Start(p) /\ at' = at
      BY <2>1, SameStart DEF vars
    <3>2. QED
      BY <3>1 DEF FirstInPlace
  <2>2. ASSUME NEW w, WritePacket(w) PROVE at'[p] = Start(p)'
    <3>1. file \in FileLengths
      BY DEF Inv, TypeOK
    <3>2. /\ file' = file
          /\ at' = Insert(at, w, Number(w) * Payload
                                 - Correction(wristband_map', Number(w)))
      BY <2>2, <3>1, WriteEffect
    <3>3. Start(p)' = Start(p)
      BY <3>2, SameStart
    <3>4. CASE p \in DOMAIN at
      BY <3>2, <3>3, <3>4 DEF Insert, FirstInPlace
    <3>5. CASE p \notin DOMAIN at
      <4>1. p = w
        BY <3>2, <3>5 DEF Insert
      <4>2. 1 .. p[1] - 1 = {}
        OBVIOUS
      <4>3. ShortsBefore(p)
        <5>1. [t \in 1 .. p[1] - 1 |-> LastPacket(t)] = << >>
          BY <4>2
        <5>2. IsPrefix(<< >>, shorts)
          BY DEF IsPrefix, Inv, TypeOK
        <5>3. QED
          BY <5>1, <5>2 DEF ShortsBefore
      <4>4. QED
        BY <2>2, <3>3, <4>1, <4>2, <4>3, PlacedStep
    <3>6. QED
      BY <3>4, <3>5
  <2>3. QED
    BY <2>1, <2>2 DEF Next
<1>3. QED
  BY <1>1, <1>2, Initially, StepKeepsInv, PTL DEF Spec

-----------------------------------------------------------------------------
\* A packet carries no more of its segment than there is behind those before it.
LEMMA EndWithinSegment ==
  ASSUME file \in FileLengths, NEW p \in AllPackets
  PROVE  /\ p[2] * Payload + Bytes(p) <= SegBytes(SegLength(file, p[1]))
         /\ SegBytes(SegLength(file, p[1])) \in Nat
<1> DEFINE len == SegLength(file, p[1])
           c == PacketCount(len)
           l == LastPacket(p[1])
           B == SegBytes(len)
<1>1. file \in Nat /\ Payload \in Nat \ {0}
  BY FileType, NumberingAssumption
<1>2. /\ p[1] \in Segs /\ p[2] \in 0 .. c - 1 /\ p = <<p[1], p[2]>>
      /\ c \in Nat \ {0} /\ p[2] \in Nat
  BY <1>1, PacketParts
<1>3. l[1] = p[1] /\ l[2] = c - 1 /\ l = <<p[1], c - 1>>
  BY DEF LastPacket
<1>4. l \in AllPackets
  <2>1. c - 1 \in 0 .. c - 1
    BY <1>2
  <2>2. QED
    BY <1>2, <1>3, <2>1 DEF AllPackets
<1>5. l[2] * Payload + Bytes(l) = B /\ Bytes(l) \in Nat
  BY <1>3, <1>4, BytesOfPacket
<1>6. p # l => Bytes(p) = Payload
  BY BytesOfPacket
<1>7. p # l => p[2] + 1 <= c - 1
  BY <1>2, <1>3
<1>8. B \in Nat
  <2>1. (c - 1) * Payload \in Nat
    <3>1. c - 1 \in Nat
      BY <1>2
    <3>2. QED
      BY <1>1, <3>1
  <2> HIDE DEF B, c, l
  <2>2. QED
    BY <1>3, <1>5, <2>1
<1>9. CASE p = l
  <2>1. p[2] * Payload + Bytes(p) = B
    BY <1>5, <1>9
  <2>2. QED
    BY <1>8, <2>1
<1>10. CASE p # l
  <2> DEFINE n == p[2]
  <2> HIDE DEF n, B, c, l, len
  <2>1. Payload * (n + 1) <= Payload * (c - 1)
    <3>1. n + 1 \in Nat /\ c - 1 \in Nat /\ n + 1 <= c - 1
      BY <1>2, <1>7, <1>10 DEF n
    <3>2. QED
      BY <1>1, <3>1, ProductMonotone
  <2>2. /\ Payload * (n + 1) = n * Payload + Payload
        /\ Payload * (c - 1) = (c - 1) * Payload
        /\ n * Payload \in Nat /\ (c - 1) * Payload \in Int
    BY <1>1, <1>2 DEF n
  <2>3. n * Payload + Bytes(p) <= B
    BY <1>1, <1>3, <1>5, <1>6, <1>8, <1>10, <2>1, <2>2
  <2>4. QED
    BY <1>8, <2>3 DEF n, B, len
<1>11. QED
  BY <1>9, <1>10

\* The places where payloads belong do not overlap: a client that puts each in
\* its place overwrites nothing of what another packet has brought.
THEOREM PlacesApart ==
  ASSUME file \in FileLengths, NEW p \in AllPackets, NEW q \in AllPackets,
         Number(p) < Number(q)
  PROVE  Start(p) + Bytes(p) <= Start(q)
<1> DEFINE s == p[1]
           t == q[1]
           n == p[2]
           k == q[2]
           B == SegBytes(SegLength(file, 1))
           cs == PacketCount(SegLength(file, s))
           ct == PacketCount(SegLength(file, t))
<1>1. /\ file \in Nat /\ Payload \in Nat \ {0}
      /\ NumSegs \in Nat \ {0} /\ Segs = 1 .. NumSegs
  BY FileType, NumberingAssumption DEF Segs
<1>2. /\ s \in Segs /\ n \in 0 .. cs - 1 /\ n \in Nat /\ cs \in Nat
      /\ t \in Segs /\ k \in 0 .. ct - 1 /\ k \in Nat /\ ct \in Nat
  BY <1>1, PacketParts
<1>3. Number(p) = Offset(file, s) + n /\ Number(q) = Offset(file, t) + k
  BY DEF Number
<1>4. Offset(file, s) \in Nat /\ Offset(file, t) \in Nat
  <2>1. s \in 1 .. NumSegs + 1 /\ t \in 1 .. NumSegs + 1
    BY <1>1, <1>2
  <2>2. QED
    BY <1>1, <2>1, OffsetType
<1>5. /\ Start(p) = (s - 1) * B + n * Payload
      /\ Start(q) = (t - 1) * B + k * Payload
  BY StartOfPacket
<1>6. Bytes(p) \in Nat /\ (p # LastPacket(s) => Bytes(p) = Payload)
  BY BytesOfPacket
<1>7. B \in Int
  BY <1>1, SegBytesType
<1>8. CASE s = t
  <2>1. cs = ct
    BY <1>8
  <2>2. n < k
    <3> HIDE DEF s, t, n, k, cs, ct
    <3>1. QED
      BY <1>2, <1>3, <1>4, <1>8
  <2>3. n # cs - 1
    <3> HIDE DEF s, t, n, k, cs, ct
    <3>1. QED
      BY <1>2, <2>1, <2>2
  <2>4. Bytes(p) = Payload
    <3>1. LastPacket(s)[2] = cs - 1
      BY DEF LastPacket
    <3>2. QED
      BY <1>6, <2>3, <3>1
  <2> HIDE DEF s, t, n, k, B, cs, ct
  <2>5. Payload * (n + 1) <= Payload * k
    BY <1>1, <1>2, <2>2, ProductMonotone
  <2>6. /\ Payload * (n + 1) = n * Payload + Payload /\ Payload * k = k * Payload
        /\ n * Payload \in Nat /\ k * Payload \in Nat
    BY <1>1, <1>2
  <2>7. (s - 1) * B \in Int /\ (t - 1) * B = (s - 1) * B
    BY <1>1, <1>2, <1>7, <1>8
  <2>8. QED
    BY <1>1, <1>5, <2>4, <2>5, <2>6, <2>7
<1>9. CASE s < t
  <2>1. SegLength(file, s) = SegLength(file, 1)
    BY <1>1, <1>2, <1>9, EqualShares
  <2>2. n * Payload + Bytes(p) <= B /\ B \in Nat
    BY <2>1, EndWithinSegment
  <2> HIDE DEF s, t, n, k, B, cs, ct
  <2>3. B * s <= B * (t - 1)
    <3>1. s \in Nat /\ t - 1 \in Nat /\ s <= t - 1
      BY <1>1, <1>2, <1>9
    <3>2. CASE B = 0
      BY <3>1, <3>2
    <3>3. CASE B # 0
      BY <2>2, <3>1, <3>3, ProductMonotone
    <3>4. QED
      BY <3>2, <3>3
  <2>4. /\ B * s = (s - 1) * B + B /\ B * (t - 1) = (t - 1) * B
        /\ (s - 1) * B \in Int /\ (t - 1) * B \in Int
    BY <1>1, <1>2, <1>7
  <2>5. n * Payload \in Nat /\ k * Payload \in Nat
    BY <1>1, <1>2
  <2>6. QED
    BY <1>5, <1>6, <2>2, <2>3, <2>4, <2>5
<1>10. ~(t < s)
  <2>1. t < s => Offset(file, t) + ct <= Offset(file, s)
    BY <1>1, <1>2, RangesApart
  <2> HIDE DEF s, t, n, k, cs, ct
  <2>2. QED
    BY <1>2, <1>3, <1>4, <2>1
<1>11. QED
  BY <1>1, <1>2, <1>8, <1>9, <1>10
=============================================================================
