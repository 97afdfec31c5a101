---------------------------- MODULE NumberingProof ----------------------------
(***************************************************************************)
(* Proofs about Numbering, for every number of segments, payload, header   *)
(* and byte, and every length of the file: how the numbers of packets      *)
(* travel and how an acknowledgement finds its packet.                     *)
(*                                                                         *)
(* The shifts, the value of a header and main's offsets are recursive      *)
(* functions.  What they compute is proved by the least number for which   *)
(* it would fail (LeastNumber).                                            *)
(***************************************************************************)
EXTENDS Numbering, WellFoundedInduction, TLAPS

-----------------------------------------------------------------------------
\* Every set of natural numbers that is not empty has a least one.
LEMMA LeastNumber ==
  ASSUME NEW T \in SUBSET Nat, T # {}
  PROVE  \E x \in T : \A y \in T : ~(y < x)
<1>1. IsWellFoundedOn(OpToRel(<, Nat), Nat)
  BY NatLessThanWellFounded
<1>2. PICK x \in T : \A y \in T : ~(<<y, x>> \in OpToRel(<, Nat))
  BY <1>1, WFMin
<1>3. QED
  BY <1>2 DEF OpToRel

\* Products are monotone.
LEMMA ProductMonotone ==
  ASSUME NEW d \in Nat, NEW a \in Nat, NEW b \in Nat, a <= b
  PROVE  d * a <= d * b
<1>1. b - a \in Nat /\ b = a + (b - a)
  OBVIOUS
<1>2. d * b = d * a + d * (b - a)
  BY <1>1
<1>3. d * (b - a) \in Nat /\ d * a \in Nat /\ d * b \in Nat
  BY <1>1
<1>4. QED
  BY <1>2, <1>3

\* A sum of products, multiplied out.
LEMMA Distribute ==
  ASSUME NEW d \in Nat, NEW b \in Nat, NEW k \in Nat, NEW r \in Nat
  PROVE  d * (b * k + r) = (b * d) * k + d * r
  OBVIOUS

\* The quotient and the remainder of C's division.
LEMMA Division ==
  ASSUME NEW x \in Nat, NEW d \in Nat \ {0}
  PROVE  /\ x \div d \in Nat /\ x % d \in Nat /\ x % d < d
         /\ x = d * (x \div d) + (x % d)
  OBVIOUS

\* They are the only ones.
LEMMA DivisionUnique ==
  ASSUME NEW d \in Nat \ {0}, NEW q \in Nat, NEW r \in Nat, r < d,
         NEW x \in Nat, x = d * q + r
  PROVE  x \div d = q
<1> DEFINE k == x \div d
<1>1. k \in Nat /\ x % d \in Nat /\ x % d < d /\ x = d * k + (x % d)
  BY Division
<1> HIDE DEF k
<1>2. d * k \in Nat /\ d * q \in Nat
  BY <1>1
<1>3. CASE k < q
  <2>1. d * (k + 1) <= d * q
    BY <1>1, <1>3, ProductMonotone
  <2>2. d * (k + 1) = d * k + d
    BY <1>1
  <2>3. QED
    BY <1>1, <1>2, <2>1, <2>2
<1>4. CASE q < k
  <2>1. d * (q + 1) <= d * k
    BY <1>1, <1>4, ProductMonotone
  <2>2. d * (q + 1) = d * q + d
    OBVIOUS
  <2>3. QED
    BY <1>1, <1>2, <2>1, <2>2
<1>5. QED
  BY <1>1, <1>3, <1>4 DEF k

\* Shifting by one byte more is dividing once more.
LEMMA DivideTwice ==
  ASSUME NEW x \in Nat, NEW b \in Nat \ {0}, NEW d \in Nat \ {0}
  PROVE  x \div (b * d) = (x \div d) \div b
<1> DEFINE q == x \div d
           k == q \div b
           r == d * (q % b) + (x % d)
<1>1. q \in Nat /\ x % d \in Nat /\ x % d < d /\ x = d * q + (x % d)
  BY Division
<1> HIDE DEF q
<1>2. k \in Nat /\ q % b \in Nat /\ q % b < b /\ q = b * k + (q % b)
  BY <1>1, Division
<1>3. q % b <= b - 1 /\ b - 1 \in Nat
  BY <1>2
<1> HIDE DEF k
<1>4. d * (q % b) <= d * (b - 1)
  BY <1>2, <1>3, ProductMonotone
<1>5. d * (b - 1) = b * d - d /\ b * d \in Nat /\ d * (q % b) \in Nat
  BY <1>2
<1>6. r \in Nat /\ r < b * d
  BY <1>1, <1>4, <1>5
<1>7. d * (b * k + (q % b)) = (b * d) * k + d * (q % b)
  BY <1>2, Distribute
<1>8. x = (b * d) * k + r
  BY <1>1, <1>2, <1>7
<1>9. b * d \in Nat \ {0}
  OBVIOUS
<1>10. x \div (b * d) = k
  <2> HIDE DEF r
  <2>1. \A e \in Nat \ {0} : r < e /\ x = e * k + r => x \div e = k
    BY <1>2, <1>6, DivisionUnique
  <2>2. QED
    BY <1>6, <1>8, <1>9, <2>1
<1>11. QED
  BY <1>10 DEF k, q

-----------------------------------------------------------------------------
\* The shifts exist: the functions that define them on 0 .. n do, for each n.
LEMMA ShiftExists ==
  \E f : f = [k \in 0 .. Header |-> IF k = 0 THEN 1 ELSE Base * f[k - 1]]
<1> DEFINE Upto(n) == \E f : f = [k \in 0 .. n |-> IF k = 0 THEN 1 ELSE Base * f[k - 1]]
           T == {n \in Nat : ~Upto(n)}
<1>1. SUFFICES ASSUME T # {} PROVE FALSE
  BY NumberingAssumption
<1>2. PICK n \in T : \A m \in T : ~(m < n)
  BY <1>1, LeastNumber
<1>3. n # 0
  <2>1. [k \in 0 .. 0 |-> 1]
          = [k \in 0 .. 0 |-> IF k = 0 THEN 1
                              ELSE Base * [j \in 0 .. 0 |-> 1][k - 1]]
    OBVIOUS
  <2>2. Upto(0)
    BY <2>1
  <2>3. QED
    BY <2>2
<1>4. n - 1 \in Nat /\ n \in Nat
  BY <1>3
<1>5. PICK f : f = [k \in 0 .. n - 1 |-> IF k = 0 THEN 1 ELSE Base * f[k - 1]]
  <2> HIDE DEF Upto
  <2>1. n - 1 \notin T
    BY <1>2, <1>4
  <2>2. Upto(n - 1)
    BY <1>4, <2>1
  <2>3. QED
    BY <2>2 DEF Upto
<1> DEFINE g == [k \in 0 .. n |-> IF k = 0 THEN 1 ELSE Base * f[k - 1]]
<1>6. g = [k \in 0 .. n |-> IF k = 0 THEN 1 ELSE Base * g[k - 1]]
  <2>1. ASSUME NEW k \in 0 .. n, k # 0
        PROVE  f[k - 1] = g[k - 1]
    <3>1. k - 1 \in 0 .. n - 1 /\ k - 1 \in 0 .. n
      BY <1>4, <2>1
    <3>2. f[k - 1] = IF k - 1 = 0 THEN 1 ELSE Base * f[k - 1 - 1]
      BY <1>5, <3>1
    <3>3. QED
      BY <3>1, <3>2
  <2>2. QED
    BY <2>1
<1>7. Upto(n)
  BY <1>6
<1>8. QED
  BY <1>2, <1>7

\* A shift by no byte changes nothing; one byte more is one factor more.
LEMMA ShiftDef ==
  /\ Shift[0] = 1
  /\ \A k \in 1 .. Header : Shift[k] = Base * Shift[k - 1]
<1>1. Shift = [k \in 0 .. Header |-> IF k = 0 THEN 1 ELSE Base * Shift[k - 1]]
  BY ShiftExists DEF Shift
<1>2. 0 \in 0 .. Header /\ \A k \in 1 .. Header : k \in 0 .. Header /\ k # 0
  BY NumberingAssumption
<1>3. QED
  BY <1>1, <1>2

\* The factors are positive numbers.
LEMMA ShiftPositive == \A k \in 0 .. Header : Shift[k] \in Nat \ {0}
<1> DEFINE T == {k \in 0 .. Header : Shift[k] \notin Nat \ {0}}
<1>1. SUFFICES ASSUME T # {} PROVE FALSE
  OBVIOUS
<1>2. T \in SUBSET Nat
  BY NumberingAssumption
<1>3. PICK k \in T : \A m \in T : ~(m < k)
  BY <1>1, <1>2, LeastNumber
<1>4. k # 0
  BY ShiftDef
<1>5. k \in 1 .. Header /\ k - 1 \in 0 .. Header /\ k - 1 < k
  BY <1>3, <1>4, NumberingAssumption
<1>6. Shift[k - 1] \in Nat \ {0}
  BY <1>3, <1>5
<1>7. \A a, b \in Nat \ {0} : a * b \in Nat \ {0}
  OBVIOUS
<1>8. Shift[k] \in Nat \ {0}
  BY <1>5, <1>6, <1>7, ShiftDef, NumberingAssumption
<1>9. QED
  BY <1>3, <1>8

-----------------------------------------------------------------------------
\* The function by which vector_bytes_to_int reads the header b.
IsOutput(f, b) ==
  f = [i \in 0 .. Header |->
         IF i = 0 THEN 0 ELSE f[i - 1] + b[i] * Shift[Header - i]]

\* What const_int_to_bytes leaves in the first i bytes of a header: the number,
\* but for what a shift by the other bytes drops.
High(x, i) == (x \div Shift[Header - i]) * Shift[Header - i]

\* Reading one byte more restores what one shift less drops.
LEMMA OneByteMore ==
  ASSUME NEW x \in Nat, NEW i \in 1 .. Header
  PROVE  High(x, i) = High(x, i - 1) + ConstIntToBytes(x)[i] * Shift[Header - i]
<1> DEFINE d == Shift[Header - i]
           q == x \div d
<1>1. /\ Header - i \in 0 .. Header /\ Header - (i - 1) \in 1 .. Header
      /\ (Header - (i - 1)) - 1 = Header - i
  BY NumberingAssumption
<1>2. d \in Nat \ {0} /\ Shift[Header - (i - 1)] = Base * d
  BY <1>1, ShiftDef, ShiftPositive
<1>3. Base \in Nat \ {0}
  BY NumberingAssumption
<1> HIDE DEF d
<1>4. q \in Nat
  BY <1>2, Division
<1>5. x \div (Base * d) = q \div Base
  BY <1>2, <1>3, DivideTwice
<1> HIDE DEF q
<1>6. /\ q \div Base \in Nat /\ q % Base \in Nat
      /\ q = Base * (q \div Base) + (q % Base)
  BY <1>3, <1>4, Division
<1>7. q * d = (q \div Base) * (Base * d) + (q % Base) * d
  <2>1. \A k, r \in Nat : d * (Base * k + r) = (Base * d) * k + d * r
    BY <1>2, <1>3, Distribute
  <2>2. d * q = (Base * d) * (q \div Base) + d * (q % Base)
    BY <1>6, <2>1
  <2>3. \A m, n \in Nat : m * n = n * m
    OBVIOUS
  <2>4. Base * d \in Nat
    BY <1>2, <1>3
  <2>5. QED
    BY <1>2, <1>4, <1>6, <2>2, <2>3, <2>4
<1>8. ConstIntToBytes(x)[i] = q % Base
  BY DEF ConstIntToBytes, q, d
<1>9. High(x, i) = q * d
  BY DEF High, q, d
<1>10. High(x, i - 1) = (q \div Base) * (Base * d)
  BY <1>2, <1>5 DEF High
<1>11. QED
  BY <1>7, <1>8, <1>9, <1>10 DEF d

\* A number that fits into a header survives the way through it, whatever the
\* size of a header and of a byte (const_int_to_bytes, vector_bytes_to_int).
THEOREM HeaderRoundTrip ==
  \A x \in 0 .. HeaderRange - 1 : VectorBytesToInt(ConstIntToBytes(x)) = x
<1> SUFFICES ASSUME NEW x \in 0 .. HeaderRange - 1
             PROVE  VectorBytesToInt(ConstIntToBytes(x)) = x
  OBVIOUS
<1> DEFINE b == ConstIntToBytes(x)
           w == [i \in 0 .. Header |-> High(x, i)]
<1>1. HeaderRange \in Nat \ {0} /\ x \in Nat /\ x < HeaderRange
  BY ShiftPositive, NumberingAssumption DEF HeaderRange
<1>2. High(x, 0) = 0
  <2>1. Header - 0 = Header
    BY NumberingAssumption
  <2>2. x \div HeaderRange = 0
    <3>1. x = HeaderRange * 0 + x
      BY <1>1
    <3>2. QED
      BY <1>1, <3>1, DivisionUnique
  <2>3. QED
    BY <1>1, <2>1, <2>2 DEF High, HeaderRange
<1>3. High(x, Header) = x
  <2>1. Header - Header = 0
    BY NumberingAssumption
  <2>2. x \div 1 = x
    BY <1>1
  <2>3. QED
    BY <1>1, <2>1, <2>2, ShiftDef DEF High
<1>4. \A i \in 1 .. Header : High(x, i) = High(x, i - 1) + b[i] * Shift[Header - i]
  BY <1>1, OneByteMore
<1> HIDE DEF b
<1>5. \A i \in 0 .. Header : i # 0 => i \in 1 .. Header /\ i - 1 \in 0 .. Header
  BY NumberingAssumption
<1>6. IsOutput(w, b)
  <2>1. \A i \in 0 .. Header :
          High(x, i) = IF i = 0 THEN 0 ELSE w[i - 1] + b[i] * Shift[Header - i]
    BY <1>2, <1>4, <1>5
  <2>2. QED
    BY <2>1 DEF IsOutput
<1> DEFINE f == CHOOSE g : IsOutput(g, b)
<1>7. VectorBytesToInt(b) = f[Header]
  BY DEF VectorBytesToInt, IsOutput
<1>8. IsOutput(f, b)
  BY <1>6
<1> HIDE DEF f
<1>9. \A i \in 0 .. Header : f[i] = High(x, i)
  <2> DEFINE T == {i \in 0 .. Header : f[i] # High(x, i)}
  <2>1. SUFFICES ASSUME T # {} PROVE FALSE
    OBVIOUS
  <2>2. T \in SUBSET Nat
    BY NumberingAssumption
  <2>3. PICK i \in T : \A m \in T : ~(m < i)
    BY <2>1, <2>2, LeastNumber
  <2>4. f[0] = 0
    BY <1>8, NumberingAssumption DEF IsOutput
  <2>5. i # 0
    BY <1>2, <2>3, <2>4
  <2>6. i \in 1 .. Header /\ i - 1 \in 0 .. Header /\ i - 1 < i
    BY <1>5, <2>3, <2>5
  <2>7. f[i - 1] = High(x, i - 1)
    BY <2>3, <2>6
  <2>8. f[i] = f[i - 1] + b[i] * Shift[Header - i]
    BY <1>8, <2>5, <2>6 DEF IsOutput
  <2>9. QED
    BY <1>4, <2>3, <2>6, <2>7, <2>8
<1>10. f[Header] = x
  BY <1>3, <1>9, NumberingAssumption
<1>11. QED
  BY <1>7, <1>10 DEF b

-----------------------------------------------------------------------------
\* All segments but the last have the same length; that of the last is a natural
\* number too.
LEMMA SegLengthType ==
  ASSUME NEW file \in Nat, NEW s \in Segs
  PROVE  SegLength(file, s) \in Nat
<1> DEFINE share == file \div NumSegs
<1>1. NumSegs \in Nat \ {0} /\ NumSegs - 1 \in Nat
  BY NumberingAssumption
<1>2. share \in Nat /\ file % NumSegs \in Nat /\ file = NumSegs * share + (file % NumSegs)
  BY <1>1, Division
<1> HIDE DEF share
<1>3. share * (NumSegs - 1) = NumSegs * share - share /\ NumSegs * share \in Nat
  BY <1>1, <1>2
<1>4. file - share * (NumSegs - 1) \in Nat
  BY <1>2, <1>3
<1>5. QED
  BY <1>2, <1>4 DEF SegLength, share

\* Every segment has a packet, if only an empty one.
LEMMA PacketCountType ==
  ASSUME NEW len \in Nat
  PROVE  PacketCount(len) \in Nat \ {0}
<1>1. len \div Payload \in Nat
  BY NumberingAssumption, Division
<1>2. QED
  BY <1>1 DEF PacketCount

\* The function by which main adds up its offsets.
IsOffset(f, file) ==
  f = [t \in 1 .. NumSegs + 1 |->
         IF t = 1 THEN 0 ELSE f[t - 1] + PacketCount(SegLength(file, t - 1))]

\* main's offset starts at nothing and grows by the packets of each segment.
LEMMA OffsetDef ==
  ASSUME NEW file \in Nat
  PROVE  /\ Offset(file, 1) = 0
         /\ \A s \in Segs :
              Offset(file, s + 1) = Offset(file, s) + PacketCount(SegLength(file, s))
<1> DEFINE c == PacketCount(file \div NumSegs)
           w == [t \in 1 .. NumSegs + 1 |->
                   IF t <= NumSegs THEN (t - 1) * c
                   ELSE (NumSegs - 1) * c + PacketCount(SegLength(file, NumSegs))]
           f == CHOOSE g : IsOffset(g, file)
<1>1. NumSegs \in Nat \ {0} /\ Segs = 1 .. NumSegs
  BY NumberingAssumption DEF Segs
<1>2. c \in Nat
  BY <1>1, Division, PacketCountType
<1>3. \A s \in Segs : s < NumSegs => PacketCount(SegLength(file, s)) = c
  BY DEF SegLength
<1>4. PacketCount(SegLength(file, NumSegs)) \in Nat
  <2>1. NumSegs \in Segs
    BY <1>1
  <2>2. SegLength(file, NumSegs) \in Nat
    BY <2>1, SegLengthType
  <2>3. QED
    BY <2>2, PacketCountType
<1> HIDE DEF c
<1>5. \A t \in 1 .. NumSegs + 1 :
        w[t] = IF t = 1 THEN 0 ELSE w[t - 1] + PacketCount(SegLength(file, t - 1))
  <2> SUFFICES ASSUME NEW t \in 1 .. NumSegs + 1
               PROVE  w[t] = IF t = 1 THEN 0
                             ELSE w[t - 1] + PacketCount(SegLength(file, t - 1))
    OBVIOUS
  <2>1. CASE t = 1
    <3>1. (1 - 1) * c = 0
      BY <1>2
    <3>2. QED
      BY <1>1, <2>1, <3>1
  <2>2. CASE t # 1 /\ t <= NumSegs
    <3>1. /\ t - 1 \in Segs /\ t - 1 < NumSegs /\ t - 1 \in 1 .. NumSegs + 1
          /\ t \in Nat /\ t - 1 \in Nat /\ t - 2 \in Nat
      BY <1>1, <2>2
    <3>2. w[t] = (t - 1) * c
      BY <2>2
    <3>3. w[t - 1] = (t - 2) * c
      <4>1. t - 1 <= NumSegs /\ (t - 1) - 1 = t - 2
        BY <1>1, <3>1
      <4>2. QED
        BY <3>1, <4>1
    <3>4. (t - 1) * c = (t - 2) * c + c
      BY <1>2, <3>1
    <3>5. QED
      BY <1>3, <2>2, <3>1, <3>2, <3>3, <3>4
  <2>3. CASE t = NumSegs + 1
    <3>1. t # 1 /\ t - 1 = NumSegs /\ NumSegs \in 1 .. NumSegs + 1 /\ ~(t <= NumSegs)
      BY <1>1, <2>3
    <3>2. w[t] = (NumSegs - 1) * c + PacketCount(SegLength(file, NumSegs))
      BY <3>1
    <3>3. w[NumSegs] = (NumSegs - 1) * c
      BY <1>1, <3>1
    <3>4. QED
      BY <3>1, <3>2, <3>3
  <2>4. QED
    BY <1>1, <2>1, <2>2, <2>3
<1>6. IsOffset(w, file)
  BY <1>5 DEF IsOffset
<1>7. IsOffset(f, file)
  BY <1>6
<1>8. \A s : Offset(file, s) = f[s]
  BY DEF Offset, IsOffset
<1> HIDE DEF f
<1>9. \A s \in Segs :
        s + 1 \in 1 .. NumSegs + 1 /\ s + 1 # 1 /\ (s + 1) - 1 = s
  BY <1>1
<1>10. f[1] = 0
  BY <1>1, <1>7 DEF IsOffset
<1>11. \A s \in Segs : f[s + 1] = f[s] + PacketCount(SegLength(file, s))
  BY <1>7, <1>9 DEF IsOffset
<1>12. QED
  BY <1>8, <1>10, <1>11

\* So it is a multiple of the packets of one segment.
LEMMA OffsetIsMultiple ==
  ASSUME NEW file \in Nat, NEW s \in Segs
  PROVE  Offset(file, s) = (s - 1) * PacketCount(file \div NumSegs)
<1> DEFINE c == PacketCount(file \div NumSegs)
           T == {t \in Segs : Offset(file, t) # (t - 1) * c}
<1>1. SUFFICES ASSUME T # {} PROVE FALSE
  OBVIOUS
<1>2. NumSegs \in Nat \ {0} /\ Segs = 1 .. NumSegs
  BY NumberingAssumption DEF Segs
<1>3. c \in Nat
  BY <1>2, Division, PacketCountType
<1>4. \A t \in Segs : t < NumSegs => PacketCount(SegLength(file, t)) = c
  BY DEF SegLength
<1> HIDE DEF c
<1>5. PICK t \in T : \A u \in T : ~(u < t)
  <2>1. T \in SUBSET Nat
    BY <1>2
  <2>2. QED
    BY <1>1, <2>1, LeastNumber
<1>6. t # 1
  <2>1. (1 - 1) * c = 0
    BY <1>3
  <2>2. QED
    BY <1>5, <2>1, OffsetDef
<1>7. /\ t - 1 \in Segs /\ t - 1 < NumSegs /\ t - 1 < t
      /\ t - 2 \in Nat /\ t \in Nat /\ (t - 1) - 1 = t - 2 /\ (t - 1) + 1 = t
  BY <1>2, <1>5, <1>6
<1>8. Offset(file, t - 1) = (t - 2) * c
  BY <1>5, <1>7
<1>9. Offset(file, t) = (t - 2) * c + c
  BY <1>4, <1>7, <1>8, OffsetDef
<1>10. (t - 1) * c = (t - 2) * c + c
  BY <1>3, <1>7
<1>11. QED
  BY <1>5, <1>9, <1>10

\* The ranges of numbers of two segments do not meet: the later one starts where
\* the earlier one has ended, or behind that.
LEMMA RangesApart ==
  ASSUME NEW file \in Nat, NEW s \in Segs, NEW t \in Segs, s < t
  PROVE  Offset(file, s) + PacketCount(SegLength(file, s)) <= Offset(file, t)
<1> DEFINE c == PacketCount(file \div NumSegs)
<1>1. NumSegs \in Nat \ {0} /\ s \in 1 .. NumSegs /\ t \in 1 .. NumSegs
  BY NumberingAssumption DEF Segs
<1>2. c \in Nat
  BY <1>1, Division, PacketCountType
<1>3. PacketCount(SegLength(file, s)) = c
  BY <1>1 DEF SegLength
<1>4. Offset(file, s) = (s - 1) * c /\ Offset(file, t) = (t - 1) * c
  BY OffsetIsMultiple
<1> HIDE DEF c
<1>5. s - 1 \in Nat /\ s \in Nat /\ t - 1 \in Nat /\ s <= t - 1
  BY <1>1
<1>6. c * s <= c * (t - 1)
  BY <1>2, <1>5, ProductMonotone
<1>7. (s - 1) * c + c = c * s /\ c * (t - 1) = (t - 1) * c
  BY <1>2, <1>5
<1>8. QED
  BY <1>3, <1>4, <1>6, <1>7

\* The search of globalPutAcks finds every packet by its number: the segment, and
\* the number within it, at the boundaries as elsewhere (server.cpp:280-289).
THEOREM RouteFinds ==
  \A file \in Nat, s \in Segs :
    \A n \in 0 .. PacketCount(SegLength(file, s)) - 1 :
      Route(file, Offset(file, s) + n) = <<s, n>>
<1> SUFFICES ASSUME NEW file \in Nat, NEW s \in Segs,
                    NEW n \in 0 .. PacketCount(SegLength(file, s)) - 1
             PROVE  Route(file, Offset(file, s) + n) = <<s, n>>
  OBVIOUS
<1> DEFINE ack == Offset(file, s) + n
           hits == {t \in Segs :
                      InBetween(ack, Offset(file, t),
                                Offset(file, t) + PacketCount(SegLength(file, t)))}
<1>1. \A t \in Segs : t \in Nat
  BY NumberingAssumption DEF Segs
<1>2. \A t \in Segs : /\ PacketCount(SegLength(file, t)) \in Nat
                      /\ Offset(file, t) \in Nat
  <2> SUFFICES ASSUME NEW t \in Segs
               PROVE  /\ PacketCount(SegLength(file, t)) \in Nat
                      /\ Offset(file, t) \in Nat
    OBVIOUS
  <2>1. PacketCount(SegLength(file, t)) \in Nat
    BY SegLengthType, PacketCountType
  <2>2. t - 1 \in Nat /\ PacketCount(file \div NumSegs) \in Nat
    <3>1. t - 1 \in Nat /\ file \div NumSegs \in Nat
      BY NumberingAssumption, Division DEF Segs
    <3>2. QED
      BY <3>1, PacketCountType
  <2>3. \A a, b \in Nat : a * b \in Nat
    OBVIOUS
  <2>4. QED
    BY <2>1, <2>2, <2>3, OffsetIsMultiple
<1>3. /\ n \in Nat /\ n < PacketCount(SegLength(file, s))
      /\ ack - Offset(file, s) = n
  BY <1>2
<1>4. s \in hits
  BY <1>2, <1>3 DEF InBetween
<1>5. ASSUME NEW t \in hits PROVE t = s
  <2>1. /\ Offset(file, t) <= ack
        /\ ack < Offset(file, t) + PacketCount(SegLength(file, t))
    BY DEF InBetween
  <2>2. CASE t < s
    BY <1>2, <1>3, <2>1, <2>2, RangesApart
  <2>3. CASE s < t
    BY <1>2, <1>3, <2>1, <2>3, RangesApart
  <2>4. QED
    BY <1>1, <2>2, <2>3
<1>6. (CHOOSE t \in hits : \A u \in hits : t <= u) = s
  BY <1>1, <1>4, <1>5
<1>7. QED
  BY <1>3, <1>4, <1>6 DEF Route
=============================================================================
