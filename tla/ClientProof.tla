----------------------------- MODULE ClientProof -----------------------------
(***************************************************************************)
(* Proofs about Client, for every finite set of packets, every number of   *)
(* packets expected, every batch length and every window.                  *)
(***************************************************************************)
EXTENDS Client, SequenceTheorems, FiniteSetTheorems, TLAPS

\* The places of the acknowledgements in a sequence of lists.
Places(lists) == UNION {{<<b, i>> : i \in DOMAIN lists[b]} : b \in DOMAIN lists}

\* The acknowledgements in these places.
Listed(lists) == {lists[pl[1]][pl[2]] : pl \in Places(lists)}

\* All lists of acknowledgements: the batches made and the one being filled.
Lists == Append(ACK_queue, packet_ID_list)

\* The packet in the processor's hand, and that in the writer's.
HandInv ==
  /\ ppc \in {"process", "store"} => packet \in Packets
  /\ ppc = "store" => packet \notin data_map
  /\ wpc = "write" => wpacket \in Packets

\* No packet waits for the writer twice, or after it has been written.
OnceInv ==
  /\ \A i, j \in DOMAIN packets_for_write :
       packets_for_write[i] = packets_for_write[j] => i = j
  /\ wpc = "write" => wpacket \notin Range(packets_for_write)
  /\ ToWrite \cap written = {}

\* The counter that the three threads' exits look at: the processor counts a
\* packet one step before it stores it, and never counts beyond Expected.
CountInv ==
  /\ num_packets_received = Cardinality(data_map) + (IF ppc = "store" THEN 1 ELSE 0)
  /\ num_packets_received <= Expected
  /\ ppc \in {"poll", "process"} => num_packets_received < Expected
  /\ ppc = "done" => num_packets_received = Expected
  /\ wpc = "done" => packets_for_write = <<>> /\ packet_total = Expected
  /\ rpc = "done" => ppc = "done" /\ wpc = "done"

\* AckedOnce, with its two LETs named, and that the places are finitely many.
ListedInv ==
  /\ IsFiniteSet(Places(Lists))
  /\ Cardinality(Places(Lists)) = num_packets_received
  /\ Listed(Lists) = data_map \cup (IF ppc = "store" THEN {packet} ELSE {})

\* The lists of acknowledgements: a batch is made as soon as it is full, and only
\* the last one may be shorter.
ListInv ==
  /\ Len(ACK_queue) = index + (IF ppc = "done" THEN 1 ELSE 0)
  /\ \A b \in 1 .. index : Len(ACK_queue[b]) = NumAcks
  /\ Len(packet_ID_list) <= NumAcks
  /\ ppc \in {"poll", "process", "final"} => Len(packet_ID_list) < NumAcks
  /\ ppc = "done" => packet_ID_list = <<>>

\* How often each batch has been transmitted: as often as the window allows by
\* now, and AckWindow times once the window has passed it.
RepeatInv ==
  /\ Len(sends) = Len(ACK_queue)
  /\ \A b \in 1 .. index : sends[b] >= AckWindow \/ sends[b] >= index - b + 1
  /\ ppc = "done" => \A b \in 1 .. index + 1 : sends[b] >= AckWindow

\* What has been acknowledged: every batch made, and nothing that the client does
\* not have if the file has exactly the expected packets.
AckedInv ==
  /\ \A b \in DOMAIN ACK_queue : Range(ACK_queue[b]) \subseteq acked
  /\ Expected = Cardinality(Packets) => acked \subseteq data_map

IInv ==
  /\ TypeOK
  /\ HandInv
  /\ WrittenOnce
  /\ OnceInv
  /\ CountInv
  /\ ListedInv
  /\ ListInv
  /\ RepeatInv
  /\ AckedInv

-----------------------------------------------------------------------------
\* A pair is a place of the lists if its first component numbers a list and its
\* second an entry of that list.
LEMMA InPlaces ==
  ASSUME NEW lists, NEW b, NEW i
  PROVE  <<b,
  i>> \in Places(lists) <=> b \in DOMAIN lists /\ i \in DOMAIN lists[b]
  BY DEF Places

\* Every place is such a pair.
LEMMA PlaceIsPair ==
  ASSUME NEW lists, NEW pl \in Places(lists)
  PROVE  \E b \in DOMAIN lists : \E i \in DOMAIN lists[b] : pl = <<b, i>>
  BY DEF Places

\* The end of the list being filled is not a place yet.
LEMMA NewPlace ==
  ASSUME NEW T, NEW q \in Seq(Seq(T)), NEW l \in Seq(T)
  PROVE  <<Len(q) + 1, Len(l) + 1>> \notin Places(Append(q, l))
<1>1. Append(q, l)[Len(q) + 1] = l /\ DOMAIN l = 1 .. Len(l)
  OBVIOUS
<1>2. Len(l) + 1 \notin 1 .. Len(l)
  OBVIOUS
<1>3. QED
  BY <1>1, <1>2, InPlaces

\* Listing one more acknowledgement adds one place, and it to what is listed.
LEMMA ListOneMore ==
  ASSUME NEW T, NEW q \in Seq(Seq(T)), NEW l \in Seq(T), NEW x \in T
  PROVE  /\ Places(Append(q, Append(l, x)))
              = Places(Append(q, l)) \cup {<<Len(q) + 1, Len(l) + 1>>}
         /\ Listed(Append(q, Append(l, x))) = Listed(Append(q, l)) \cup {x}
<1> DEFINE old == Append(q, l)
           new == Append(q, Append(l, x))
           place == <<Len(q) + 1, Len(l) + 1>>
           n == Len(q)
           m == Len(l)
<1>1. n \in Nat /\ m \in Nat
  OBVIOUS
<1>2. /\ DOMAIN old = 1 .. n + 1 /\ DOMAIN new = 1 .. n + 1
      /\ \A b \in 1 .. n : old[b] = q[b] /\ new[b] = q[b]
      /\ old[n + 1] = l /\ new[n + 1] = Append(l, x)
  <2>1. Append(l, x) \in Seq(T)
    OBVIOUS
  <2>2. old \in Seq(Seq(T)) /\ Len(old) = n + 1
    OBVIOUS
  <2>3. new \in Seq(Seq(T)) /\ Len(new) = n + 1
    BY <2>1
  <2>4. QED
    BY <2>1, <2>2, <2>3
<1>3. /\ DOMAIN l = 1 .. m /\ DOMAIN Append(l, x) = 1 .. m + 1
      /\ \A i \in 1 .. m : Append(l, x)[i] = l[i]
      /\ Append(l, x)[m + 1] = x
  OBVIOUS
<1> HIDE DEF old, new, n, m, place
<1>4. ASSUME NEW b, NEW i
      PROVE  /\ <<b, i>> \in Places(new) <=> \/ <<b, i>> \in Places(old)
                                             \/ b = n + 1 /\ i = m + 1
             /\ <<b, i>> \in Places(old) => ~(b = n + 1 /\ i = m + 1)
             /\ <<b, i>> \in Places(old) => new[b][i] = old[b][i]
  <2>1. CASE b \in 1 .. n
    <3>1. b # n + 1 /\ b \in 1 .. n + 1
      BY <1>1, <2>1
    <3>2. new[b] = old[b]
      BY <1>2, <2>1
    <3>3. QED
      BY <1>2, <3>1, <3>2, InPlaces
  <2>2. CASE b = n + 1
    <3>1. b \in 1 .. n + 1
      BY <1>1, <2>2
    <3>2. <<b, i>> \in Places(new) <=> i \in 1 .. m + 1
      BY <1>2, <1>3, <2>2, <3>1, InPlaces
    <3>3. <<b, i>> \in Places(old) <=> i \in 1 .. m
      BY <1>2, <1>3, <2>2, <3>1, InPlaces
    <3>4. i \in 1 .. m => new[b][i] = old[b][i]
      BY <1>2, <1>3, <2>2
    <3>5. i \in 1 .. m + 1 <=> i \in 1 .. m \/ i = m + 1
      BY <1>1
    <3>6. m + 1 \notin 1 .. m
      BY <1>1
    <3>7. QED
      BY <2>2, <3>2, <3>3, <3>4, <3>5, <3>6
  <2>3. CASE b \notin 1 .. n + 1
    <3>1. b # n + 1
      BY <1>1, <2>3
    <3>2. QED
      BY <1>2, <2>3, <3>1, InPlaces
  <2>4. QED
    <3>1. b \in 1 .. n + 1 => b \in 1 .. n \/ b = n + 1
      BY <1>1
    <3>2. QED
      BY <2>1, <2>2, <2>3, <3>1
<1>5. place = <<n + 1, m + 1>>
  BY DEF place, n, m
<1>6. Places(new) = Places(old) \cup {place}
  <2>1. \A pl \in Places(new) : pl \in Places(old) \cup {place}
    BY <1>4, <1>5, PlaceIsPair
  <2>2. \A pl \in Places(old) \cup {place} : pl \in Places(new)
    BY <1>4, <1>5, PlaceIsPair
  <2>3. QED
    BY <2>1, <2>2
<1>7. Listed(new) = Listed(old) \cup {x}
  <2>1. \A pl \in Places(old) : new[pl[1]][pl[2]] = old[pl[1]][pl[2]]
    BY <1>4, PlaceIsPair
  <2>2. new[place[1]][place[2]] = x
    BY <1>2, <1>3, <1>5
  <2>3. QED
    BY <1>6, <2>1, <2>2 DEF Listed
<1>8. QED
  BY <1>6, <1>7 DEF old, new, place, n, m

\* Closing a batch moves no acknowledgement to another place.
LEMMA CloseBatch ==
  ASSUME NEW T, NEW q \in Seq(Seq(T)), NEW l \in Seq(T)
  PROVE  /\ Places(Append(Append(q, l), <<>>)) = Places(Append(q, l))
         /\ Listed(Append(Append(q, l), <<>>)) = Listed(Append(q, l))
<1> DEFINE old == Append(q, l)
           new == Append(old, <<>>)
           n == Len(q)
<1>1. n \in Nat /\ old \in Seq(Seq(T)) /\ Len(old) = n + 1
  OBVIOUS
<1>2. DOMAIN old = 1 .. n + 1
  BY <1>1
<1> HIDE DEF old, n
<1>3. <<>> \in Seq(T)
  OBVIOUS
<1>4. /\ DOMAIN new = 1 .. n + 2
      /\ \A b \in 1 .. n + 1 : new[b] = old[b]
      /\ new[n + 2] = <<>>
  BY <1>1, <1>3
<1> HIDE DEF new
<1>5. ASSUME NEW b, NEW i
      PROVE  /\ <<b, i>> \in Places(new) <=> <<b, i>> \in Places(old)
             /\ <<b, i>> \in Places(old) => new[b][i] = old[b][i]
  <2>1. i \notin DOMAIN <<>>
    OBVIOUS
  <2>2. b \in 1 .. n + 2 <=> b \in 1 .. n + 1 \/ b = n + 2
    BY <1>1
  <2>3. n + 2 \notin 1 .. n + 1
    BY <1>1
  <2>4. <<b, i>> \in Places(new) <=> b \in 1 .. n + 2 /\ i \in DOMAIN new[b]
    BY <1>4, InPlaces
  <2>5. <<b, i>> \in Places(old) <=> b \in 1 .. n + 1 /\ i \in DOMAIN old[b]
    BY <1>2, InPlaces
  <2>6. QED
    BY <1>4, <2>1, <2>2, <2>3, <2>4, <2>5
<1>6. Places(new) = Places(old)
  <2>1. \A pl \in Places(new) : pl \in Places(old)
    BY <1>5, PlaceIsPair
  <2>2. \A pl \in Places(old) : pl \in Places(new)
    BY <1>5, PlaceIsPair
  <2>3. QED
    BY <2>1, <2>2
<1>7. \A pl \in Places(old) : new[pl[1]][pl[2]] = old[pl[1]][pl[2]]
  BY <1>5, PlaceIsPair
<1>8. Listed(new) = Listed(old)
  BY <1>6, <1>7 DEF Listed
<1>9. QED
  BY <1>6, <1>8 DEF old, new

\* ListedInv says what AckedOnce says.
LEMMA ListedIsAckedOnce == ListedInv => AckedOnce
  BY DEF ListedInv, AckedOnce, Lists, Listed, Places

-----------------------------------------------------------------------------
\* The entries of every list are among what is listed.
LEMMA RangeListed ==
  ASSUME NEW lists, NEW b \in DOMAIN lists
  PROVE  Range(lists[b]) \subseteq Listed(lists)
<1> SUFFICES ASSUME NEW i \in DOMAIN lists[b]
             PROVE  lists[b][i] \in Listed(lists)
  BY DEF Range
<1>1. <<b, i>> \in Places(lists)
  BY InPlaces
<1>2. lists[b][i] = lists[<<b, i>>[1]][<<b, i>>[2]]
  OBVIOUS
<1>3. QED
  BY <1>1, <1>2 DEF Listed

\* And nothing else is listed.
LEMMA ListedInRange ==
  ASSUME NEW lists, NEW x \in Listed(lists)
  PROVE  \E b \in DOMAIN lists : x \in Range(lists[b])
<1>1. PICK pl \in Places(lists) : x = lists[pl[1]][pl[2]]
  BY DEF Listed
<1>2. PICK b \in DOMAIN lists : \E i \in DOMAIN lists[b] : pl = <<b, i>>
  BY PlaceIsPair
<1>3. PICK i \in DOMAIN lists[b] : pl = <<b, i>>
  BY <1>2
<1>4. x = lists[b][i]
  BY <1>1, <1>3
<1>5. QED
  BY <1>4 DEF Range

\* The range of a sequence that has grown by one.
LEMMA RangeAppend ==
  ASSUME NEW T, NEW s \in Seq(T), NEW x \in T
  PROVE  Range(Append(s, x)) = Range(s) \cup {x}
<1>1. /\ Len(s) \in Nat
      /\ DOMAIN s = 1 .. Len(s)
      /\ DOMAIN Append(s, x) = 1 .. Len(s) + 1
      /\ \A i \in 1 .. Len(s) : Append(s, x)[i] = s[i]
      /\ Append(s, x)[Len(s) + 1] = x
  OBVIOUS
<1>2. \A i \in 1 .. Len(s) + 1 : i \in 1 .. Len(s) \/ i = Len(s) + 1
  BY <1>1
<1>3. 1 .. Len(s) \subseteq 1 .. Len(s) + 1 /\ Len(s) + 1 \in 1 .. Len(s) + 1
  BY <1>1
<1>4. QED
  BY <1>1, <1>2, <1>3 DEF Range

\* The range of a nonempty sequence, split into its first entry and the others.
LEMMA RangeHeadTail ==
  ASSUME NEW T, NEW s \in Seq(T), s # <<>>
  PROVE  Range(s) = {Head(s)} \cup Range(Tail(s))
<1>1. /\ Len(s) \in Nat \ {0}
      /\ DOMAIN s = 1 .. Len(s)
      /\ Head(s) = s[1]
      /\ DOMAIN Tail(s) = 1 .. Len(s) - 1
      /\ \A i \in 1 .. Len(s) - 1 : Tail(s)[i] = s[i + 1]
  <2>1. Len(s) \in Nat \ {0}
    BY EmptySeq
  <2>2. Tail(s) \in Seq(T) /\ Len(Tail(s)) = Len(s) - 1
        /\ \A i \in 1 .. Len(Tail(s)) : Tail(s)[i] = s[i + 1]
    BY HeadTailProperties
  <2>3. QED
    BY <2>1, <2>2
<1>2. \A i \in 1 .. Len(s) : i = 1 \/ (i - 1 \in 1 .. Len(s) - 1 /\ i = (i - 1) + 1)
  BY <1>1
<1>3. \A i \in 1 .. Len(s) - 1 : i + 1 \in 1 .. Len(s)
  BY <1>1
<1>4. 1 \in 1 .. Len(s)
  BY <1>1
<1>5. Range(s) \subseteq {s[1]} \cup Range(Tail(s))
  <2> SUFFICES ASSUME NEW i \in 1 .. Len(s)
               PROVE  s[i] \in {s[1]} \cup Range(Tail(s))
    BY <1>1 DEF Range
  <2>1. CASE i = 1
    BY <2>1
  <2>2. CASE i # 1
    <3>1. i - 1 \in 1 .. Len(s) - 1 /\ Tail(s)[i - 1] = s[i]
      BY <1>1, <1>2, <2>2
    <3>2. QED
      BY <1>1, <3>1 DEF Range
  <2>3. QED
    BY <2>1, <2>2
<1>6. {s[1]} \cup Range(Tail(s)) \subseteq Range(s)
  BY <1>1, <1>3, <1>4 DEF Range
<1>7. QED
  BY <1>1, <1>5, <1>6

\* What send_ACKs(i) does when it has i + 1 batches: it repeats the batches of the
\* window, the newest among them, and nothing else reaches the server if all
\* batches are full.
LEMMA SendAcksEffect ==
  ASSUME NEW i \in Nat, NEW q \in Seq(Seq(Packets)), Len(q) = i + 1,
         NEW times \in Nat, sends \in Seq(Nat), acked \in SUBSET Packets,
         SendAcks(i, q, times)
  PROVE  /\ sends' \in Seq(Nat) /\ Len(sends') = i + 1
         /\ \A b \in 1 .. i + 1 :
              sends'[b] = (IF b <= Len(sends) THEN sends[b] ELSE 0)
                            + (IF b > i + 1 - AckWindow THEN times ELSE 0)
         /\ acked \subseteq acked' /\ acked' \in SUBSET Packets
         /\ Range(q[i + 1]) \subseteq acked'
         /\ (\A b \in 1 .. i + 1 : Len(q[b]) = NumAcks) =>
              \A x \in acked' : x \in acked \/ \E b \in 1 .. i + 1 : x \in Range(q[b])
<1> DEFINE w == Window(i, i + 1)
           batches == {q[b] : b \in w}
           listed == UNION {Range(b) : b \in batches}
           count(b) == (IF b <= Len(sends) THEN sends[b] ELSE 0)
                         + (IF b \in w THEN times ELSE 0)
<1>1. w \subseteq 1 .. i + 1 /\ i + 1 \in w
      /\ \A b \in 1 .. i + 1 : b \in w <=> b > i + 1 - AckWindow
  BY ClientAssumption DEF Window
<1>2. Len(sends) \in Nat /\ \A b \in 1 .. Len(sends) : sends[b] \in Nat
  OBVIOUS
<1>3. \A b \in 1 .. i + 1 : q[b] \in Seq(Packets)
  OBVIOUS
<1>4. sends' = [b \in 1 .. i + 1 |-> count(b)]
  BY DEF SendAcks
<1>5. PICK garbage \in SUBSET Packets :
        /\ (\A b \in batches : Len(b) = NumAcks) => garbage = {}
        /\ acked' = acked \cup listed \cup garbage
  BY DEF SendAcks
<1> HIDE DEF w
<1>6. \A b \in 1 .. i + 1 : count(b) \in Nat
  BY <1>2
<1>7. \A b \in 1 .. i + 1 :
        sends'[b] = (IF b <= Len(sends) THEN sends[b] ELSE 0)
                      + (IF b > i + 1 - AckWindow THEN times ELSE 0)
  BY <1>1, <1>4
<1>8. sends' \in Seq(Nat) /\ Len(sends') = i + 1
  <2>1. sends' \in [1 .. i + 1 -> Nat]
    BY <1>4, <1>6
  <2>2. sends' \in Seq(Nat)
    BY <2>1, SeqDef
  <2>3. QED
    BY <2>1, <2>2, LenProperties
<1>9. \A x \in listed : \E b \in w : x \in Range(q[b])
  OBVIOUS
<1>10. listed \subseteq Packets
  <2>1. \A b \in 1 .. i + 1 : Range(q[b]) \subseteq Packets
    BY <1>3 DEF Range
  <2>2. QED
    BY <1>1, <1>9, <2>1
<1>11. Range(q[i + 1]) \subseteq listed
  BY <1>1
<1>12. ASSUME \A b \in 1 .. i + 1 : Len(q[b]) = NumAcks
       PROVE  \A x \in acked' : x \in acked \/ \E b \in 1 .. i + 1 : x \in Range(q[b])
  <2>1. garbage = {}
    BY <1>1, <1>5, <1>12
  <2>2. QED
    BY <1>1, <1>5, <1>9, <2>1
<1>13. QED
  BY <1>5, <1>7, <1>8, <1>10, <1>11, <1>12

-----------------------------------------------------------------------------
\* What the client has seen is a finite set.
LEMMA DataMapFinite ==
  ASSUME TypeOK
  PROVE  IsFiniteSet(data_map) /\ Cardinality(data_map) \in Nat
  BY ClientAssumption, FS_Subset, FS_CardinalityType DEF TypeOK

\* The threads start with empty queues and lists.
LEMMA InvariantInit == Init => IInv
<1> SUFFICES ASSUME Init
             PROVE  IInv
  OBVIOUS
<1> USE ClientAssumption DEF Init
<1>1. TypeOK
  BY DEF TypeOK
<1>2. Expected \in Nat \ {0}
  BY FS_CardinalityType
<1>3. HandInv /\ ListInv /\ RepeatInv /\ AckedInv
  BY DEF HandInv, ListInv, RepeatInv, AckedInv
<1>4. ToWrite = {}
  BY DEF ToWrite, Range
<1>5. WrittenOnce
  BY <1>4, FS_EmptySet DEF WrittenOnce
<1>6. OnceInv
  BY <1>4 DEF OnceInv, Range
<1>7. CountInv
  BY <1>2, FS_EmptySet DEF CountInv
<1>8. ListedInv
  <2>1. Places(Lists) = {}
    <3>1. Lists = << <<>> >>
      BY DEF Lists
    <3>2. DOMAIN Lists = {1} /\ Lists[1] = <<>> /\ DOMAIN Lists[1] = {}
      BY <3>1
    <3>3. QED
      BY <3>2 DEF Places
  <2>2. Listed(Lists) = {}
    BY <2>1 DEF Listed
  <2>3. QED
    BY <2>1, <2>2, FS_EmptySet DEF ListedInv
<1>9. QED
  BY <1>1, <1>3, <1>5, <1>6, <1>7, <1>8 DEF IInv

\* The arrival of a datagram and the steps of the receiver.
LEMMA ReceiverStep ==
  ASSUME IInv, Arrival \/ Receiver
  PROVE  IInv'
<1> USE DEF ackVars, writerVars
<1>1. UNCHANGED <<ppc, packet, num_packets_received, data_map, ackVars,
                  packets_for_write, writerVars>>
  BY DEF Arrival, Recieve, Receiver, CheckAll, JoinThreads
<1>2. /\ rpc' \in {"recieve", "check", "join", "done"}
      /\ rpc' = "done" => ppc = "done" /\ wpc = "done"
  BY DEF Arrival, Recieve, Receiver, CheckAll, JoinThreads
<1>3. packet_queue' \in Seq(Packets)
  <2>1. packet_queue \in Seq(Packets)
    BY DEF IInv, TypeOK
  <2>2. CASE Arrival
    <3>1. PICK p \in Packets : packet_queue' = Append(packet_queue, p)
      BY <2>2 DEF Arrival, Recieve
    <3>2. QED
      BY <2>1, <3>1, AppendProperties
  <2>3. CASE Receiver
    BY <2>1, <2>3 DEF Receiver, CheckAll, JoinThreads
  <2>4. QED
    BY <2>2, <2>3
<1>4. TypeOK'
  BY <1>1, <1>2, <1>3 DEF IInv, TypeOK
<1>5. CountInv'
  BY <1>1, <1>2 DEF IInv, CountInv
<1>6. HandInv' /\ ListInv' /\ RepeatInv' /\ AckedInv'
  BY <1>1 DEF IInv, HandInv, ListInv, RepeatInv, AckedInv
<1>7. WrittenOnce' /\ OnceInv'
  BY <1>1 DEF IInv, WrittenOnce, OnceInv, ToWrite
<1>8. ListedInv'
  BY <1>1 DEF IInv, ListedInv, Lists
<1>9. QED
  BY <1>4, <1>5, <1>6, <1>7, <1>8 DEF IInv

\* The processor takes a datagram.
LEMMA TakeDatagramStep ==
  ASSUME IInv, TakeDatagram
  PROVE  IInv'
<1> USE DEF ackVars, writerVars, TakeDatagram
<1>1. Head(packet_queue) \in Packets /\ Tail(packet_queue) \in Seq(Packets)
  BY HeadTailProperties DEF IInv, TypeOK
<1>2. TypeOK'
  BY <1>1 DEF IInv, TypeOK
<1>3. CountInv'
  BY DEF IInv, CountInv
<1>4. HandInv' /\ ListInv' /\ RepeatInv' /\ AckedInv'
  BY <1>1 DEF IInv, HandInv, ListInv, RepeatInv, AckedInv
<1>5. WrittenOnce' /\ OnceInv'
  BY DEF IInv, WrittenOnce, OnceInv, ToWrite
<1>6. ListedInv'
  BY DEF IInv, ListedInv, Lists
<1>7. QED
  BY <1>2, <1>3, <1>4, <1>5, <1>6 DEF IInv

\* The processor drops a duplicate, or counts a new packet and lists it.
LEMMA ProcessPacketStep ==
  ASSUME IInv, ProcessPacket
  PROVE  IInv'
<1> USE DEF receiverVars, writerVars
<1>1. packet \in Packets /\ ppc = "process" /\ packet_ID_list \in Seq(Packets)
      /\ Len(packet_ID_list) < NumAcks
  BY DEF IInv, HandInv, ListInv, TypeOK, ProcessPacket
<1>2. UNCHANGED <<receiverVars, data_map, ACK_queue, index, sends, acked,
                  packets_for_write, writerVars>>
  BY DEF ProcessPacket
<1>3. WrittenOnce' /\ OnceInv' /\ AckedInv'
  BY <1>2 DEF IInv, WrittenOnce, OnceInv, ToWrite, AckedInv
<1>4. CASE packet \in data_map
  <2>1. /\ ppc' = "batch" /\ packet' = NoPacket
        /\ UNCHANGED <<num_packets_received, packet_ID_list>>
    BY <1>4 DEF ProcessPacket
  <2>2. TypeOK'
    BY <1>2, <2>1 DEF IInv, TypeOK
  <2>3. CountInv' /\ HandInv'
    BY <1>1, <1>2, <2>1 DEF IInv, CountInv, HandInv
  <2>4. ListInv' /\ RepeatInv'
    BY <1>1, <1>2, <2>1 DEF IInv, ListInv, RepeatInv
  <2>5. ListedInv'
    BY <1>1, <1>2, <2>1 DEF IInv, ListedInv, Lists
  <2>6. QED
    BY <1>3, <2>2, <2>3, <2>4, <2>5 DEF IInv
<1>5. CASE packet \notin data_map
  <2>1. /\ ppc' = "store" /\ packet' = packet
        /\ num_packets_received' = num_packets_received + 1
        /\ packet_ID_list' = Append(packet_ID_list, packet)
    BY <1>5 DEF ProcessPacket
  <2>2. /\ packet_ID_list' \in Seq(Packets)
        /\ Len(packet_ID_list') = Len(packet_ID_list) + 1
    BY <1>1, <2>1, AppendProperties
  <2>3. num_packets_received \in Nat
    BY DEF IInv, TypeOK
  <2>4. TypeOK'
    BY <1>2, <2>1, <2>2 DEF IInv, TypeOK
  <2>5. HandInv'
    BY <1>1, <1>2, <1>5, <2>1 DEF IInv, HandInv
  <2>6. CountInv'
    <3>1. Cardinality(data_map) \in Nat
      BY DataMapFinite DEF IInv
    <3>2. Expected \in Nat
      BY ClientAssumption, FS_CardinalityType
    <3>3. /\ num_packets_received = Cardinality(data_map)
          /\ num_packets_received < Expected
          /\ wpc = "done" => packets_for_write = <<>> /\ packet_total = Expected
          /\ rpc # "done"
      BY <1>1, <3>1 DEF IInv, CountInv
    <3>4. QED
      BY <1>2, <2>1, <2>3, <3>2, <3>3 DEF CountInv
  <2>7. ListInv'
    <3>1. NumAcks \in Nat /\ Len(packet_ID_list) \in Nat
      BY <1>1, ClientAssumption
    <3>2. Len(packet_ID_list') <= NumAcks
      BY <1>1, <2>2, <3>1
    <3>3. QED
      BY <1>1, <1>2, <2>1, <3>2 DEF IInv, ListInv
  <2>8. RepeatInv'
    BY <1>1, <1>2, <2>1 DEF IInv, RepeatInv
  <2>9. ListedInv'
    <3> DEFINE place == <<Len(ACK_queue) + 1, Len(packet_ID_list) + 1>>
    <3>1. ACK_queue \in Seq(Seq(Packets))
      BY DEF IInv, TypeOK
    <3>2. /\ Places(Append(ACK_queue, Append(packet_ID_list, packet)))
               = Places(Append(ACK_queue, packet_ID_list)) \cup {place}
          /\ place \notin Places(Append(ACK_queue, packet_ID_list))
          /\ Listed(Append(ACK_queue, Append(packet_ID_list, packet)))
               = Listed(Append(ACK_queue, packet_ID_list)) \cup {packet}
      <4>1. packet \in Packets /\ packet_ID_list \in Seq(Packets)
        BY <1>1
      <4>2. QED
        BY <3>1, <4>1, ListOneMore, NewPlace
    <3>3. Lists' = Append(ACK_queue, Append(packet_ID_list, packet))
      BY <1>2, <2>1 DEF Lists
    <3>4. Places(Lists') = Places(Lists) \cup {place} /\ place \notin Places(Lists)
      BY <3>2, <3>3 DEF Lists
    <3>5. Listed(Lists') = Listed(Lists) \cup {packet}
      BY <3>2, <3>3 DEF Lists
    <3>6. /\ IsFiniteSet(Places(Lists))
          /\ Cardinality(Places(Lists)) = num_packets_received
          /\ Listed(Lists) = data_map
      BY <1>1 DEF IInv, ListedInv
    <3>7. IsFiniteSet(Places(Lists'))
          /\ Cardinality(Places(Lists')) = num_packets_received + 1
      BY <3>4, <3>6, FS_AddElement
    <3>8. Listed(Lists') = data_map' \cup {packet'}
      BY <1>2, <2>1, <3>5, <3>6
    <3>9. /\ Places(Lists)' = Places(Lists')
          /\ Listed(Lists)' = Listed(Lists')
      BY DEF Places, Listed
    <3>10. QED
      BY <2>1, <3>7, <3>8, <3>9 DEF ListedInv
  <2>10. QED
    BY <1>3, <2>4, <2>5, <2>6, <2>7, <2>8, <2>9 DEF IInv
<1>6. QED
  BY <1>4, <1>5

\* The processor stores a new packet and hands it to the writer.
LEMMA StorePacketStep ==
  ASSUME IInv, StorePacket
  PROVE  IInv'
<1> USE DEF receiverVars, ackVars, writerVars
<1>1. /\ ppc = "store" /\ ppc' = "batch" /\ packet' = NoPacket
      /\ data_map' = data_map \cup {packet}
      /\ packets_for_write' = Append(packets_for_write, packet)
      /\ UNCHANGED <<receiverVars, num_packets_received, ackVars, writerVars>>
  BY DEF StorePacket, HandedOver, Seen
<1>2. packet \in Packets /\ packet \notin data_map
      /\ packets_for_write \in Seq(Packets)
  BY <1>1 DEF IInv, HandInv, TypeOK
<1>3. /\ packets_for_write' \in Seq(Packets)
      /\ Len(packets_for_write') = Len(packets_for_write) + 1
  BY <1>1, <1>2, AppendProperties
<1>4. TypeOK'
  BY <1>1, <1>2, <1>3 DEF IInv, TypeOK
<1>5. HandInv' /\ ListInv' /\ RepeatInv'
  BY <1>1 DEF IInv, HandInv, ListInv, RepeatInv
<1>6. /\ IsFiniteSet(data_map) /\ Cardinality(data_map) \in Nat
      /\ Cardinality(data_map') = Cardinality(data_map) + 1
  BY <1>1, <1>2, DataMapFinite, FS_AddElement DEF IInv
<1>7. ToWrite' = ToWrite \cup {packet}
  <2>1. Range(packets_for_write') = Range(packets_for_write) \cup {packet}
    BY <1>1, <1>2, RangeAppend
  <2>2. Range(packets_for_write)' = Range(packets_for_write')
    BY DEF Range
  <2>3. QED
    BY <1>1, <2>1, <2>2 DEF ToWrite
<1>8. WrittenOnce'
  <2>1. data_map = ToWrite \cup written
    BY DEF IInv, WrittenOnce
  <2>2. data_map' = ToWrite' \cup written'
    BY <1>1, <1>7, <2>1
  <2>3. Cardinality(data_map)
          = Len(packets_for_write) + (IF wpc = "write" THEN 1 ELSE 0) + packet_total
    BY DEF IInv, WrittenOnce
  <2>4. Len(packets_for_write) \in Nat /\ packet_total \in Nat
    BY <1>2 DEF IInv, TypeOK
  <2>5. Cardinality(data_map')
          = Len(packets_for_write') + (IF wpc' = "write" THEN 1 ELSE 0)
              + packet_total'
    BY <1>1, <1>3, <1>6, <2>3, <2>4
  <2>6. QED
    BY <2>2, <2>5 DEF WrittenOnce
<1>9. OnceInv'
  <2>1. packet \notin ToWrite /\ packet \notin written
    BY <1>2 DEF IInv, WrittenOnce
  <2>2. packet \notin Range(packets_for_write) /\ (wpc = "write" => packet # wpacket)
    BY <2>1 DEF ToWrite
  <2>3. \A i \in 1 .. Len(packets_for_write) : packets_for_write[i] # packet
    BY <1>2, <2>2 DEF Range
  <2>4. /\ \A i \in 1 .. Len(packets_for_write) :
             packets_for_write'[i] = packets_for_write[i]
        /\ packets_for_write'[Len(packets_for_write) + 1] = packet
    BY <1>1, <1>2, AppendProperties
  <2>5. \A i, j \in 1 .. Len(packets_for_write) :
          packets_for_write[i] = packets_for_write[j] => i = j
    BY <1>2 DEF IInv, OnceInv
  <2>6. \A i, j \in 1 .. Len(packets_for_write) + 1 :
          packets_for_write'[i] = packets_for_write'[j] => i = j
    <3>1. \A i \in 1 .. Len(packets_for_write) + 1 :
            i \in 1 .. Len(packets_for_write) \/ i = Len(packets_for_write) + 1
      BY <1>2
    <3>2. QED
      BY <2>3, <2>4, <2>5, <3>1
  <2>7. DOMAIN packets_for_write' = 1 .. Len(packets_for_write) + 1
    BY <1>3
  <2>8. wpc' = "write" => wpacket' \notin Range(packets_for_write)'
    <3>1. Range(packets_for_write)' = Range(packets_for_write) \cup {packet}
      <4>1. Range(packets_for_write') = Range(packets_for_write) \cup {packet}
        BY <1>1, <1>2, RangeAppend
      <4>2. QED
        BY <4>1 DEF Range
    <3>2. QED
      BY <1>1, <2>2, <3>1 DEF IInv, OnceInv
  <2>9. ToWrite' \cap written' = {}
    BY <1>1, <1>7, <2>1 DEF IInv, OnceInv
  <2>10. QED
    BY <2>6, <2>7, <2>8, <2>9 DEF OnceInv
<1>10. CountInv'
  <2>1. /\ num_packets_received = Cardinality(data_map) + 1
        /\ num_packets_received <= Expected
        /\ rpc # "done"
    BY <1>1 DEF IInv, CountInv
  <2>2. wpc # "done"
    <3>1. wpc = "done" => Cardinality(data_map) = Expected
      <4>1. wpc = "done" => packets_for_write = <<>> /\ packet_total = Expected
        BY DEF IInv, CountInv
      <4>2. Len(<<>>) = 0 /\ Expected \in Nat
        BY ClientAssumption, FS_CardinalityType
      <4>3. QED
        BY <4>1, <4>2 DEF IInv, WrittenOnce
    <3>2. QED
      BY <1>6, <2>1, <3>1
  <2>3. QED
    BY <1>1, <1>6, <2>1, <2>2 DEF CountInv
<1>11. ListedInv'
  <2>1. Lists' = Lists
    BY <1>1 DEF Lists
  <2>2. /\ IsFiniteSet(Places(Lists))
        /\ Cardinality(Places(Lists)) = num_packets_received
        /\ Listed(Lists) = data_map \cup {packet}
    BY <1>1 DEF IInv, ListedInv
  <2>3. Places(Lists)' = Places(Lists) /\ Listed(Lists)' = Listed(Lists)
    BY <2>1 DEF Places, Listed
  <2>4. QED
    BY <1>1, <2>2, <2>3 DEF ListedInv
<1>12. AckedInv'
  BY <1>1 DEF IInv, AckedInv
<1>13. QED
  BY <1>4, <1>5, <1>8, <1>9, <1>10, <1>11, <1>12 DEF IInv

-----------------------------------------------------------------------------
\* What the making of a batch and its transmission, repeated `times' times, do to
\* the lists, to the count of transmissions and to what is acknowledged.
LEMMA MakeBatch ==
  ASSUME IInv, ppc \in {"batch", "final"}, NEW times \in Nat,
         CreateAckPacket, SendAcks(index, ACK_queue', times)
  PROVE  /\ packet_ID_list' = <<>>
         /\ ACK_queue' \in Seq(Seq(Packets)) /\ Len(ACK_queue') = index + 1
         /\ \A b \in 1 .. index : ACK_queue'[b] = ACK_queue[b]
         /\ ACK_queue'[index + 1] = packet_ID_list
         /\ sends' \in Seq(Nat) /\ Len(sends') = index + 1
         /\ \A b \in 1 .. index :
              sends'[b] = sends[b] + (IF b > index + 1 - AckWindow THEN times ELSE 0)
         /\ sends'[index + 1] = times
         /\ acked' \in SUBSET Packets
         /\ \A b \in 1 .. index + 1 : Range(ACK_queue'[b]) \subseteq acked'
         /\ Len(packet_ID_list) = NumAcks /\ Expected = Cardinality(Packets) =>
              acked' \subseteq data_map
         /\ Places(Lists)' = Places(Lists) /\ Listed(Lists)' = Listed(Lists)
<1> USE ClientAssumption
<1>1. /\ ACK_queue \in Seq(Seq(Packets)) /\ packet_ID_list \in Seq(Packets)
      /\ index \in Nat /\ Len(ACK_queue) = index
      /\ sends \in Seq(Nat) /\ Len(sends) = index
      /\ acked \in SUBSET Packets
  BY DEF IInv, TypeOK, ListInv, RepeatInv
<1>2. ACK_queue' = Append(ACK_queue, packet_ID_list) /\ packet_ID_list' = <<>>
  BY DEF CreateAckPacket
<1>3. /\ ACK_queue' \in Seq(Seq(Packets)) /\ Len(ACK_queue') = index + 1
      /\ \A b \in 1 .. index : ACK_queue'[b] = ACK_queue[b]
      /\ ACK_queue'[index + 1] = packet_ID_list
  BY <1>1, <1>2, AppendProperties
<1>4. /\ sends' \in Seq(Nat) /\ Len(sends') = index + 1
      /\ \A b \in 1 .. index + 1 :
           sends'[b] = (IF b <= Len(sends) THEN sends[b] ELSE 0)
                         + (IF b > index + 1 - AckWindow THEN times ELSE 0)
      /\ acked \subseteq acked' /\ acked' \in SUBSET Packets
      /\ Range(ACK_queue'[index + 1]) \subseteq acked'
      /\ (\A b \in 1 .. index + 1 : Len(ACK_queue'[b]) = NumAcks) =>
           \A x \in acked' :
             x \in acked \/ \E b \in 1 .. index + 1 : x \in Range(ACK_queue'[b])
  BY <1>1, <1>3, SendAcksEffect
<1>5. /\ \A b \in 1 .. index :
           sends'[b] = sends[b] + (IF b > index + 1 - AckWindow THEN times ELSE 0)
      /\ sends'[index + 1] = times
  BY <1>1, <1>4
<1>6. \A b \in 1 .. index + 1 : b \in 1 .. index \/ b = index + 1
  BY <1>1
<1>7. \A b \in 1 .. index + 1 : Range(ACK_queue'[b]) \subseteq acked'
  <2>1. \A b \in 1 .. index : Range(ACK_queue[b]) \subseteq acked
    <3>1. DOMAIN ACK_queue = 1 .. index
      BY <1>1
    <3>2. QED
      BY <3>1 DEF IInv, AckedInv
  <2>2. \A b \in 1 .. index : Range(ACK_queue'[b]) \subseteq acked'
    BY <1>3, <1>4, <2>1
  <2>3. QED
    BY <1>4, <1>6, <2>2
<1>8. ASSUME Len(packet_ID_list) = NumAcks, Expected = Cardinality(Packets)
      PROVE  acked' \subseteq data_map
  <2>1. \A b \in 1 .. index + 1 : Len(ACK_queue'[b]) = NumAcks
    BY <1>3, <1>6, <1>8 DEF IInv, ListInv
  <2>2. Lists = ACK_queue' /\ DOMAIN Lists = 1 .. index + 1
    BY <1>2, <1>3 DEF Lists
  <2>3. \A b \in 1 .. index + 1 : Range(ACK_queue'[b]) \subseteq Listed(Lists)
    BY <2>2, RangeListed
  <2>4. Listed(Lists) = data_map
    BY DEF IInv, ListedInv
  <2>5. acked \subseteq data_map
    BY <1>8 DEF IInv, AckedInv
  <2>6. QED
    BY <1>4, <2>1, <2>3, <2>4, <2>5
<1>9. Places(Lists)' = Places(Lists) /\ Listed(Lists)' = Listed(Lists)
  <2>1. Lists' = Append(Append(ACK_queue, packet_ID_list), <<>>)
    BY <1>2 DEF Lists
  <2>2. Places(Lists') = Places(Lists) /\ Listed(Lists') = Listed(Lists)
    BY <1>1, <2>1, CloseBatch DEF Lists
  <2>3. Places(Lists)' = Places(Lists') /\ Listed(Lists)' = Listed(Lists')
    BY DEF Places, Listed
  <2>4. QED
    BY <2>2, <2>3
<1>10. QED
  BY <1>2, <1>3, <1>4, <1>5, <1>7, <1>8, <1>9

\* The processor makes a batch of acknowledgements when one is full.
LEMMA AckBatchStep ==
  ASSUME IInv, AckBatch
  PROVE  IInv'
<1> USE ClientAssumption DEF receiverVars, writerVars
<1>1. /\ ppc = "batch" /\ ppc' = "final"
      /\ UNCHANGED <<receiverVars, packet, num_packets_received, data_map,
                     packets_for_write, writerVars>>
  BY DEF AckBatch, BatchFull
<1>2. WrittenOnce' /\ OnceInv'
  BY <1>1 DEF IInv, WrittenOnce, OnceInv, ToWrite
<1>3. HandInv' /\ CountInv'
  BY <1>1 DEF IInv, HandInv, CountInv
<1>4. /\ Len(packet_ID_list) \in Nat /\ Len(packet_ID_list) <= NumAcks
      /\ index \in Nat /\ Len(ACK_queue) = index /\ Len(sends) = index
  BY <1>1 DEF IInv, TypeOK, ListInv, RepeatInv
<1>5. CASE Len(packet_ID_list) >= NumAcks
  <2>1. CreateAckPacket /\ SendAcks(index, ACK_queue', 1) /\ index' = index + 1
    BY <1>5 DEF AckBatch, BatchFull
  <2>2. Len(packet_ID_list) = NumAcks
    BY <1>4, <1>5
  <2>3. /\ packet_ID_list' = <<>>
        /\ ACK_queue' \in Seq(Seq(Packets)) /\ Len(ACK_queue') = index + 1
        /\ \A b \in 1 .. index : ACK_queue'[b] = ACK_queue[b]
        /\ ACK_queue'[index + 1] = packet_ID_list
        /\ sends' \in Seq(Nat) /\ Len(sends') = index + 1
        /\ \A b \in 1 .. index :
             sends'[b] = sends[b] + (IF b > index + 1 - AckWindow THEN 1 ELSE 0)
        /\ sends'[index + 1] = 1
        /\ acked' \in SUBSET Packets
        /\ \A b \in 1 .. index + 1 : Range(ACK_queue'[b]) \subseteq acked'
        /\ Len(packet_ID_list) = NumAcks /\ Expected = Cardinality(Packets) =>
             acked' \subseteq data_map
        /\ Places(Lists)' = Places(Lists) /\ Listed(Lists)' = Listed(Lists)
    <3>1. 1 \in Nat /\ ppc \in {"batch", "final"}
      BY <1>1
    <3>2. QED
      BY <2>1, <3>1, MakeBatch
  <2>4. TypeOK'
    BY <1>1, <1>4, <2>1, <2>3 DEF IInv, TypeOK
  <2>5. \A b \in 1 .. index + 1 : b \in 1 .. index \/ b = index + 1
    BY <1>4
  <2>6. ListInv'
    <3>1. \A b \in 1 .. index : Len(ACK_queue[b]) = NumAcks
      BY DEF IInv, ListInv
    <3>2. \A b \in 1 .. index + 1 : Len(ACK_queue'[b]) = NumAcks
      BY <2>2, <2>3, <2>5, <3>1
    <3>3. Len(packet_ID_list') = 0 /\ 0 < NumAcks
      BY <2>3
    <3>4. QED
      BY <1>1, <1>4, <2>1, <2>3, <3>2, <3>3 DEF ListInv
  <2>7. RepeatInv'
    <3>1. \A b \in 1 .. index : sends[b] \in Nat
      BY <1>4 DEF IInv, TypeOK
    <3>2. \A b \in 1 .. index : sends[b] >= AckWindow \/ sends[b] >= index - b + 1
      BY DEF IInv, RepeatInv
    <3>3. \A b \in 1 .. index :
            sends'[b] >= AckWindow \/ sends'[b] >= (index + 1) - b + 1
      <4> SUFFICES ASSUME NEW b \in 1 .. index
                   PROVE  \/ sends'[b] >= AckWindow
                          \/ sends'[b] >= (index + 1) - b + 1
        OBVIOUS
      <4>1. b \in Nat /\ sends[b] \in Nat
        BY <1>4, <3>1
      <4>2. sends[b] >= AckWindow \/ sends[b] >= index - b + 1
        BY <3>2
      <4>3. CASE b > index + 1 - AckWindow
        <5>1. sends'[b] = sends[b] + 1
          BY <2>3, <4>3
        <5>2. QED
          BY <1>4, <4>1, <4>2, <5>1
      <4>4. CASE ~(b > index + 1 - AckWindow)
        <5>1. sends'[b] = sends[b]
          BY <2>3, <4>1, <4>4
        <5>2. QED
          BY <1>4, <4>1, <4>2, <4>4, <5>1
      <4>5. QED
        BY <4>3, <4>4
    <3>4. sends'[index + 1] >= (index + 1) - (index + 1) + 1
      BY <1>4, <2>3
    <3>5. \A b \in 1 .. index + 1 :
            sends'[b] >= AckWindow \/ sends'[b] >= (index + 1) - b + 1
      BY <2>5, <3>3, <3>4
    <3>6. QED
      BY <1>1, <1>4, <2>1, <2>3, <3>5 DEF RepeatInv
  <2>8. AckedInv'
    BY <1>1, <2>2, <2>3 DEF AckedInv
  <2>9. ListedInv'
    BY <1>1, <2>3 DEF IInv, ListedInv
  <2>10. QED
    BY <1>2, <1>3, <2>4, <2>6, <2>7, <2>8, <2>9 DEF IInv
<1>6. CASE ~(Len(packet_ID_list) >= NumAcks)
  <2>1. UNCHANGED ackVars
    BY <1>6 DEF AckBatch, BatchFull
  <2>2. TypeOK'
    BY <1>1, <2>1 DEF IInv, TypeOK, ackVars
  <2>3. ListInv' /\ RepeatInv' /\ AckedInv'
    BY <1>1, <1>4, <1>6, <2>1 DEF IInv, ListInv, RepeatInv, AckedInv, ackVars
  <2>4. ListedInv'
    BY <1>1, <2>1 DEF IInv, ListedInv, Lists, ackVars
  <2>5. QED
    BY <1>2, <1>3, <2>2, <2>3, <2>4 DEF IInv
<1>7. QED
  BY <1>5, <1>6

\* The processor goes on, or makes the last batch and ends.
LEMMA AckFinalStep ==
  ASSUME IInv, AckFinal
  PROVE  IInv'
<1> USE ClientAssumption DEF receiverVars, writerVars
<1>1. /\ ppc = "final"
      /\ UNCHANGED <<receiverVars, packet, num_packets_received, data_map, index,
                     packets_for_write, writerVars>>
  BY DEF AckFinal
<1>2. WrittenOnce' /\ OnceInv'
  BY <1>1 DEF IInv, WrittenOnce, OnceInv, ToWrite
<1>3. /\ index \in Nat /\ Len(ACK_queue) = index /\ Len(sends) = index
      /\ num_packets_received \in Nat /\ Expected \in Nat
      /\ num_packets_received <= Expected
  BY <1>1, FS_CardinalityType
  DEF IInv, TypeOK, ListInv, RepeatInv, CountInv
<1>4. CASE HasAll
  <2>1. /\ CreateAckPacket /\ SendAcks(index, ACK_queue', AckWindow)
        /\ ppc' = "done" /\ index' = index
    BY <1>1, <1>4 DEF AckFinal
  <2>2. /\ packet_ID_list' = <<>>
        /\ ACK_queue' \in Seq(Seq(Packets)) /\ Len(ACK_queue') = index + 1
        /\ \A b \in 1 .. index : ACK_queue'[b] = ACK_queue[b]
        /\ sends' \in Seq(Nat) /\ Len(sends') = index + 1
        /\ \A b \in 1 .. index :
             sends'[b] = sends[b]
                           + (IF b > index + 1 - AckWindow THEN AckWindow ELSE 0)
        /\ sends'[index + 1] = AckWindow
        /\ acked' \in SUBSET Packets
        /\ \A b \in 1 .. index + 1 : Range(ACK_queue'[b]) \subseteq acked'
        /\ Places(Lists)' = Places(Lists) /\ Listed(Lists)' = Listed(Lists)
    <3>1. AckWindow \in Nat /\ ppc \in {"batch", "final"}
      BY <1>1
    <3>2. QED
      BY <2>1, <3>1, MakeBatch
  <2>3. num_packets_received = Expected
    BY <1>3, <1>4 DEF HasAll
  <2>4. TypeOK'
    BY <1>1, <2>1, <2>2 DEF IInv, TypeOK
  <2>5. HandInv' /\ CountInv'
    BY <1>1, <2>1, <2>3 DEF IInv, HandInv, CountInv
  <2>6. ListInv'
    <3>1. Len(<<>>) = 0 /\ 0 <= NumAcks
      OBVIOUS
    <3>2. \A b \in 1 .. index : Len(ACK_queue'[b]) = NumAcks
      BY <2>2 DEF IInv, ListInv
    <3>3. QED
      BY <1>1, <2>1, <2>2, <3>1, <3>2 DEF ListInv
  <2>7. RepeatInv'
    <3>1. \A b \in 1 .. index : sends[b] \in Nat
      BY <1>3 DEF IInv, TypeOK
    <3>2. \A b \in 1 .. index : sends[b] >= AckWindow \/ sends[b] >= index - b + 1
      BY DEF IInv, RepeatInv
    <3>3. \A b \in 1 .. index : sends'[b] >= AckWindow
      <4> SUFFICES ASSUME NEW b \in 1 .. index
                   PROVE  sends'[b] >= AckWindow
        OBVIOUS
      <4>1. b \in Nat /\ sends[b] \in Nat
        BY <1>3, <3>1
      <4>2. sends[b] >= AckWindow \/ sends[b] >= index - b + 1
        BY <3>2
      <4>3. CASE b > index + 1 - AckWindow
        <5>1. sends'[b] = sends[b] + AckWindow
          BY <2>2, <4>3
        <5>2. QED
          BY <4>1, <5>1
      <4>4. CASE ~(b > index + 1 - AckWindow)
        <5>1. sends'[b] = sends[b]
          BY <2>2, <4>1, <4>4
        <5>2. QED
          BY <1>3, <4>1, <4>2, <4>4, <5>1
      <4>5. QED
        BY <4>3, <4>4
    <3>4. \A b \in 1 .. index + 1 : b \in 1 .. index \/ b = index + 1
      BY <1>3
    <3>5. \A b \in 1 .. index + 1 : sends'[b] >= AckWindow
      BY <2>2, <3>3, <3>4
    <3>6. QED
      BY <1>3, <2>1, <2>2, <3>3, <3>5 DEF RepeatInv
  <2>8. AckedInv'
    <3>1. Expected = Cardinality(Packets) => data_map = Packets
      <4>1. Cardinality(data_map) = Expected
        <5>1. Cardinality(data_map) \in Nat
          BY DataMapFinite DEF IInv
        <5>2. QED
          BY <1>1, <2>3, <5>1 DEF IInv, CountInv
      <4>2. data_map \in SUBSET Packets
        BY DEF IInv, TypeOK
      <4>3. QED
        BY <4>1, <4>2, FS_Subset
    <3>2. QED
      BY <1>1, <2>2, <3>1 DEF AckedInv
  <2>9. ListedInv'
    BY <1>1, <2>1, <2>2 DEF IInv, ListedInv
  <2>10. QED
    BY <1>2, <2>4, <2>5, <2>6, <2>7, <2>8, <2>9 DEF IInv
<1>5. CASE ~HasAll
  <2>1. ppc' = "poll" /\ UNCHANGED <<packet_ID_list, ACK_queue, sends, acked>>
    BY <1>5 DEF AckFinal
  <2>2. TypeOK'
    BY <1>1, <2>1 DEF IInv, TypeOK
  <2>3. HandInv' /\ CountInv'
    BY <1>1, <1>3, <1>5, <2>1 DEF IInv, HandInv, CountInv, HasAll
  <2>4. ListInv' /\ RepeatInv' /\ AckedInv'
    BY <1>1, <2>1 DEF IInv, ListInv, RepeatInv, AckedInv
  <2>5. ListedInv'
    BY <1>1, <2>1 DEF IInv, ListedInv, Lists
  <2>6. QED
    BY <1>2, <2>2, <2>3, <2>4, <2>5 DEF IInv
<1>6. QED
  BY <1>4, <1>5

-----------------------------------------------------------------------------
\* The writer takes a packet.
LEMMA TakeForWriteStep ==
  ASSUME IInv, TakeForWrite
  PROVE  IInv'
<1> USE DEF receiverVars, ackVars
<1>1. /\ wpc = "poll" /\ wpc' = "write" /\ packets_for_write # <<>>
      /\ wpacket' = Head(packets_for_write)
      /\ packets_for_write' = Tail(packets_for_write)
      /\ UNCHANGED <<receiverVars, ppc, packet, num_packets_received, data_map,
                     ackVars, packet_total, written>>
  BY DEF TakeForWrite
<1>2. packets_for_write \in Seq(Packets) /\ packet_total \in Nat
  BY DEF IInv, TypeOK
<1>3. /\ Head(packets_for_write) \in Packets
      /\ Tail(packets_for_write) \in Seq(Packets)
      /\ Len(Tail(packets_for_write)) = Len(packets_for_write) - 1
      /\ \A i \in 1 .. Len(packets_for_write) - 1 :
           Tail(packets_for_write)[i] = packets_for_write[i + 1]
      /\ Len(packets_for_write) \in Nat \ {0}
      /\ Head(packets_for_write) = packets_for_write[1]
  <2>1. Len(packets_for_write) \in Nat \ {0}
    BY <1>1, <1>2, EmptySeq
  <2>2. /\ Head(packets_for_write) \in Packets
        /\ Tail(packets_for_write) \in Seq(Packets)
        /\ Len(Tail(packets_for_write)) = Len(packets_for_write) - 1
        /\ \A i \in 1 .. Len(Tail(packets_for_write)) :
             Tail(packets_for_write)[i] = packets_for_write[i + 1]
    BY <1>1, <1>2, HeadTailProperties
  <2>3. QED
    BY <1>2, <2>1, <2>2
<1>4. TypeOK'
  BY <1>1, <1>3 DEF IInv, TypeOK
<1>5. HandInv' /\ ListInv' /\ RepeatInv' /\ AckedInv'
  BY <1>1, <1>3 DEF IInv, HandInv, ListInv, RepeatInv, AckedInv
<1>6. CountInv'
  BY <1>1 DEF IInv, CountInv
<1>7. ListedInv'
  BY <1>1 DEF IInv, ListedInv, Lists
<1>8. Range(packets_for_write) = {wpacket'} \cup Range(packets_for_write')
  BY <1>1, <1>2, RangeHeadTail
<1>9. Range(packets_for_write)' = Range(packets_for_write')
  BY DEF Range
<1>10. ToWrite' = ToWrite
  BY <1>1, <1>8, <1>9 DEF ToWrite
<1>11. WrittenOnce'
  <2>1. Cardinality(data_map) = Len(packets_for_write) + 0 + packet_total
    BY <1>1 DEF IInv, WrittenOnce
  <2>2. Cardinality(data_map') = Len(packets_for_write') + 1 + packet_total'
    BY <1>1, <1>2, <1>3, <2>1
  <2>3. data_map' = ToWrite' \cup written'
    BY <1>1, <1>10 DEF IInv, WrittenOnce
  <2>4. QED
    BY <1>1, <2>2, <2>3 DEF WrittenOnce
<1>12. OnceInv'
  <2>1. \A i, j \in 1 .. Len(packets_for_write) :
          packets_for_write[i] = packets_for_write[j] => i = j
    BY <1>2 DEF IInv, OnceInv
  <2>2. DOMAIN packets_for_write' = 1 .. Len(packets_for_write) - 1
    BY <1>1, <1>3
  <2>3. \A i \in 1 .. Len(packets_for_write) - 1 :
          /\ i + 1 \in 1 .. Len(packets_for_write) /\ i + 1 # 1
          /\ packets_for_write'[i] = packets_for_write[i + 1]
    BY <1>1, <1>3
  <2>4. 1 \in 1 .. Len(packets_for_write)
    BY <1>3
  <2>5. \A i \in 1 .. Len(packets_for_write) - 1 : packets_for_write'[i] # wpacket'
    BY <1>1, <1>3, <2>1, <2>3, <2>4
  <2>6. \A i, j \in 1 .. Len(packets_for_write) - 1 :
          packets_for_write'[i] = packets_for_write'[j] => i = j
    <3> SUFFICES ASSUME NEW i \in 1 .. Len(packets_for_write) - 1,
                        NEW j \in 1 .. Len(packets_for_write) - 1,
                        packets_for_write'[i] = packets_for_write'[j]
                 PROVE  i = j
      OBVIOUS
    <3>1. i + 1 = j + 1
      BY <2>1, <2>3
    <3>2. QED
      BY <1>3, <3>1
  <2>7. wpacket' \notin Range(packets_for_write')
    BY <2>2, <2>5 DEF Range
  <2>8. ToWrite' \cap written' = {}
    BY <1>1, <1>10 DEF IInv, OnceInv
  <2>9. QED
    BY <1>9, <2>2, <2>6, <2>7, <2>8 DEF OnceInv
<1>13. QED
  BY <1>4, <1>5, <1>6, <1>7, <1>11, <1>12 DEF IInv

\* The writer writes the packet in its hand.
LEMMA WritePacketStep ==
  ASSUME IInv, WritePacket
  PROVE  IInv'
<1> USE DEF receiverVars, ackVars
<1>1. /\ wpc = "write" /\ wpc' = "poll" /\ wpacket' = NoPacket
      /\ written' = written \cup {wpacket} /\ packet_total' = packet_total + 1
      /\ UNCHANGED <<receiverVars, ppc, packet, num_packets_received, data_map,
                     ackVars, packets_for_write>>
  BY DEF WritePacket
<1>2. /\ wpacket \in Packets /\ packet_total \in Nat
      /\ packets_for_write \in Seq(Packets)
  BY <1>1 DEF IInv, TypeOK, HandInv
<1>3. TypeOK'
  BY <1>1, <1>2 DEF IInv, TypeOK
<1>4. HandInv' /\ ListInv' /\ RepeatInv' /\ AckedInv'
  BY <1>1 DEF IInv, HandInv, ListInv, RepeatInv, AckedInv
<1>5. CountInv'
  BY <1>1 DEF IInv, CountInv
<1>6. ListedInv'
  BY <1>1 DEF IInv, ListedInv, Lists
<1>7. ToWrite = ToWrite' \cup {wpacket} /\ ToWrite' = Range(packets_for_write)
  BY <1>1 DEF ToWrite
<1>8. WrittenOnce'
  <2>1. Cardinality(data_map) = Len(packets_for_write) + 1 + packet_total
    BY <1>1 DEF IInv, WrittenOnce
  <2>2. Cardinality(data_map') = Len(packets_for_write') + 0 + packet_total'
    BY <1>1, <1>2, <2>1
  <2>3. data_map' = ToWrite' \cup written'
    BY <1>1, <1>7 DEF IInv, WrittenOnce
  <2>4. QED
    BY <1>1, <2>2, <2>3 DEF WrittenOnce
<1>9. OnceInv'
  <2>1. wpacket \notin Range(packets_for_write) /\ ToWrite \cap written = {}
    BY <1>1 DEF IInv, OnceInv
  <2>2. ToWrite' \cap written' = {}
    BY <1>1, <1>7, <2>1
  <2>3. QED
    BY <1>1, <2>2 DEF IInv, OnceInv
<1>10. QED
  BY <1>3, <1>4, <1>5, <1>6, <1>8, <1>9 DEF IInv

\* The writer ends.
LEMMA WriterExitStep ==
  ASSUME IInv, WriterExit
  PROVE  IInv'
<1> USE DEF receiverVars, ackVars
<1>1. /\ wpc = "poll" /\ wpc' = "done"
      /\ packets_for_write = <<>> /\ packet_total = Expected
      /\ UNCHANGED <<receiverVars, ppc, packet, num_packets_received, data_map,
                     ackVars, packets_for_write, wpacket, packet_total, written>>
  BY DEF WriterExit, AllWritten
<1>2. TypeOK'
  BY <1>1 DEF IInv, TypeOK
<1>3. HandInv' /\ ListInv' /\ RepeatInv' /\ AckedInv'
  BY <1>1 DEF IInv, HandInv, ListInv, RepeatInv, AckedInv
<1>4. CountInv'
  BY <1>1 DEF IInv, CountInv
<1>5. ListedInv'
  BY <1>1 DEF IInv, ListedInv, Lists
<1>6. WrittenOnce' /\ OnceInv'
  BY <1>1 DEF IInv, WrittenOnce, OnceInv, ToWrite
<1>7. QED
  BY <1>2, <1>3, <1>4, <1>5, <1>6 DEF IInv

\* Every step of the client keeps the invariant.
LEMMA InvariantStep == IInv /\ [Next]_vars => IInv'
<1> SUFFICES ASSUME IInv, [Next]_vars
             PROVE  IInv'
  OBVIOUS
<1>1. CASE Arrival \/ Receiver
  BY <1>1, ReceiverStep
<1>2. CASE Processor
  BY <1>2, TakeDatagramStep, ProcessPacketStep, StorePacketStep, AckBatchStep,
     AckFinalStep DEF Processor
<1>3. CASE Writer
  BY <1>3, TakeForWriteStep, WritePacketStep, WriterExitStep DEF Writer
<1>4. CASE UNCHANGED vars
  <2> USE <1>4 DEF vars, receiverVars, ackVars, writerVars
  <2>1. TypeOK'
    BY DEF IInv, TypeOK
  <2>2. HandInv' /\ ListInv' /\ RepeatInv' /\ AckedInv' /\ CountInv'
    BY DEF IInv, HandInv, ListInv, RepeatInv, AckedInv, CountInv
  <2>3. WrittenOnce' /\ OnceInv'
    BY DEF IInv, WrittenOnce, OnceInv, ToWrite
  <2>4. ListedInv'
    BY DEF IInv, ListedInv, Lists
  <2>5. QED
    BY <2>1, <2>2, <2>3, <2>4 DEF IInv
<1>5. QED
  BY <1>1, <1>2, <1>3, <1>4 DEF Next

\* The counter, the map, the queues, the lists and the batches agree as IInv says
\* in every reachable state.
THEOREM Invariance == Spec => []IInv
  BY InvariantInit, InvariantStep, PTL DEF Spec

\* Every variable of the client keeps its type.
THEOREM TypeCorrect == Spec => []TypeOK
<1>1. IInv => TypeOK
  BY DEF IInv
<1>2. QED
  BY <1>1, Invariance, PTL

\* However often and in whatever order datagrams arrive, a packet that has been
\* counted is with the writer or in the file, once.
THEOREM EachWrittenOnce == Spec => []WrittenOnce
<1>1. IInv => WrittenOnce
  BY DEF IInv
<1>2. QED
  BY <1>1, Invariance, PTL

\* The writer never writes a packet that is already in the file.
THEOREM NoSecondWrite == Spec => []OnceInv
<1>1. IInv => OnceInv
  BY DEF IInv
<1>2. QED
  BY <1>1, Invariance, PTL

\* Every packet that has been counted is listed for acknowledgement in one place.
THEOREM EachAckedOnce == Spec => []AckedOnce
<1>1. IInv => AckedOnce
  BY ListedIsAckedOnce DEF IInv
<1>2. QED
  BY <1>1, Invariance, PTL

\* Nothing that is acknowledged is missing, the bytes behind a short batch
\* included, if the file has the expected number of packets.
THEOREM AcksAreTruthful == Spec => []AcksTruthful
<1>1. IInv => AcksTruthful
  BY DEF IInv, AckedInv, WrittenOnce, AcksTruthful
<1>2. QED
  BY <1>1, Invariance, PTL

\* When the processor has ended, each batch has been transmitted AckWindow times.
THEOREM EachBatchRepeated == Spec => []WindowRepeats
<1>1. IInv => WindowRepeats
  <2> SUFFICES ASSUME IInv, ppc = "done", NEW b \in DOMAIN ACK_queue
               PROVE  sends[b] >= AckWindow
    BY DEF WindowRepeats
  <2>1. DOMAIN ACK_queue = 1 .. index + 1
    BY DEF IInv, TypeOK, ListInv
  <2>2. QED
    BY <2>1 DEF IInv, RepeatInv
<1>2. QED
  BY <1>1, Invariance, PTL

\* The writer ends with the whole file written, and the program with all of it
\* acknowledged.
THEOREM ExitsComplete == Spec => []CompleteAtExit
<1>1. IInv => CompleteAtExit
  <2> SUFFICES ASSUME IInv
               PROVE  CompleteAtExit
    OBVIOUS
  <2>1. ASSUME wpc = "done"
        PROVE  Cardinality(written) = Expected /\ ToWrite = {} /\ data_map = written
    <3>1. packets_for_write = <<>> /\ packet_total = Expected
      BY <2>1 DEF IInv, CountInv
    <3>2. ToWrite = {}
      BY <2>1, <3>1 DEF ToWrite, Range
    <3>3. data_map = written
      BY <3>2 DEF IInv, WrittenOnce
    <3>4. Cardinality(data_map) = 0 + 0 + Expected
      BY <2>1, <3>1 DEF IInv, WrittenOnce
    <3>5. Expected \in Nat
      BY ClientAssumption, FS_CardinalityType
    <3>6. QED
      BY <3>2, <3>3, <3>4, <3>5
  <2>2. ASSUME rpc = "done"
        PROVE  written = data_map /\ data_map \subseteq acked
    <3>1. ppc = "done" /\ wpc = "done"
      BY <2>2 DEF IInv, CountInv
    <3>2. packet_ID_list = <<>> /\ ACK_queue \in Seq(Seq(Packets))
      BY <3>1 DEF IInv, ListInv, TypeOK
    <3>3. Listed(Lists) = data_map
      BY <3>1 DEF IInv, ListedInv
    <3>4. ASSUME NEW x \in data_map
          PROVE  x \in acked
      <4>1. PICK b \in DOMAIN Lists : x \in Range(Lists[b])
        BY <3>3, ListedInRange
      <4>2. /\ DOMAIN Lists = 1 .. Len(ACK_queue) + 1
            /\ Lists[Len(ACK_queue) + 1] = <<>>
            /\ \A c \in 1 .. Len(ACK_queue) : Lists[c] = ACK_queue[c]
            /\ DOMAIN ACK_queue = 1 .. Len(ACK_queue)
            /\ Len(ACK_queue) \in Nat
        <5>1. packet_ID_list \in Seq(Packets)
          BY DEF IInv, TypeOK
        <5>2. QED
          BY <3>2, <5>1, AppendProperties DEF Lists
      <4>3. Range(<<>>) = {}
        BY DEF Range
      <4>4. b \in 1 .. Len(ACK_queue) /\ x \in Range(ACK_queue[b])
        BY <4>1, <4>2, <4>3
      <4>5. QED
        BY <4>2, <4>4 DEF IInv, AckedInv
    <3>5. QED
      BY <2>1, <3>1, <3>4
  <2>3. QED
    BY <2>1, <2>2 DEF CompleteAtExit
<1>2. QED
  BY <1>1, Invariance, PTL
=============================================================================
