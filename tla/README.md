# A verification project for UDP_BASED_FTP

The repository holds two programs. `server` (server.cpp, packet_dispenser.cpp,
UDP.cpp) cuts a file into six segments and transmits it over UDP, two segments
at a time, with retransmission. `client` (client.cpp, UDP.cpp) receives the
datagrams, writes the file and acknowledges packets in batches. The README of
the repository sets the task: a 1 GB file over a network with delay and loss,
"which must be handled in the algorithm".

This directory models the two programs in TLA+, checks them with TLC on small
instances, and proves theorems about them with TLAPS.

## Inventory

### PacketDispenser (packet_dispenser.h, packet_dispenser.cpp)

State: the queue of packets to transmit (`packet_queue`), the table `is_acked`,
the counter `packets_sent` with its budget `max_num_packets_sent` (twice the
number of packets), the flags `all_acks_recieved` and `is_dead`, and three
mutexes. Operations: the constructor queues the segment; `getPacket` takes the
next packet that is not acknowledged; `putAck` marks one and recomputes the
flags; `resendOnTheshold` requeues everything unacknowledged (`resendAll`) when
the queue is short. Used by the sender thread of its segment and by the
listener. Hard: the sender reads the table and the flags without the lock under
which the listener writes them; the queue mixes first transmissions with
retransmissions. Correct if the first pass is never overtaken or cut short, no
legal acknowledgement is refused, the flags are truthful, the queue is bounded,
and the sender ends, and only for a reason.

Not reached by any program: `addDataToSend`, `resendInRange`, `getAckDistance`,
`setMaxBandwidth`, the explicit lock calls. `getNumPacketsToSend`, called only
by the old test, returns with `queue_lock` held.

### Segment sender (server.cpp, sender_thread_function)

State: the packet in hand and its global number. It repeats: test the dead flag,
get a packet, add the segment's offset, send, test the budget and the flag, ask
for a resend. Hard: an empty packet and the end of the queue look the same.

### Session (server.cpp: main, launch_segement_threads, ListenThread)

State: the loop of `main` with its two counters, the variable
`sessionPacketDispenser` that every launcher reads through a pointer, one lock
and one launcher per segment, and the listener's vectors `myDispensers`,
`lengths` and `alive`. `main` starts segment threads, at most `MAX_CON_SEG` at a
time, and joins them in order; a launcher takes its segment's lock, runs a
sender, deletes the dispenser and unlocks; the listener alternates a scan of all
segments with a blocking receive. Hard: the vectors are shared without a lock,
the listener uses `trylock` to ask whether a segment is finished, and dispensers
are deleted while it has pointers to them.

### Client (client.h, client.cpp)

State: the queues `packet_queue`, `packet_ID_list`, `packets_for_write`, the set
`data_map`, the batches `ACK_queue`, and counters. Three threads: the receiver
queues datagrams; the processor removes duplicates, hands new packets to the
writer and sends batches of acknowledgements, each batch repeated with the
following ones (`ACK_WINDOW`); the writer writes at an offset that it computes
from the packet number and the short packets seen so far. Hard: duplicates and
reordering, exits decided on counters of other threads, batches shorter than the
datagram that carries them, offsets that depend on the order of arrival.

### UDP (UDP.h, UDP.cpp)

State: two sockets, the receive buffer, `send_packet_size`. Operations: `send`,
which hands `send_packet_size` bytes of the caller's buffer to `sendto`;
`recieve`; the setters. One object is shared by the senders of all concurrent
segments, and its `send_packet_size` is set and reset, without a lock, around
the send of a short packet. Hard: the interleavings of those three statements.
Correct if a datagram is as long as its packet, and if no short size stays
behind.

### Segmentation, numbers, reassembly (server.cpp, UDP.cpp, client.cpp)

`main` divides the file into six segments, `read_from_file` a segment into
packets, and `main` numbers the packets through the file. `const_int_to_bytes`,
`vector_bytes_to_int` and `bytes_to_int` carry the numbers in headers and
acknowledgements; `globalPutAcks` finds the segment of a number by prefix sums;
the client's writer turns a number into an offset in the file. Hard: the last
packets, the boundaries between segments, the width of a number, and the order
in which short packets arrive. Correct if an acknowledgement finds its packet, a
payload its place, and the client's count of packets is reached.

### How the parts interact

    main --new--> PacketDispenser <--getPacket-- sender --UDP--> network
      |                ^                                            |
      |                | putAck                                     v
      +--tables--> listener <--UDP-- network <--batches-- processor <- receiver
                                                              |
                                                              +--> writer -> file

## Modules

| module | models | kind |
|---|---|---|
| `PacketDispenser` | the class, as operators on its variables | component |
| `Transmission` | what the sender of a segment promises | abstract specification |
| `SegmentSender` | the sender thread and putAck on one dispenser | composition, with the network and client as environment; implements Transmission |
| `SegmentSenderProof` | theorems about SegmentSender | proofs |
| `Client` | the three threads of client.cpp | component |
| `ClientProof` | theorems about Client | proofs |
| `SegmentPool` | what main promises about the segments of a file | abstract specification |
| `Session` | main, launchers, listener, locks, dispenser lifetime | component, implements SegmentPool |
| `SessionProof` | theorems about Session | proofs |
| `Delivery` | what server and client together promise about a segment | abstract specification |
| `DeliveryProof` | what that promise amounts to | proofs |
| `Transfer` | SegmentSender and Client joined by a lossy network | composition, implements Delivery |
| `TransferProof` | that it does, from the two programs' invariants | proofs |
| `Numbering` | lengths, counts, numbers, headers, routing | functions |
| `NumberingProof` | what those functions compute | proofs |
| `Reassembly` | the writer's offsets in every order of arrival | component, on Numbering |
| `ReassemblyProof` | theorems about Reassembly | proofs |
| `UdpObject` | several senders on one UDP object | component |
| `UdpObjectProof` | theorems about UdpObject | proofs |

Each module also defines *faulty variants* of some definitions: plausible slips
of a programmer. They belong to no specification; a property that does not fail
when one is put in place says nothing, and PROJECT.json names for each property
the variant that breaks it.

### SegmentSender

A packet is its sequence number; `is_acked` is a set. `spc` is the position in
`sender_thread_function` and the methods it calls, one step for each access to
what the listener writes; `apc` is the position in `putAck`, three steps for the
same reason. `LastIsEmpty` says whether `read_from_file` ended the segment with
an empty vector. With one sending thread per segment (`NUM_SENDING_THREADS` is
1) the queue has one user and `queue_lock` is left out. The environment may
acknowledge a transmitted packet at any later time, any number of times, or
never.

`Transmission` leaves out queue, refills, locks and flags: a first pass in
order, then repeats of packets that have been transmitted and are not
acknowledged as they are picked, a budget, no end before the first pass is
complete. The mapping takes `packets_sent` for the packets picked, `node` for the
packet in hand between the count and the transmission, and `spc # "done"` for
running; `TransmissionSpec` is the property.

### Client

Each push or pop under a lock is one step; each unlocked test of another
thread's counter is a step of its own. Packets arrive in any order and any
number of times. A datagram of acknowledgements that is longer than its batch
acknowledges in addition any set of packets (the bytes behind the buffer).
`send_ACKs` is one step: nobody else in the program sees its state.

### Session

The position of `main`, of each launcher and of the listener; a mutex is a
Boolean, since glibc lets anyone unlock it. `dead` stands for `is_dead` and
`all_acks_recieved` together: the budget sets the first and makes
`getAllAcksRecieved` answer yes, and the listener itself sets both in one
`putAck`. `Deleters` gives, for a dispenser, the launchers that have deleted it:
none while it exists, two when a late launcher and its own both have. Its stop
flags then read as anything (`StopFlags`), and the two reads of one scan may
differ while a late launcher still works on it (`EarlierStopFlags`). The pushes
of `addPacketDispenser` are separate steps; a read beyond the end of `alive`
gives any value, and of a vector without storage crashes. `info_lock`, which the
constructor leaves uninitialised, may or may not let the listener in. Reads of lengths.size() within one turn of `doListen` are one step:
between two of them the size can only grow, and a later value gives the same
branches. A datagram carries any number of acknowledgements, of any segments on
the wire. The deletion of the UDP object (the end of `JoinRest`) and the end of
the process (`Return`) are separate, and the listener runs in between.

A launcher reads main's variable when it starts to run, not when it is created.
The variable is local to one turn of main's loop; its place on the stack is the
same in every turn, so that the pointer finds the old address until the next
dispenser's is stored there (`ReadSlot`). `SlotNotBehind` says how wrong that can
go: it may get a later dispenser than its own, never an earlier one and never a
null pointer. `SlotDriftBounded` says how far: main joins the launcher
`MAX_CON_SEG` behind before it fills the variable again, so that the dispenser is
at most `MAX_CON_SEG` ahead. Neither says that the later dispenser still exists:
the launcher that it was built for may have deleted it. Whatever dispenser a
launcher has, its sender numbers the packets from the launcher's own offset
(server.cpp:353, 418), and acknowledgements carry that number; so `OnWire`, the
segments whose acknowledgements can arrive, are those of the launchers and not of
the dispensers (segments are taken to have equally many packets here; the last one
may have more).

`MemoryBounded` counts what the limit on concurrent segments is for, the
dispensers in memory: at most `MAX_CON_SEG + 1`, since main reads the next segment
and builds its dispenser before it waits for an earlier launcher. Not counted are
those in `PassedOver`: a launcher that got a later dispenser never deletes its
own, and nobody else need do so. `NullReadOnlyAtStart` bounds the read
of a vector without storage, which crashes the program, to the time before main
has created the first launcher. `FewUnserved` says it of the listener's early
exit, `StallOnlyByListener` of the locks: the only way for main and the
launchers to be stuck is a launcher whose lock the listener has taken.

`SegmentPool` is the same program without launchers, locks, tables and listener:
segments are started one by one, end in any order, at most `MAX_CON_SEG` are open,
and the program is over when all have ended, or before the first was started (the
crash of `NullReadOnlyAtStart`). The mapping takes `seg` for the segments started
and the launchers at "done" for those that have ended; `PoolSpec` is the property.
It says of main's joins by position that they open no segment too many, and of
the listener that nothing it does to the locks starts, ends or skips one.

### Delivery and Transfer

`Delivery` has six variables: what the server offered, what the client accepted,
what is stored and how many writes that took, what the server knows to be
accepted, and whether it knows the segment to be complete. A packet is accepted
and stored once; it is confirmed only after it was accepted; the segment is
complete only when all of it is confirmed.

`Transfer` instantiates `SegmentSender` and `Client` and lets the environment of
each be the other: `Recieve` of the client takes a packet that the server has
sent, `PutAckMark` of the server a packet that the client has acknowledged. Both
sets only grow, so a datagram may be delivered late, again, out of order or
never. The refinement mapping is

| Delivery | Transfer |
|---|---|
| `offered` | `sent` |
| `accepted` | `data_map` |
| `stored`, `writes` | `written`, `packet_total` |
| `confirmed`, `complete` | `is_acked`, `all_acks_recieved` |

and `DeliverySpec` (`D!Spec` under that mapping) is the property. The client's
padding does not break it because a short batch is sent only when everything has
been received. `SegmentFiled` relates the far ends: the server's flag
`all_acks_recieved` to the client's file. `GivenUpForCause` lists the reasons for
which the server gives a segment up, by the end of its sender, after which the
launcher deletes the dispenser, or by the flag `is_dead`, on which the listener
drops it: the client has taken charge of all of it; the transmissions are used up;
the queue has run dry behind a packet that the client has, whatever else is lost
(the finding `sender_gives_up`); the empty packet was met; or the segment has
fewer packets than the threshold, so that nothing is ever requeued.

### Numbering and Reassembly

Lengths in bytes, with a small payload (`Payload`, 2996 in the code), header
(`Header`, 4) and byte (`Base`, 256). `const_int_to_bytes` and its two inverses
work on digits; the client's inverse assembles an `int`, so its highest bit is
the sign. The state of `Reassembly` is the writer's: the sum of what short
packets lack, the map from the number of each short packet to that sum, and the
index of each write. A step is one turn of the writer's loop for any packet that
has not been written. A negative index fails the stream for good. Rests shorter
than a header are left out: `sender_thread_function` then writes the header
beyond the end of the packet.

The properties say what the code does achieve. `PlacedAfterShorts`: a payload
lands in its place, right behind the bytes that are sent of all earlier packets, if
the short packets of the earlier segments came first and
in order, whatever the order of the others, and none of those segments ended in
an empty packet, which is never sent. That place is not where the bytes were in
the server's file, since `LossBounded`: of each segment with a short packet exactly
one header's worth of bytes is never sent. `CountReached`: as many packets can
arrive as the client waits for, but one less for each segment that ends in an empty
packet; one such segment is enough to keep the client waiting. `AcksComeHome`: each number, through header and acknowledgement, leads
back to its packet. `StreamHolds`: no order of arrival makes an index negative
once the first segment has as many packets as there are segments.

### UdpObject

The statements at server.cpp:426-433 for several senders: set the size, send,
set it back, a step each. The history variable `overlapped` marks a sender while
whose packet was in hand another one was inside that window. `RightLengthAlone`
says that only such a packet can go out with a wrong length,
`ShortOnlyInWindow` that the damage ends with the window.

## Runs

| run | bounds | states | shows |
|---|---|---|---|
| `sender` | 6 packets, threshold 3 | 133,000 | `FirstPassFirst`, `AcksAccepted`, `StopFlagsSound`, `EveryPacketSent`, `QueueBounded`, types; `TransmissionSpec`; `SenderStops`, `AckedSegmentDies` |
| `client` | 4 packets, batches of 2, window 2, 2 datagrams queued | 136,000 | `WrittenOnce`, `AckedOnce`, `AcksTruthful`, `WindowRepeats`, `CompleteAtExit`, types; `AckedIsWritten`, `WorkersEnd` |
| `session` | 4 segments, 2 at a time | 2,993,000 | `MemoryBounded`, `AcksRoutable`, `LockGuardsAlive`, `UdpOutlivesSenders`, `SlotNotBehind`, `SlotDriftBounded`, `NullReadOnlyAtStart`, `FewUnserved`, `StallOnlyByListener`, types; `PoolSpec` |
| `transfer` | 3 packets, threshold 3, batches of 2, window 2, 1 datagram queued | 2,359,000 | `DeliverySpec`, `GivenUpForCause`, `SegmentFiled` |
| `reassembly` | 3 segments, files of 6 to 36 bytes, payload 4, header 2 digits of base 8 | 27,000 | `PlacedAfterShorts`, `StreamHolds`, `LossBounded`, `CountReached`, `AcksComeHome`, types |
| `udp` | 3 senders, full size 4 | 35,000 | `ShortOnlyInWindow`, `RightLengthAlone`, types |
| `sender_gives_up` | 6 packets | | counterexample to `StopsForCause`: queue dry in getPacket |
| `client_hangs` | 3 packets | | counterexample to `ReceiverEnds` |
| `session_ignores_acks`, `session_use_after_delete`, `session_stalls` | 2 segments | | the counterexamples described under Findings |
| `reassembly_misplaces` | 2 segments, 14 bytes | | counterexample to `RightPlace` |

Why the bounds are enough. Six packets with threshold 3 give a refill below two
queued packets, so that refills happen with the first pass unfinished, with it
finished, and repeatedly up to the budget of twelve. Below six, `6 / 3 = 2`
shrinks to one and refills happen only on an empty queue. Four packets in
batches of two give two full batches and an empty last one, one batch more than
the window, and two queued datagrams let the receiver be ahead of the
processor. Three packets, in `transfer`, give a full batch and a last one whose
padding matters. Four segments with two at a time make `main` join segments while
others run and launchers start late; four is `MAX_CON_SEG + 2`, so that neither
`MemoryBounded` nor `SlotDriftBounded` holds for want of segments: without main's
joins, a fourth dispenser would be in memory, and the first launcher could get it. The files of `reassembly` give
segments from less than one to three full packets, segments that end in a short
and segments that end in an empty packet, and last segments longer than the
others. Numbers stay below the sign of the client's `int` by `FileAssumption`,
as they do in the code, where the length of the file is an `int` too. Three
senders let one window open inside another and a third sender send in both.
`MaxQueue` and the bounds on the file are the only ones that the code does not
have: datagrams beyond `MaxQueue` wait in the network.

CHECK_DEADLOCK is off in every configuration but `UdpObject.cfg`, whose senders
never stop: the programs end.

## Fairness

`SegmentSender`: weak fairness of the sender thread and of a `putAck` that has
begun, since the operating system schedules both threads; strong fairness of the
sender's acquisition of `ack_lock`, since the listener takes it only once per
acknowledgement received and a client sends finitely many. Nothing forces an
acknowledgement to arrive.

`Client`: weak fairness of the processor, of the writer and of the receiver's
steps after a datagram. `Arrival` is not fair: nothing forces a datagram to
arrive.

`Transfer`, `Reassembly` and `UdpObject` state safety only and assume nothing.

`Session`: weak fairness of main, launchers and listener, strong fairness of a
launcher's lock. That a sender ends is `SenderStops`. Nothing forces a datagram
to arrive.

## Proofs

`SegmentSenderProof` proves, for every number of packets, every threshold and
both shapes of the last packet (`DispenserAssumption`, `SenderAssumption`), the
safety properties of the run `sender`: `TypeCorrect`, `FirstPassComesFirst`,
`AckNeverRefused`, `StopFlagsTruthful`, `FirstPassCompletes`,
`QueueStaysBounded`, and the budget, `BudgetKept`; that the thread implements
`Transmission`, `SenderImplements`; and what an empty last packet costs,
`NoRepeatBehindEmpty`.

None of them is inductive alone. The invariant `IInv` adds:

- `HandInv`: the packet in the sender's hand. On the first pass it is exactly
  the packet with number `packets_sent`; after it, a packet that was taken
  before. Without it nothing says which packet a step transmits.
- `SentInv`: whatever is counted is on the wire, except the packet in hand; and
  whatever is acknowledged is on the wire. This makes the range test of
  `putAck` harmless: on the first pass nothing can be acknowledged before it is
  counted, so no packet of the first pass is skipped, and `packets_sent` is the
  number of distinct packets until it reaches the size of the segment.
- `BudgetInv`: the budget is never exceeded because the step that exhausts it
  sets `is_dead` before the next test; and the sender cannot end before the
  first pass is over.
- `FlagInv`: `putAck` sets `is_dead` only while the table is full.
- `RefillInv`: during `resendAll` the queue holds less than the threshold plus
  the packets visited so far.

`InvariantInit` and `InvariantStep` (one step per action) give `Invariance`; each
theorem is a consequence. `ShorterQueue` and `QuotientType` are the lemmas on
the queue's bound.

`NoRepeatBehindEmpty` says that a segment which ends in an empty packet is
transmitted once at most, whatever is lost: the empty packet ends the sender, and
all that was requeued waits behind it. Its invariant, `EmptyInv`, is proved on top
of `IInv`: once everything has been counted, the empty packet is in the sender's
hand, at the test that ends it or behind it. `SenderEndsForCause` lists the ways in
which the sender can end; its invariant, `DryInv`, says that the sender goes back for
a packet with an empty queue only if the table is full or the segment is too short
to be refilled, so that any other queue runs dry behind an acknowledged packet that
was skipped. `SenderImplements` is a
refinement: `StepMaps` maps `CountForSending` to `Pick`, `Transmit` to `Transmit`,
`PutAckMark` to `Acknowledge` and each step to "done" to `Stop` (`EndMaps`); all
others, the refills among them, are stutters. That a counted packet may be picked
(`CountedMayBePicked`) is `HandInv` on the first pass and `SentInv` after it.

`UdpObjectProof` proves, for every number of senders and every full size
(`UdpAssumption`), the three properties of the run `udp`: `TypeCorrect`,
`ShortSizeNeverStays`, `UndisturbedLengthIsRight`. Its invariant adds `HandInv`
(the short branch is taken only with the segment's short packet, so what a
window sets is that packet's length) and `AloneInv` (nobody is inside a window
while a sender holds a packet that was not disturbed), without which the size
that an undisturbed sender finds is unknown. One lemma per action
(`GetPacketKeeps`, `SetSizeKeeps`, `SendKeeps`, `ResetSizeKeeps`).

`ClientProof` proves, for every finite set of packets, every number of expected
packets, every batch length, window and queue bound (`ClientAssumption`), the
six safety properties of the run `client`: `TypeCorrect`, `EachWrittenOnce`,
`EachAckedOnce`, `AcksAreTruthful`, `EachBatchRepeated`, `ExitsComplete`; and
`NoSecondWrite`, which the cardinalities of `WrittenOnce` imply and which says it
of each packet. The invariant `IInv` adds:

- `HandInv`: the packet in the processor's hand is new while it is being stored,
  so that handing it over adds to `data_map`.
- `OnceInv`: the places a packet may be in (queue, hand, file) exclude each
  other, which a step of the writer needs and `WrittenOnce` does not say.
- `CountInv`: the counter that all three threads look at is the cardinality of
  `data_map`, one more during the store, and never passes `Expected`: the
  processor ends with the packet that reaches it. Each thread's exit is decided
  on it.
- `ListedInv`: `AckedOnce` with its two LETs named, and that the places are
  finitely many. `ListOneMore` and `CloseBatch` say what appending to the list and
  closing a batch do to the places of acknowledgements.
- `ListInv`: every batch but the last has exactly `NumAcks` entries, and
  `packet_ID_list` is below `NumAcks` whenever the processor is not about to
  close it. So a datagram is padded only when it carries the last batch.
- `RepeatInv`: batch `b` has been sent as often as batches were made since, up
  to the window; the last call makes up for those the window has not passed.
- `AckedInv`: what has been acknowledged is in `data_map`; it needs `ListInv`
  for the padding and `CountInv` for the last batch.

`SessionProof` proves, for every number of segments and every limit on
concurrent ones (`SessionAssumption`), the invariants of the run `session`:
`TypeCorrect`, `MemoryStaysBounded`, `TablesCoverTheWire`, `AliveIsLocked`,
`SendersEndFirst`, `LateLauncherNotBehind`, `LateLauncherNear`, `NoLateNullRead`,
`FewLeftUnserved`, and the refinement `SessionImplements`. The invariant adds `MainInv` (the two counters of main and the
slot at each of its steps), `TablesInv` (the lengths of the listener's vectors between
the pushes), `LauncherInv` (which launchers exist and which have ended),
`ListenInv` (where the listener's scan stands and that it leaves only when all
segments are in its tables) and `ShutOutInv` (a lock that a launcher has not
taken is held only by a listener that was let in). `StallOnlyByListener` is
stated with ENABLED; `WaitsEndAtListener` proves it with the conditions under
which main and a launcher wait (`MainWaits`, `LauncherWaits`) in its place.
`SessionImplements` maps `CreateLauncher` to `Start`, `UnlockSegment` to `Finish`, the
ends of the program to `Quit`, everything else to a stutter. That `Start` is allowed
is `OpenUnjoined`: the open segments are among those that main has created and not
joined, and at the step "create" these are fewer than `MAX_CON_SEG`
(`UnjoinedCount`, on which `MemoryStaysBounded` rests too: a dispenser in memory that
was not passed over belongs to an unjoined launcher, or is the one just built).

`TransferProof` proves by composition that `Transfer` implements `Delivery`
(`KeepsPromise`), from `TransferAssumption` alone. `SegmentSenderProof` and
`ClientProof` are instantiated; `ServerActions` and `ClientActions` identify the
actions, and `StepMaps` shows that each step of the whole is, for each program,
a step in the environment that the program was proved against or none at all.
For the server this needs that only packets on the wire are acknowledged, which
is a fact about the client: `acked` is within `data_map` (`AckedInv`), and
`data_map` within `sent` because the client has only what was sent. `Link` adds
that last fact, for the queue, the hand and the map, and that the server has
marked only what the client acknowledged. With `Invariance` (both invariants and
`Link`), `ServerRefines` and `ClientRefines` map each action to an action of
Delivery or a stutter: `Transmit` to `Offer`, `StorePacket` to `Accept`,
`WritePacket` to `Store`, `PutAckMark` to `Confirm`, `PutAckSum` to `Complete`.
`ProgramsUnchanged` carries every theorem about the two programs over to their
composition, `SenderEndsForCause` among them, from which `SegmentsGivenUpForCause`
follows; it and `SegmentsFiled` are the two invariants of the run.

`DeliveryProof` proves what the abstract promise means as an invariant
(`PromiseHolds`) and step by step (`NothingTakenBack`), and TransferProof restates
both in the variables of the programs.

`NumberingProof` proves what the functions of `Numbering` compute, for every
number of segments, payload, header and (even) number of values of a byte
(`NumberingAssumption`): `HeaderRoundTrip`, that a number which fits into a header is read
back as it was written, and `RouteFinds`, that the listener's search finds the
segment and the place of every number of a file. Both are inductions, over the
bytes of a header and over the segments. An induction rule takes the statement as an
operator, which the provers cannot instantiate; so each is written as a proof by
contradiction from `LeastNumber`: of the numbers for which the statement fails
one is least, and the step to it from the number before fails too. The
recursive functions (`Shift`, the loops of `VectorBytesToInt` and `Offset`) are
first shown to exist by the same means, since a CHOOSE of an equation says
nothing until the equation has a solution (`ShiftExists`, `OffsetDef`).

`ReassemblyProof` proves, for the same constants and every length of a file that
`FileAssumption` and `FileLengths` admit, all six properties of the run
`reassembly`:

- `AcksFindTheirPackets` from the two theorems above: `ExpectedBounded` bounds
  the number of packets by a quotient, so that every number fits (`NumberFits`).
- `CountMatches`: numbering is a bijection between the packets and
  `0 .. Expected - 1`, one-to-one because routing inverts it (`NumberRoutes`),
  onto by the least segment that begins behind the number (`NumberOnto`); and the
  packets that are not sent are in bijection with the segments that end in an empty
  packet (`EmptyIsLast`, `SentCounted`).
- `LossIsHeaders`: `SumOneMore` shows that a sum over a set does not depend on
  the order in which the elements are taken, by a smallest set for which it does
  (`SmallestSet`). `StartOfPacket` then sums the bytes in front of each packet by
  induction over the numbers, and `BytesOfAll` those of the file.
- `TypeCorrect`, `StreamNeverFails` and `PlacedRight` from the invariant `Inv`.
  `MapInv` says that each entry belongs to a short packet which has been written,
  and that the running sum is at most a payload for each segment whose short packet came:
  a correction is applied only to numbers behind a short packet, hence behind
  all of the first segment, and so cannot exceed the index. `ShortsInv` says
  that while the short packets come in order the sum and the newest entry are
  exact multiples of what one lacks. One exception runs through it: the packet
  that completes the file is not entered, and then no packet is left to correct.
  `CorrectionInOrder` shows that the greatest lower entry is that of the segment
  before, and `PlacedRight` compares it with `StartOfPacket`.

Two more theorems say what `PlacedRight` is worth. `FirstSegmentInPlace`: as an
invariant, every payload of the first segment that has been written is in its
place, in any order of arrival whatever; of a file in one segment that is
everything. `PlacesApart`: the places of two packets do not overlap, so payloads in
their places do not destroy each other (`EndWithinSegment`).

Only model-checked: the liveness properties (`SenderStops`, `AckedSegmentDies`,
`AckedIsWritten`, `WorkersEnd`), and `StallOnlyByListener` as written (fairness and
ENABLED are beyond the prover). Every other property that a passing run checks,
invariant, action property or refinement, is a theorem.

## Findings

1. `sender_gives_up`: getPacket returns nothing when the rest of the queue has
   been acknowledged meanwhile; the sender ends, and a lost packet is not sent
   again although the budget allows it (packet_dispenser.cpp:109).
2. `client_hangs`: the client looks for its end only after a receive
   (client.cpp:267) and waits for ever if no further datagram comes.
3. `session_ignores_acks`: a lock that is held is taken for a finished segment
   (server.cpp:215-219), so a running segment's acknowledgements are dropped.
4. `session_use_after_delete`: a launcher deletes its dispenser without a lock
   (server.cpp:387); the listener, past `info_lock`, finds the segment alive and
   unlocked and goes on to read the deleted object's stop flags (server.cpp:225).
5. `session_stalls`: the listener keeps a lock that it acquired by trylock and
   blocks in recvfrom; the launcher, and main behind it, wait for ever.
6. `reassembly_misplaces`: a packet of a later segment that overtakes the short
   packet of an earlier one is written at the wrong offset (client.cpp:410).

Facts that properties above take as their condition, and that a reader should
know: a segment of a multiple of 2996 bytes ends in an empty packet, which ends
its sender after one pass (`NoRepeatBehindEmpty`) and leaves the client's count
unreached (server.cpp:411, 487); a launcher that starts late transmits and
deletes a later segment's dispenser, under its own segment's numbers and perhaps
after that was deleted already, so that its own may never be sent or deleted
(server.cpp:655); each short packet loses four bytes of the file
(server.cpp:509); the listener may leave while the last segments run
(server.cpp:307); a packet sent while another sender has set its short size may
be cut or padded (server.cpp:428).

## Not modelled, and why

- Socket calls, the set-up of the sockets and file I/O: what they do is the
  operating system's.
- Bandwidth figures and packet counters, which are only printed, and
  `setTimeSinceLastPacket`, which never waits because `min_diff_time` is 0.
- The public operations of PacketDispenser that no program calls
  (`addDataToSend`, `resendInRange`, `getAckDistance`, `setMaxBandwidth`, the
  explicit lock calls, `getNumPacketsToSend`), and `int_to_bytes`: there is no
  caller whose behaviour could be modelled.
- `control_packet`, `strip_header` and `file_reader`, which nothing calls; the
  old tests and UDP_old.cpp, which no target builds.
- What a use of a deleted object does besides reading anything: a second `delete`
  or a call on freed memory may abort the program. Nor the moment in which
  `push_back` moves a vector of the listener to a larger storage under a
  concurrent scan (server.cpp:198): each push is one step.
- Two senders on one dispenser, which happens when a late launcher takes the
  dispenser of a running one: `Session` lets it happen, `SegmentSender` has one
  sender.
- Segments whose rest is shorter than a header: the header is written beyond the
  packet (server.cpp:423), and what follows depends on the heap.
- Allocation failure, and datagrams that do not come from the other program.

## Plan

Done: the components (`PacketDispenser`, `SegmentSender`, `Client`, `Session`,
`Numbering`, `Reassembly`, `UdpObject`), the composition `Transfer`, the abstract
specifications `Delivery`, `Transmission` and `SegmentPool`, and proofs about each
of them.

Left to whoever continues: the composition of `Session` with the senders of its
segments, where `Transmission` can stand for each sender; and of `Reassembly` with
`Transfer` for one segment at a time, where the order of arrival that
`PlacedAfterShorts` asks for would have to come from the order in which main
starts its segments.
