----------------------------- MODULE Transmission -----------------------------
(***************************************************************************)
(* What the sender of a segment promises, without its queue, its refills,  *)
(* its locks and its stop flags: it transmits each packet of the segment   *)
(* once, in order; only then does it repeat packets, of those that it has  *)
(* transmitted and that are not acknowledged as it picks them; it keeps to *)
(* a budget, and does not stop before the first pass is complete.          *)
(***************************************************************************)
EXTENDS Naturals

CONSTANTS
  NumPackets,   \* the packets are 0 .. NumPackets - 1
  Budget,       \* the transmissions that the segment is allowed
  Empty         \* the packets without bytes, which cannot be transmitted

VARIABLES
  taken,     \* how many packets have been picked, repetitions included
  hand,      \* the packet that is picked and not transmitted, if any
  sent,      \* the packets that have been transmitted
  acked,     \* the packets that have been acknowledged
  running    \* the sender has not ended

vars == <<taken, hand, sent, acked, running>>

Init == taken = 0 /\ hand = {} /\ sent = {} /\ acked = {} /\ running = TRUE

Pick(p) ==
  /\ running /\ hand = {}
  /\ taken < Budget
  /\ IF taken < NumPackets THEN p = taken ELSE p \in sent
  /\ p \notin acked
  /\ taken' = taken + 1
  /\ hand' = {p}
  /\ UNCHANGED <<sent, acked, running>>

Transmit ==
  /\ running /\ hand \cap Empty = {}
  /\ sent' = sent \cup hand
  /\ hand' = {}
  /\ UNCHANGED <<taken, acked, running>>

Acknowledge(p) ==
  /\ p \in sent
  /\ acked' = acked \cup {p}
  /\ UNCHANGED <<taken, hand, sent, running>>

Stop ==
  /\ running /\ hand \subseteq Empty
  /\ taken >= NumPackets
  /\ running' = FALSE
  /\ hand' = {}
  /\ UNCHANGED <<taken, sent, acked>>

Next ==
  \/ \E p \in 0 .. NumPackets - 1 : Pick(p) \/ Acknowledge(p)
  \/ Transmit \/ Stop

Spec == Init /\ [][Next]_vars
=============================================================================
