------------------------------- MODULE Delivery -------------------------------
(***************************************************************************)
(* What the two programs together promise about one segment of a file,     *)
(* without queues, threads, batches or retransmission: a packet that the   *)
(* server offers to the network is accepted by the client at most once,    *)
(* its payload is written at most once, the server counts a packet as      *)
(* acknowledged only after the client has accepted it, and the segment as  *)
(* complete only when every packet of it is acknowledged.                  *)
(***************************************************************************)
EXTENDS Naturals

CONSTANT Packets   \* the packets of the segment

VARIABLES
  offered,    \* the packets that the server has put on the wire
  accepted,   \* the packets that the client has taken charge of
  stored,     \* the packets whose payload is in the file
  writes,     \* how many payloads have been written
  confirmed,  \* the packets that the server knows to be accepted
  complete    \* the server knows that all are

vars == <<offered, accepted, stored, writes, confirmed, complete>>

-----------------------------------------------------------------------------
Init ==
  /\ offered = {} /\ accepted = {} /\ stored = {} /\ writes = 0
  /\ confirmed = {} /\ complete = FALSE

Offer(p) ==
  /\ offered' = offered \cup {p}
  /\ UNCHANGED <<accepted, stored, writes, confirmed, complete>>

Accept(p) ==
  /\ p \in offered \ accepted
  /\ accepted' = accepted \cup {p}
  /\ UNCHANGED <<offered, stored, writes, confirmed, complete>>

Store(p) ==
  /\ p \in accepted \ stored
  /\ stored' = stored \cup {p}
  /\ writes' = writes + 1
  /\ UNCHANGED <<offered, accepted, confirmed, complete>>

Confirm(p) ==
  /\ p \in accepted
  /\ confirmed' = confirmed \cup {p}
  /\ UNCHANGED <<offered, accepted, stored, writes, complete>>

Complete ==
  /\ confirmed = Packets
  /\ complete' = TRUE
  /\ UNCHANGED <<offered, accepted, stored, writes, confirmed>>

Next ==
  \/ \E p \in Packets : Offer(p) \/ Accept(p) \/ Store(p) \/ Confirm(p)
  \/ Complete

Spec == Init /\ [][Next]_vars
=============================================================================
