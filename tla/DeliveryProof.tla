---------------------------- MODULE DeliveryProof ----------------------------
(***************************************************************************)
(* What the promise of Delivery amounts to, for every set of packets: the  *)
(* state that its steps can reach, and what they never take back.          *)
(* TransferProof carries both over to the two programs.                    *)
(***************************************************************************)
EXTENDS Delivery, FiniteSetTheorems, TLAPS

\* What has been written has been accepted and what has been accepted offered;
\* the server confirms only what the client has accepted; each packet written was
\* written once; and a complete segment has been accepted as a whole.
Promise ==
  /\ stored \subseteq accepted /\ accepted \subseteq offered
  /\ offered \subseteq Packets
  /\ confirmed \subseteq accepted
  /\ IsFiniteSet(stored) /\ writes = Cardinality(stored)
  /\ complete => accepted = Packets

\* Nothing is taken back: what has been accepted, written or confirmed stays so.
Kept ==
  /\ offered \subseteq offered' /\ accepted \subseteq accepted'
  /\ stored \subseteq stored' /\ confirmed \subseteq confirmed'
  /\ complete => complete'

-----------------------------------------------------------------------------
\* Each step keeps the promise.
LEMMA PromiseStep == Promise /\ [Next]_vars => Promise'
<1> SUFFICES ASSUME Promise, [Next]_vars PROVE Promise'
  OBVIOUS
<1> USE DEF Promise
<1>1. ASSUME NEW p \in Packets, Offer(p) PROVE Promise'
  BY <1>1 DEF Offer
<1>2. ASSUME NEW p \in Packets, Accept(p) PROVE Promise'
  BY <1>2 DEF Accept
<1>3. ASSUME NEW p \in Packets, Store(p) PROVE Promise'
  <2>1. stored' = stored \cup {p} /\ p \notin stored
    BY <1>3 DEF Store
  <2>2. IsFiniteSet(stored') /\ Cardinality(stored') = Cardinality(stored) + 1
    BY <2>1, FS_AddElement
  <2>3. QED
    BY <1>3, <2>1, <2>2 DEF Store
<1>4. ASSUME NEW p \in Packets, Confirm(p) PROVE Promise'
  BY <1>4 DEF Confirm
<1>5. CASE Complete
  BY <1>5 DEF Complete
<1>6. CASE UNCHANGED vars
  BY <1>6 DEF vars
<1>7. QED
  BY <1>1, <1>2, <1>3, <1>4, <1>5, <1>6 DEF Next

\* The promise, as a fact about every state: nothing is written that was not
\* accepted, nothing is written twice, and "complete" is never said too early.
THEOREM PromiseHolds == Spec => []Promise
<1>1. Init => Promise
  BY FS_EmptySet DEF Init, Promise
<1>2. QED
  BY <1>1, PromiseStep, PTL DEF Spec

\* The promise, as a fact about every step: nothing accepted, written or confirmed
\* is ever taken back.
THEOREM NothingTakenBack == Spec => [][Kept]_vars
<1>1. [Next]_vars => [Kept]_vars
  BY DEF Next, Offer, Accept, Store, Confirm, Complete, Kept, vars
<1>2. QED
  BY <1>1, PTL DEF Spec
=============================================================================
