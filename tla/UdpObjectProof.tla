---------------------------- MODULE UdpObjectProof ----------------------------
(***************************************************************************)
(* Theorems about UdpObject, for every number of senders and every size of *)
(* a full packet.                                                          *)
(***************************************************************************)
EXTENDS UdpObject, TLAPS

-----------------------------------------------------------------------------
\* What a sender has in hand: a full packet or its own short one, and the short
\* branch of the code is taken only with the latter.
HandInv ==
  \A u \in Senders :
    /\ temp[u] \in {Full, short[u]}
    /\ pc[u] \in {"set", "reset"} => IsShort(u)

\* No other sender is between setting and resetting the size while u holds a
\* packet that nobody disturbed.
AloneInv ==
  \A u, w \in Senders :
    pc[u] # "loop" /\ ~overlapped[u] /\ w # u => ~InWindow(w)

\* The inductive invariant.
IInv ==
  /\ TypeOK
  /\ HandInv
  /\ ShortOnlyInWindow
  /\ AloneInv
  /\ RightLengthAlone

-----------------------------------------------------------------------------
LEMMA InvariantInit == Init => IInv
<1> USE UdpAssumption
<1> SUFFICES ASSUME Init PROVE IInv
  OBVIOUS
<1>1. TypeOK
  BY DEF Init, TypeOK
<1>2. HandInv /\ ShortOnlyInWindow /\ AloneInv /\ RightLengthAlone
  BY DEF Init, HandInv, ShortOnlyInWindow, AloneInv, RightLengthAlone, InWindow,
         IsShort
<1> QED
  BY <1>1, <1>2 DEF IInv

\* GetPacket: u leaves its loop with a packet; the history variable records who
\* is in a window at that moment.
LEMMA GetPacketKeeps ==
  ASSUME IInv, NEW u \in Senders, GetPacket(u) PROVE IInv'
<1> USE UdpAssumption DEF IInv
<1> DEFINE len == temp'[u]
<1>1. /\ pc[u] = "loop"
      /\ len \in {Full, short[u]}
      /\ temp' = [temp EXCEPT ![u] = len]
      /\ pc' = [pc EXCEPT ![u] = IF len < Full THEN "set" ELSE "send"]
      /\ overlapped' =
           [overlapped EXCEPT ![u] = \E w \in Senders \ {u} : InWindow(w)]
      /\ UNCHANGED <<send_packet_size, short>>
  BY DEF GetPacket, TypeOK
<1>2. TypeOK'
  BY <1>1 DEF TypeOK
<1>3. \A w \in Senders : InWindow(w)' <=> InWindow(w) \/ (w = u /\ InWindow(u)')
  BY <1>1 DEF TypeOK, InWindow, IsShort
<1>4. ~InWindow(u) /\ ~InWindow(u)'
  BY <1>1 DEF TypeOK, InWindow, IsShort
<1>5. HandInv'
  BY <1>1 DEF TypeOK, HandInv, IsShort
<1>6. ShortOnlyInWindow'
  BY <1>1, <1>3, <1>4 DEF ShortOnlyInWindow
<1>7. AloneInv'
  BY <1>1, <1>3, <1>4 DEF TypeOK, AloneInv
<1>8. RightLengthAlone'
  <2> SUFFICES ASSUME NEW w \in Senders, pc'[w] = "send", ~overlapped'[w]
               PROVE  send_packet_size' = temp'[w]
    BY DEF RightLengthAlone
  <2>1. CASE w # u
    BY <2>1, <1>1 DEF TypeOK, RightLengthAlone
  <2>2. CASE w = u
    <3>1. len = Full
      BY <2>2, <1>1 DEF TypeOK
    <3>2. \A v \in Senders : ~InWindow(v)
      BY <2>2, <1>1, <1>4 DEF TypeOK
    <3> QED
      BY <2>2, <3>1, <3>2, <1>1 DEF ShortOnlyInWindow
  <2> QED
    BY <2>1, <2>2
<1> QED
  BY <1>2, <1>5, <1>6, <1>7, <1>8

\* SetSize opens u's window and marks everybody else who holds a packet.
LEMMA SetSizeKeeps ==
  ASSUME IInv, NEW u \in Senders, SetSize(u) PROVE IInv'
<1> USE UdpAssumption DEF IInv
<1>1. TypeOK'
  BY DEF SetSize, SizeOf, TypeOK
<1>2. temp[u] = short[u] /\ IsShort(u)
  BY DEF SetSize, SizeOf, HandInv, TypeOK, IsShort
<1>3. \A w \in Senders : w # u => (InWindow(w)' <=> InWindow(w))
  BY DEF SetSize, SizeOf, TypeOK, InWindow, IsShort
<1>4. InWindow(u)' /\ send_packet_size' = short'[u]
  BY <1>2 DEF SetSize, SizeOf, TypeOK, InWindow, IsShort
<1>5. HandInv'
  BY DEF SetSize, SizeOf, HandInv, TypeOK, IsShort
<1>6. ShortOnlyInWindow'
  BY <1>4 DEF ShortOnlyInWindow
<1>7. AloneInv'
  <2> SUFFICES ASSUME NEW v \in Senders, NEW w \in Senders,
                      pc'[v] # "loop", ~overlapped'[v], w # v
               PROVE  ~InWindow(w)'
    BY DEF AloneInv
  <2>1. v = u
    BY DEF SetSize, SizeOf, TypeOK
  <2> QED
    BY <2>1, <1>3 DEF SetSize, SizeOf, TypeOK, AloneInv
<1>8. RightLengthAlone'
  BY DEF SetSize, SizeOf, TypeOK, RightLengthAlone
<1> QED
  BY <1>1, <1>5, <1>6, <1>7, <1>8

\* Send writes nothing; a full packet leaves the loop's body, a short one stays
\* in its window.
LEMMA SendKeeps ==
  ASSUME IInv, NEW u \in Senders, Send(u) PROVE IInv'
<1> USE UdpAssumption DEF IInv
<1>1. TypeOK'
  BY DEF Send, AfterSend, TypeOK
<1>2. \A w \in Senders : InWindow(w)' <=> InWindow(w)
  BY DEF Send, AfterSend, TypeOK, InWindow, IsShort
<1>3. HandInv'
  BY DEF Send, AfterSend, HandInv, TypeOK, IsShort
<1>4. ShortOnlyInWindow'
  BY <1>2 DEF Send, AfterSend, ShortOnlyInWindow
<1>5. AloneInv'
  BY <1>2 DEF Send, AfterSend, TypeOK, AloneInv
<1>6. RightLengthAlone'
  BY DEF Send, AfterSend, TypeOK, RightLengthAlone
<1> QED
  BY <1>1, <1>3, <1>4, <1>5, <1>6

\* ResetSize: the size is Full again, also for a sender whose short packet it
\* belonged to; that one holds a packet during u's window and is marked.
LEMMA ResetSizeKeeps ==
  ASSUME IInv, NEW u \in Senders, ResetSize(u) PROVE IInv'
<1> USE UdpAssumption DEF IInv
<1>1. TypeOK'
  BY DEF ResetSize, SizeAfter, TypeOK
<1>2. InWindow(u) /\ ~InWindow(u)'
  BY DEF ResetSize, SizeAfter, HandInv, TypeOK, InWindow, IsShort
<1>3. \A w \in Senders : w # u => (InWindow(w)' <=> InWindow(w))
  BY DEF ResetSize, SizeAfter, TypeOK, InWindow, IsShort
<1>4. HandInv'
  BY DEF ResetSize, SizeAfter, HandInv, TypeOK, IsShort
<1>5. ShortOnlyInWindow'
  BY DEF ResetSize, SizeAfter, ShortOnlyInWindow
<1>6. AloneInv'
  BY <1>2, <1>3 DEF ResetSize, SizeAfter, TypeOK, AloneInv
<1>7. RightLengthAlone'
  <2> SUFFICES ASSUME NEW w \in Senders, pc'[w] = "send", ~overlapped'[w]
               PROVE  FALSE
    BY DEF RightLengthAlone
  <2>1. w # u /\ pc[w] # "loop" /\ ~overlapped[w]
    BY DEF ResetSize, SizeAfter, TypeOK
  <2> QED
    BY <2>1, <1>2 DEF AloneInv
<1> QED
  BY <1>1, <1>4, <1>5, <1>6, <1>7

LEMMA InvariantStep == IInv /\ [Next]_vars => IInv'
<1> SUFFICES ASSUME IInv, [Next]_vars PROVE IInv'
  OBVIOUS
<1>1. CASE Next
  BY <1>1, GetPacketKeeps, SetSizeKeeps, SendKeeps, ResetSizeKeeps DEF Next
<1>2. CASE UNCHANGED vars
  BY <1>2 DEF vars, IInv, TypeOK, HandInv, ShortOnlyInWindow, AloneInv,
              RightLengthAlone, InWindow, IsShort
<1> QED
  BY <1>1, <1>2

THEOREM Invariance == Spec => []IInv
BY InvariantInit, InvariantStep, PTL DEF Spec

-----------------------------------------------------------------------------
\* Every variable keeps its type: setSendPacketSize is never given a length
\* beyond that of a full packet.
THEOREM TypeCorrect == Spec => []TypeOK
<1>1. IInv => TypeOK
  BY DEF IInv
<1> QED
  BY <1>1, Invariance, PTL

\* Whatever the interleaving of the unlocked writes, a short size does not
\* outlive the short packets (server.cpp:426-433).
THEOREM ShortSizeNeverStays == Spec => []ShortOnlyInWindow
<1>1. IInv => ShortOnlyInWindow
  BY DEF IInv
<1> QED
  BY <1>1, Invariance, PTL

\* A datagram gets a wrong length only from the short packet of another sender
\* that is busy at the same time (UDP.cpp:156).
THEOREM UndisturbedLengthIsRight == Spec => []RightLengthAlone
<1>1. IInv => RightLengthAlone
  BY DEF IInv
<1> QED
  BY <1>1, Invariance, PTL
=============================================================================
