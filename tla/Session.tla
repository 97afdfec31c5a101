------------------------------ MODULE Session ------------------------------
(***************************************************************************)
(* The threads of the sending program, server.cpp: main, which cuts the    *)
(* file into segments and starts one launcher thread for each, at most     *)
(* MAX_CON_SEG at a time; the launchers, each holding the lock of its      *)
(* segment while a sender thread transmits it; and the listener, which     *)
(* receives acknowledgements for all segments and decides which segments   *)
(* are still alive.                                                        *)
(*                                                                         *)
(* Segments and their dispensers are numbered from 1.  What a sender does  *)
(* with its dispenser is the subject of SegmentSender; here it transmits,  *)
(* may be told to stop, and ends.  The process ends with main.             *)
(*                                                                         *)
(* A mutex of glibc is a word that anybody may clear: unlocking one that   *)
(* another thread holds frees it, unlocking a free one does nothing, and   *)
(* trylock fails on a mutex that the caller holds itself.                  *)
(***************************************************************************)
EXTENDS Integers, Sequences, FiniteSets

CONSTANTS
  NumSegs,      \* DATA_SEGS
  MaxConSeg     \* MAX_CON_SEG: segments in transmission at the same time

ASSUME SessionAssumption ==
  /\ NumSegs \in Nat \ {0}
  /\ MaxConSeg \in Nat \ {0}

Segs == 1 .. NumSegs

VARIABLES
  mpc,         \* control point of main
  seg,         \* the segments started so far
  joined,      \* the segment threads joined so far
  slot,        \* main's variable sessionPacketDispenser; SegArgs points at it
  myDispensers,  \* size of the listener's vector; entry s is dispenser s
  lengths,     \* size of the listener's vector of packet counts
  alive,       \* the listener's vector: 1 while it serves the segment
  spc,         \* control point of each launcher and its sender
  mine,        \* the dispenser that the launcher has read from main's variable
  locked,      \* DATA_SEG_LOCKS
  dead,        \* the dispenser's stop flags, is_dead and all_acks_recieved
  info_lock,   \* FALSE: the uninitialised mutex lets nobody in
  qpc,         \* control point of the listener
  qi,          \* loop variable of getGlobalAllAcksRecieved
  temp,        \* its result so far
  qack         \* the segment of the acknowledgement being applied

mainVars == <<mpc, seg, joined, slot>>
tableVars == <<myDispensers, lengths>>
launcherVars == <<spc, mine>>
listenerVars == <<info_lock, qpc, qi, temp, qack>>
vars == <<mainVars, tableVars, alive, launcherVars, locked, dead, listenerVars>>

\* main returns, or a thread dereferences a null pointer: nothing runs any more.
Running == mpc \notin {"end", "crashed"}

threads_active_count == seg - joined

\* The launchers that have deleted dispenser d: none while it exists, and two
\* when a late launcher and the dispenser's own have both deleted it.
Deleters(d) == {s \in Segs : mine[s] = d /\ spc[s] \in {"unlock", "done"}}

\* The segments whose packets can be on the wire: their senders have started,
\* and start by transmitting.  The packets are numbered from the launcher's own
\* segment's offset, whichever dispenser it has, and so are their
\* acknowledgements.
OnWire == {s \in Segs : spc[s] \in {"run", "delete", "unlock", "done"}}

-----------------------------------------------------------------------------
Init ==
  /\ mpc = "new" /\ seg = 0 /\ joined = 0 /\ slot = 0
  /\ myDispensers = 0 /\ lengths = 0 /\ alive = <<>>
  /\ spc = [s \in Segs |-> "none"]
  /\ mine = [s \in Segs |-> 0]
  /\ locked = [s \in Segs |-> FALSE]
  /\ dead = [s \in Segs |-> FALSE]
  /\ info_lock \in BOOLEAN     \* the constructor leaves it uninitialised
  /\ qpc = "scan" /\ qi = 1 /\ temp = 1 /\ qack = 0

-----------------------------------------------------------------------------
\* Faulty variants of the definitions below, each a plausible slip.

\* The new dispenser is numbered one too high, or is that of the last segment.
NewSlotAhead == seg + 2
NewSlotBehind == seg

\* main does not wait for an earlier segment thread.
MustJoinNever == FALSE
MustJoinLate == threads_active_count > MaxConSeg

\* main joins the thread that it is about to create.
OldestIsNext == seg + 1

\* The last push_back of addPacketDispenser adds nothing.
AliveNotAdded == alive

\* main leaves the last segment thread unjoined.
AllButOneJoined == joined >= NumSegs - 1

\* The loop condition of doListen looks only at the result of the scan.
TablesAlwaysFull == lengths >= 0

\* A failed trylock releases the lock and leaves the segment alive.
GiveUpKeepsAlive(s) ==
  /\ locked' = [locked EXCEPT ![s] = FALSE]
  /\ UNCHANGED <<alive, temp>>

-----------------------------------------------------------------------------
\* main

\* The dispenser that is built next.
NewSlot == seg + 1

\* As many segments as may be are in transmission.
MustJoin == threads_active_count >= MaxConSeg

\* The segment thread that is joined next.
Oldest == joined + 1

AllJoined == joined >= NumSegs

\* Read the next segment and build its dispenser.
NewDispenser ==
  /\ mpc = "new"
  /\ slot' = NewSlot
  /\ mpc' = IF MustJoin THEN "join" ELSE "addDisp"
  /\ UNCHANGED <<seg, joined, tableVars, alive, launcherVars, locked, dead,
                 listenerVars>>

\* Wait for the oldest segment thread.
JoinOldest ==
  /\ mpc = "join"
  /\ spc[Oldest] = "done"
  /\ joined' = joined + 1
  /\ mpc' = "addDisp"
  /\ UNCHANGED <<seg, slot, tableVars, alive, launcherVars, locked, dead,
                 listenerVars>>

AliveAdded == Append(alive, 1)

\* addPacketDispenser: its push_backs are not under info_lock, so the listener
\* can run between any two of them.  Each is one step: the moment in which it
\* moves a vector to a larger storage is left out.
AddDispenser ==
  /\ \/ /\ mpc = "addDisp" /\ mpc' = "addLength"
        /\ myDispensers' = myDispensers + 1
        /\ UNCHANGED <<lengths, alive>>
     \/ /\ mpc = "addLength" /\ mpc' = "addAlive"
        /\ lengths' = lengths + 1
        /\ UNCHANGED <<myDispensers, alive>>
     \/ /\ mpc = "addAlive" /\ mpc' = "create"
        /\ alive' = AliveAdded
        /\ UNCHANGED tableVars
  /\ UNCHANGED <<seg, joined, slot, launcherVars, locked, dead, listenerVars>>

CreateLauncher ==
  /\ mpc = "create"
  /\ spc' = [spc EXCEPT ![seg + 1] = "begin"]
  /\ seg' = seg + 1
  /\ mpc' = IF seg + 1 < NumSegs THEN "new" ELSE "joinRest"
  /\ UNCHANGED <<joined, slot, tableVars, alive, mine, locked, dead, listenerVars>>

\* Join what is left, then delete the UDP objects.
JoinRest ==
  /\ mpc = "joinRest"
  /\ IF AllJoined
     THEN mpc' = "return" /\ UNCHANGED joined
     ELSE /\ spc[Oldest] = "done"
          /\ joined' = joined + 1
          /\ UNCHANGED mpc
  /\ UNCHANGED <<seg, slot, tableVars, alive, launcherVars, locked, dead,
                 listenerVars>>

\* Nobody has joined the listener; it runs until main has returned.
Return ==
  /\ mpc = "return"
  /\ mpc' = "end"
  /\ UNCHANGED <<seg, joined, slot, tableVars, alive, launcherVars, locked,
                 dead, listenerVars>>

Main == \/ NewDispenser \/ JoinOldest \/ AddDispenser \/ CreateLauncher
        \/ JoinRest \/ Return

-----------------------------------------------------------------------------
\* The launcher of segment s and its sender thread.

\* It reads main's variable through the pointer in SegArgs.  The variable is
\* local to one turn of main's loop; its place on the stack is the same in every
\* turn, and keeps the old address until the next dispenser's is stored.
ReadSlot(s) ==
  /\ spc[s] = "begin"
  /\ spc' = [spc EXCEPT ![s] = "lock"]
  /\ mine' = [mine EXCEPT ![s] = slot]
  /\ UNCHANGED <<mainVars, tableVars, alive, locked, dead, listenerVars>>

LockSegment(s) ==
  /\ spc[s] = "lock"
  /\ ~locked[s]
  /\ locked' = [locked EXCEPT ![s] = TRUE]
  /\ spc' = [spc EXCEPT ![s] = "run"]
  /\ UNCHANGED <<mainVars, tableVars, alive, mine, dead, listenerVars>>

\* The sender takes a packet from its dispenser and transmits it, which shows
\* only when it uses up the dispenser's budget.
SendPacket(s) ==
  /\ spc[s] = "run"
  /\ Deleters(mine[s]) = {}
  /\ dead' = [dead EXCEPT ![mine[s]] = TRUE]
  /\ UNCHANGED <<mainVars, tableVars, alive, spc, mine, locked, listenerVars>>

\* The sender has ended (queue empty, budget spent or all acknowledged) and is
\* joined by the launcher.
SenderEnds(s) ==
  /\ spc[s] = "run"
  /\ spc' = [spc EXCEPT ![s] = "delete"]
  /\ UNCHANGED <<mainVars, tableVars, alive, mine, locked, dead, listenerVars>>

\* The dispenser and its stop flags are gone.
DeleteDispenser(s) ==
  /\ spc[s] = "delete"
  /\ spc' = [spc EXCEPT ![s] = "unlock"]
  /\ dead' = [dead EXCEPT ![mine[s]] = FALSE]
  /\ UNCHANGED <<mainVars, tableVars, alive, mine, locked, listenerVars>>

UnlockSegment(s) ==
  /\ spc[s] = "unlock"
  /\ locked' = [locked EXCEPT ![s] = FALSE]
  /\ spc' = [spc EXCEPT ![s] = "done"]
  /\ UNCHANGED <<mainVars, tableVars, alive, mine, dead, listenerVars>>

Launcher(s) ==
  \/ ReadSlot(s) \/ SenderEnds(s) \/ DeleteDispenser(s) \/ UnlockSegment(s)

-----------------------------------------------------------------------------
\* The listener.

\* trylock returned EBUSY: the segment is given up and its lock released.
GiveUp(s) ==
  /\ alive' = [i \in DOMAIN alive |-> IF i = s THEN 0 ELSE alive[i]]
  /\ locked' = [locked EXCEPT ![s] = FALSE]
  /\ UNCHANGED temp

\* trylock succeeded, the segment is alive and its dispenser is dead: the
\* segment is retired and the lock released again.
Retire(s) ==
  /\ alive' = [i \in DOMAIN alive |-> IF i = s THEN 0 ELSE alive[i]]
  /\ UNCHANGED locked

\* trylock succeeded and there is nothing to retire: the lock stays locked.
KeepLock(s) ==
  /\ locked' = [locked EXCEPT ![s] = TRUE]
  /\ UNCHANGED alive

\* What alive[s] may read as: beyond the end of the vector, anything.
Readings(s) == IF s <= Len(alive) THEN {alive[s]} ELSE {0, 1}

\* What the stop flags of dispenser d may read as: once it is deleted, anything.
StopFlags(d) == IF Deleters(d) = {} THEN {dead[d]} ELSE BOOLEAN

\* The listener reads them twice; a late launcher's sender on that dispenser may
\* set them in between.
EarlierStopFlags(d) ==
  IF \E s \in Segs : mine[s] = d /\ spc[s] \in {"run", "delete"}
  THEN {FALSE} \cup StopFlags(d) ELSE StopFlags(d)

\* One turn of the loop of getGlobalAllAcksRecieved.  It is one step: while the
\* listener regards the segment as alive, either the launcher holds the lock,
\* and trylock fails, or the segment's own sender is not running.
Scan ==
  /\ qpc = "scan" /\ info_lock
  /\ qi <= myDispensers
  /\ alive # <<>>
  /\ \/ locked[qi] /\ GiveUp(qi) /\ UNCHANGED qpc
     \/ /\ ~locked[qi]
        /\ \E a \in Readings(qi), first \in EarlierStopFlags(qi),
              second \in StopFlags(qi) :
             /\ temp' = IF a = 1 /\ ~first THEN 0 ELSE temp
             /\ IF a = 1 /\ second
                THEN /\ Retire(qi)
                     /\ qpc' = IF \A i \in DOMAIN alive : i # qi => alive[i] = 0
                               THEN "test1" ELSE qpc
                ELSE KeepLock(qi) /\ UNCHANGED qpc
  /\ qi' = qi + 1
  /\ UNCHANGED <<mainVars, tableVars, launcherVars, dead, info_lock, qack>>

\* alive[0] of a vector that has no storage yet.
ScanNull ==
  /\ qpc = "scan" /\ info_lock
  /\ qi <= myDispensers
  /\ alive = <<>>
  /\ mpc' = "crashed"
  /\ UNCHANGED <<seg, joined, slot, tableVars, alive, launcherVars, locked,
                 dead, listenerVars>>

ScanEnd ==
  /\ qpc = "scan" /\ info_lock
  /\ qi > myDispensers
  /\ qpc' = IF temp = 1 THEN "test1" ELSE "test0"
  /\ UNCHANGED <<mainVars, tableVars, alive, launcherVars, locked, dead,
                 info_lock, qi, temp, qack>>

\* The listener's tables hold every segment.
TablesFull == lengths >= NumSegs

\* The loop of doListen, entered with the result of the scan: it sleeps while
\* there is no segment, and otherwise waits for a datagram.
TestListen ==
  /\ qpc \in {"test0", "test1"}
  /\ qpc' = IF qpc = "test1" /\ TablesFull THEN "done"
            ELSE IF lengths = 0 THEN "scan" ELSE "recieve"
  /\ qi' = 1 /\ temp' = 1
  /\ UNCHANGED <<mainVars, tableVars, alive, launcherVars, locked, dead,
                 info_lock, qack>>

\* A datagram arrives; its first acknowledgement is of a packet on the wire.
Datagram ==
  /\ qpc = "recieve"
  /\ qack' \in OnWire
  /\ qpc' = "apply"
  /\ UNCHANGED <<mainVars, tableVars, alive, launcherVars, locked, dead,
                 info_lock, qi, temp>>

\* One turn of the loop of globalPutAcks: a live segment gets the
\* acknowledgement, which may be its last; that of any other segment is
\* dropped.  The datagram may go on with an acknowledgement of any segment.
GlobalPutAcks ==
  /\ qpc = "apply"
  /\ \/ UNCHANGED dead
     \/ /\ alive[qack] = 1 /\ Deleters(qack) = {}
        /\ dead' = [dead EXCEPT ![qack] = TRUE]
  /\ \/ qpc' = "scan" /\ qack' = 0
     \/ qack' \in OnWire /\ UNCHANGED qpc
  /\ UNCHANGED <<mainVars, tableVars, alive, launcherVars, locked, info_lock,
                 qi, temp>>

Listener == Scan \/ ScanNull \/ ScanEnd \/ TestListen \/ GlobalPutAcks

-----------------------------------------------------------------------------
Next ==
  /\ Running
  /\ \/ Main
     \/ \E s \in Segs : Launcher(s) \/ LockSegment(s) \/ SendPacket(s)
     \/ Listener
     \/ Datagram

Spec == Init /\ [][Next]_vars

\* Every thread is scheduled, and a lock that is released again and again is
\* not withheld from a waiting launcher for ever.  A sender ends by itself
\* (SenderStops of SegmentSender); the network need not deliver anything.
FairSpec ==
  /\ Spec
  /\ WF_vars(Running /\ Main)
  /\ \A s \in Segs : /\ WF_vars(Running /\ Launcher(s))
                     /\ SF_vars(Running /\ LockSegment(s))
  /\ WF_vars(Running /\ Listener)

-----------------------------------------------------------------------------
\* Every variable keeps its type.
TypeOK ==
  /\ mpc \in {"new", "join", "addDisp", "addLength", "addAlive", "create",
              "joinRest", "return", "end", "crashed"}
  /\ seg \in 0 .. NumSegs /\ joined \in 0 .. NumSegs /\ slot \in 0 .. NumSegs
  /\ myDispensers \in 0 .. NumSegs /\ lengths \in 0 .. NumSegs
  /\ alive \in Seq({0, 1})
  /\ spc \in [Segs -> {"none", "begin", "lock", "run", "delete", "unlock",
                       "done"}]
  /\ mine \in [Segs -> 0 .. NumSegs]
  /\ locked \in [Segs -> BOOLEAN]
  /\ dead \in [Segs -> BOOLEAN]
  /\ info_lock \in BOOLEAN
  /\ qpc \in {"scan", "test0", "test1", "recieve", "apply", "done"}
  /\ qi \in 1 .. NumSegs + 1
  /\ temp \in {0, 1}
  /\ qack \in 0 .. NumSegs

\* The dispensers in memory, and those that their own launcher has passed over
\* in favour of a later one.
InMemory == {d \in 1 .. slot : Deleters(d) = {}}
PassedOver == {s \in Segs : mine[s] > s}

\* However many segments the file has, and in whatever order their threads run,
\* the packets of at most MAX_CON_SEG + 1 of them are in memory: main reads the
\* next segment and builds its dispenser (server.cpp:629) before it waits for an
\* earlier thread (server.cpp:647).  This is so except for dispensers that a
\* late launcher has left behind, which nobody may ever delete.
MemoryBounded == Cardinality(InMemory \ PassedOver) <= MaxConSeg + 1

\* The acknowledgement of any packet on the wire finds its segment in the
\* listener's tables, although addPacketDispenser fills them without the lock.
AcksRoutable == \A s \in OnWire : s <= lengths /\ s <= Len(alive)

\* While the listener regards a segment as alive, the launcher that took the
\* segment's lock still has it.
LockGuardsAlive ==
  \A s \in DOMAIN alive :
    alive[s] = 1 /\ spc[s] \in {"run", "delete", "unlock"} => locked[s]

\* The UDP objects outlive every sender thread.
UdpOutlivesSenders ==
  mpc \in {"return", "end"} => \A s \in Segs : spc[s] = "done"

\* A launcher that starts late works on a later dispenser than its own, since
\* main has overwritten the variable that SegArgs points at (server.cpp:655);
\* it never gets an earlier one and never a null pointer.  The later one may be
\* deleted already, by the launcher that it was built for.
SlotNotBehind ==
  \A s \in Segs : spc[s] \notin {"none", "begin"} => mine[s] >= s

\* And it is at most MaxConSeg dispensers ahead of its own segment: main cannot
\* go further without joining that very launcher.
SlotDriftBounded ==
  \A s \in Segs : spc[s] \notin {"none", "begin"} => mine[s] <= s + MaxConSeg

\* The listener's reading of a vector without storage (server.cpp:217) can end
\* the program only before main has created the first launcher.
NullReadOnlyAtStart == mpc = "crashed" => seg = 0 /\ OnWire = {}

\* The listener leaves early (server.cpp:307), but not before main has handed
\* it every segment: at most MAX_CON_SEG segments run on without it.
FewUnserved ==
  qpc = "done" => Cardinality({s \in Segs : spc[s] # "done"}) <= MaxConSeg

Pool == INSTANCE SegmentPool WITH
  started <- seg,
  finished <- {s \in Segs : spc[s] = "done"},
  over <- ~Running

\* main and its launchers implement SegmentPool, although main joins by position
\* (server.cpp:647), whatever the listener does with the locks: it cannot open a
\* segment too many or close one, and main does not end before the last.
PoolSpec == Pool!Spec

\* Main and the launchers never wait for each other in a circle: when none of
\* them can move, a launcher waits for its segment's lock, and the listener has
\* been let in and taken it.  In particular the program ends if the
\* uninitialised info_lock shuts the listener out (server.cpp:119).
StallOnlyByListener ==
  Running /\ ~ENABLED (Main \/ \E s \in Segs : Launcher(s) \/ LockSegment(s)) =>
    /\ info_lock
    /\ \E s \in Segs : spc[s] = "lock" /\ locked[s]

\* A segment whose acknowledgements are ignored has been "Killed"
\* (server.cpp:237).  The code does not do so, since a trylock that fails clears
\* alive as well (server.cpp:215): see the run session_ignores_acks.
AckHonoured ==
  qpc = "apply" /\ spc[qack] = "run" /\ ~dead[qack] => alive[qack] = 1

\* "Exiting Segement Launcher: Waiting For Lock" (server.cpp:384): a dispenser
\* is deleted when nobody uses it.  The code does not wait: see the run
\* session_use_after_delete.
NoUseAfterDelete ==
  /\ qpc = "apply" => alive[qack] = 0 \/ Deleters(qack) = {}
  /\ qpc = "scan" /\ info_lock /\ qi \in DOMAIN alive =>
       locked[qi] \/ alive[qi] = 0 \/ Deleters(qi) = {}

\* Every launcher gets to "Exiting Segement Launcher: Complete"
\* (server.cpp:390).  The code does not see to it: see the run session_stalls.
LaunchersEnd == \A s \in Segs : spc[s] = "begin" ~> (spc[s] = "done" \/ ~Running)
=============================================================================
