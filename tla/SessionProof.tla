---------------------------- MODULE SessionProof ----------------------------
(***************************************************************************)
(* Proofs about Session, for every number of segments and every bound on   *)
(* those in transmission.                                                  *)
(***************************************************************************)
EXTENDS Session, SequenceTheorems, FiniteSetTheorems, TLAPS

\* main between the join of an earlier thread and the creation of the next one.
Building == {"addDisp", "addLength", "addAlive", "create"}

\* The loop of main: at most MaxConSeg threads are unjoined, one less while the
\* next segment is being built, and slot is the dispenser built last.
MainInv ==
  /\ joined <= seg
  /\ seg - joined <= MaxConSeg
  /\ slot \in {seg, seg + 1}
  /\ mpc = "new" => seg < NumSegs /\ slot = seg
  /\ mpc \in Building \cup {"join"} => seg < NumSegs /\ slot = seg + 1
  /\ mpc = "join" => joined < seg
  /\ mpc \in Building => seg - joined < MaxConSeg
  /\ mpc \in {"joinRest", "return", "end"} => seg = NumSegs
  /\ mpc \in {"return", "end"} => joined = NumSegs

\* The listener's tables, which main fills one after the other without a lock:
\* each has an entry for every segment started, and at most one more.
TablesInv ==
  /\ seg <= Len(alive) /\ Len(alive) <= lengths
  /\ lengths <= myDispensers /\ myDispensers <= seg + 1
  /\ lengths - joined <= MaxConSeg
  /\ mpc = "create" => Len(alive) = seg + 1
  /\ mpc \in {"addAlive", "create"} <=> lengths = seg + 1 /\ mpc # "crashed"
  /\ mpc \in {"addLength", "addAlive", "create"} <=>
       myDispensers = seg + 1 /\ mpc # "crashed"
  /\ mpc # "create" /\ mpc # "crashed" => Len(alive) = seg
  /\ mpc = "crashed" => seg = 0

\* The launchers: created in order, joined in order, and the dispenser that one
\* has read is its own or a later one, by at most MaxConSeg.
LauncherInv ==
  /\ \A s \in Segs : spc[s] = "none" <=> s > seg
  /\ \A s \in Segs : s <= joined => spc[s] = "done"
  /\ SlotNotBehind

\* The listener leaves the loop of doListen only with full tables, and applies
\* acknowledgements of transmitted packets only.
ListenInv ==
  /\ qpc = "done" => lengths = NumSegs
  /\ qpc = "apply" => qack \in OnWire

\* A listener that the uninitialised info_lock shuts out never touches a lock.
ShutOutInv ==
  ~info_lock =>
    /\ qpc = "scan"
    /\ \A s \in Segs : locked[s] => spc[s] \in {"run", "delete", "unlock"}

\* What main waits for in its two joins, and a launcher for in its lock: the
\* negations of the guards of Main and of Launcher(s) \/ LockSegment(s).
MainWaits ==
  mpc \in {"join", "joinRest"} /\ joined < NumSegs /\ spc[joined + 1] # "done"
LauncherWaits(s) ==
  \/ spc[s] \in {"none", "done"}
  \/ spc[s] = "lock" /\ locked[s]

\* Main and the launchers do not wait for each other in a circle: if all of them
\* wait, a launcher waits for a lock, and the listener has been let in.
NoCircularWait ==
  Running /\ MainWaits /\ (\A s \in Segs : LauncherWaits(s)) =>
    /\ info_lock
    /\ \E s \in Segs : spc[s] = "lock" /\ locked[s]

IInv ==
  /\ TypeOK
  /\ MainInv
  /\ TablesInv
  /\ LauncherInv
  /\ SlotDriftBounded
  /\ LockGuardsAlive
  /\ ListenInv
  /\ ShutOutInv

-----------------------------------------------------------------------------
\* Writing a 0 into the listener's vector keeps its length and its type.
LEMMA AliveCleared ==
  ASSUME alive \in Seq({0, 1}), NEW s
  PROVE  LET q == [i \in DOMAIN alive |-> IF i = s THEN 0 ELSE alive[i]]
         IN  /\ q \in Seq({0, 1})
             /\ Len(q) = Len(alive)
             /\ DOMAIN q = DOMAIN alive
<1> DEFINE q == [i \in DOMAIN alive |-> IF i = s THEN 0 ELSE alive[i]]
<1>1. Len(alive) \in Nat /\ DOMAIN alive = 1 .. Len(alive)
  OBVIOUS
<1>2. \A i \in 1 .. Len(alive) : alive[i] \in {0, 1}
  OBVIOUS
<1>3. q \in [1 .. Len(alive) -> {0, 1}]
  BY <1>1, <1>2
<1>4. q \in Seq({0, 1})
  BY <1>1, <1>3, SeqDef
<1>5. DOMAIN q = 1 .. Len(alive)
  BY <1>3
<1>6. Len(q) = Len(alive)
  BY <1>1, <1>4, <1>5, LenProperties
<1>7. QED
  BY <1>1, <1>4, <1>5, <1>6

\* The constructors and the thread starts establish the invariant.
LEMMA InvariantInit == Init => IInv
<1> SUFFICES ASSUME Init
             PROVE  IInv
  OBVIOUS
<1> USE SessionAssumption DEF Init, Segs
<1>1. TypeOK
  BY DEF TypeOK
<1>2. MainInv /\ TablesInv
  BY DEF MainInv, TablesInv, Building
<1>3. LauncherInv /\ SlotDriftBounded
  BY DEF LauncherInv, SlotNotBehind, SlotDriftBounded
<1>4. LockGuardsAlive
  BY DEF LockGuardsAlive
<1>5. ListenInv /\ ShutOutInv
  BY DEF ListenInv, ShutOutInv
<1>6. QED
  BY <1>1, <1>2, <1>3, <1>4, <1>5 DEF IInv

\* A step of main keeps every variable's type.
LEMMA MainType ==
  ASSUME TypeOK, MainInv, TablesInv, Main
  PROVE  TypeOK'
<1> USE SessionAssumption DEF TypeOK, Segs, tableVars, launcherVars, listenerVars
<1>1. CASE NewDispenser
  BY <1>1 DEF NewDispenser, NewSlot, MustJoin, MainInv
<1>2. CASE JoinOldest
  BY <1>2 DEF JoinOldest, Oldest, MainInv
<1>3. CASE AddDispenser
  <2>1. seg < NumSegs
    BY <1>3 DEF AddDispenser, AliveAdded, MainInv, Building
  <2>2. CASE mpc = "addDisp"
    <3>1. myDispensers = seg
      BY <2>2 DEF TablesInv
    <3>2. QED
      BY <1>3, <2>1, <2>2, <3>1 DEF AddDispenser, AliveAdded
  <2>3. CASE mpc = "addLength"
    <3>1. lengths = seg
      BY <2>3 DEF TablesInv
    <3>2. QED
      BY <1>3, <2>1, <2>3, <3>1 DEF AddDispenser, AliveAdded
  <2>4. CASE mpc = "addAlive"
    <3>1. alive' = Append(alive, 1)
      BY <1>3, <2>4 DEF AddDispenser, AliveAdded
    <3>2. Append(alive, 1) \in Seq({0, 1})
      BY AppendProperties
    <3>3. QED
      BY <1>3, <2>4, <3>1, <3>2 DEF AddDispenser, AliveAdded
  <2>5. QED
    BY <1>3, <2>2, <2>3, <2>4 DEF AddDispenser, AliveAdded
<1>4. CASE CreateLauncher
  BY <1>4 DEF CreateLauncher, MainInv, Building
<1>5. CASE JoinRest
  BY <1>5 DEF JoinRest, Oldest, AllJoined
<1>6. CASE Return
  BY <1>6 DEF Return
<1>7. QED
  BY <1>1, <1>2, <1>3, <1>4, <1>5, <1>6 DEF Main

\* A step of main keeps its loop in order and the tables full.
LEMMA MainTables ==
  ASSUME TypeOK, MainInv, TablesInv, Main
  PROVE  MainInv' /\ TablesInv'
<1> USE SessionAssumption
    DEF TypeOK, Segs, tableVars, launcherVars, listenerVars, Building
<1>0. Len(alive) \in Nat
  OBVIOUS
<1>1. CASE NewDispenser
  <2>1. MainInv'
    BY <1>1 DEF NewDispenser, NewSlot, MustJoin, MainInv, threads_active_count
  <2>2. TablesInv'
    BY <1>0, <1>1 DEF NewDispenser, NewSlot, MustJoin, TablesInv
  <2>3. QED
    BY <2>1, <2>2
<1>2. CASE JoinOldest
  <2>1. MainInv'
    BY <1>2 DEF JoinOldest, Oldest, MainInv
  <2>2. TablesInv'
    BY <1>0, <1>2 DEF JoinOldest, Oldest, MainInv, TablesInv
  <2>3. QED
    BY <2>1, <2>2
<1>3. CASE AddDispenser
  <2>1. MainInv'
    BY <1>3 DEF AddDispenser, AliveAdded, MainInv
  <2>2. mpc = "addAlive" => Len(alive') = Len(alive) + 1
    BY <1>3, AppendProperties DEF AddDispenser, AliveAdded
  <2>3. TablesInv'
    <3>1. seg < NumSegs /\ seg - joined < MaxConSeg /\ UNCHANGED <<seg, joined>>
      BY <1>3 DEF AddDispenser, AliveAdded, MainInv
    <3>2. CASE mpc = "addDisp"
      BY <1>0, <1>3, <3>1, <3>2 DEF AddDispenser, AliveAdded, TablesInv
    <3>3. CASE mpc = "addLength"
      BY <1>0, <1>3, <3>1, <3>3 DEF AddDispenser, AliveAdded, TablesInv
    <3>4. CASE mpc = "addAlive"
      <4>1. /\ mpc' = "create" /\ UNCHANGED tableVars
            /\ Len(alive') = Len(alive) + 1
        BY <1>3, <2>2, <3>4 DEF AddDispenser, AliveAdded
      <4>2. QED
        BY <1>0, <3>1, <3>4, <4>1 DEF TablesInv
    <3>5. QED
      BY <1>3, <3>2, <3>3, <3>4 DEF AddDispenser, AliveAdded
  <2>4. QED
    BY <2>1, <2>3
<1>4. CASE CreateLauncher
  <2>1. MainInv'
    BY <1>4 DEF CreateLauncher, MainInv
  <2>2. TablesInv'
    BY <1>0, <1>4 DEF CreateLauncher, MainInv, TablesInv
  <2>3. QED
    BY <2>1, <2>2
<1>5. CASE JoinRest
  <2>1. MainInv'
    BY <1>5 DEF JoinRest, Oldest, AllJoined, MainInv
  <2>2. TablesInv'
    BY <1>0, <1>5 DEF JoinRest, Oldest, AllJoined, MainInv, TablesInv
  <2>3. QED
    BY <2>1, <2>2
<1>6. CASE Return
  <2>1. MainInv'
    BY <1>6 DEF Return, MainInv
  <2>2. TablesInv'
    BY <1>0, <1>6 DEF Return, TablesInv
  <2>3. QED
    BY <2>1, <2>2
<1>7. QED
  BY <1>1, <1>2, <1>3, <1>4, <1>5, <1>6 DEF Main

\* A step of main leaves what the launchers have done alone; a launcher is
\* created as the next in order, and joined when it has ended.
LEMMA MainLaunchers ==
  ASSUME TypeOK, MainInv, TablesInv, LauncherInv, SlotDriftBounded, Main
  PROVE  LauncherInv' /\ SlotDriftBounded'
<1> USE SessionAssumption
    DEF TypeOK, Segs, tableVars, launcherVars, listenerVars, LauncherInv,
        SlotNotBehind, SlotDriftBounded
<1>1. CASE NewDispenser
  BY <1>1 DEF NewDispenser, NewSlot, MustJoin
<1>2. CASE JoinOldest
  <2>1. joined + 1 \in Segs
    BY <1>2 DEF JoinOldest, Oldest, MainInv
  <2>2. /\ joined' = joined + 1
        /\ spc[joined + 1] = "done"
        /\ UNCHANGED <<seg, spc, mine>>
    BY <1>2 DEF JoinOldest, Oldest
  <2>3. QED
    BY <2>1, <2>2
<1>3. CASE AddDispenser
  <2>1. UNCHANGED <<seg, joined, spc, mine>>
    BY <1>3 DEF AddDispenser, AliveAdded
  <2>2. QED
    BY <2>1
<1>4. CASE CreateLauncher
  <2>1. seg + 1 \in Segs
    BY <1>4 DEF CreateLauncher, MainInv, Building
  <2>2. \A s \in Segs : spc'[s] = IF s = seg + 1 THEN "begin" ELSE spc[s]
    BY <1>4, <2>1 DEF CreateLauncher
  <2>3. seg' = seg + 1 /\ UNCHANGED <<joined, mine>>
    BY <1>4 DEF CreateLauncher
  <2>4. joined <= seg
    BY DEF MainInv
  <2>5. LauncherInv'
    BY <2>1, <2>2, <2>3, <2>4
  <2>6. SlotDriftBounded'
    BY <2>2, <2>3
  <2>7. QED
    BY <2>5, <2>6
<1>5. CASE JoinRest
  <2>1. \/ joined' = joined
        \/ /\ joined' = joined + 1
           /\ joined + 1 \in Segs
           /\ spc[joined + 1] = "done"
    BY <1>5 DEF JoinRest, Oldest, AllJoined
  <2>2. UNCHANGED <<seg, spc, mine>>
    BY <1>5 DEF JoinRest, Oldest, AllJoined
  <2>3. QED
    BY <2>1, <2>2
<1>6. CASE Return
  BY <1>6 DEF Return
<1>7. QED
  BY <1>1, <1>2, <1>3, <1>4, <1>5, <1>6 DEF Main

\* A step of main takes no lock and revives no segment that has a launcher.
LEMMA MainListener ==
  ASSUME TypeOK, MainInv, TablesInv, LauncherInv, LockGuardsAlive, ListenInv, Main
  PROVE  LockGuardsAlive' /\ ListenInv'
<1> USE SessionAssumption
    DEF TypeOK, Segs, tableVars, launcherVars, listenerVars
<1>1. LockGuardsAlive'
  <2>1. CASE mpc = "addAlive" /\ AddDispenser
    <3>1. alive' = Append(alive, 1) /\ UNCHANGED <<spc, locked>>
      BY <2>1 DEF AddDispenser, AliveAdded
    <3>2. Len(alive) = seg /\ seg < NumSegs
      BY <2>1 DEF TablesInv, MainInv, Building
    <3>3. \A s \in DOMAIN alive' : \/ s \in DOMAIN alive /\ alive'[s] = alive[s]
                                   \/ s = seg + 1
      BY <3>1, <3>2, AppendProperties
    <3>4. spc[seg + 1] = "none"
      BY <3>2 DEF LauncherInv
    <3>5. QED
      BY <3>1, <3>3, <3>4 DEF LockGuardsAlive
  <2>2. CASE CreateLauncher
    <3>1. \A s \in Segs : spc'[s] = spc[s] \/ spc'[s] = "begin"
      BY <2>2 DEF CreateLauncher
    <3>2. UNCHANGED <<alive, locked>>
      BY <2>2 DEF CreateLauncher
    <3>3. DOMAIN alive \subseteq Segs
      BY <2>2 DEF TablesInv, CreateLauncher, MainInv, Building
    <3>4. QED
      BY <3>1, <3>2, <3>3 DEF LockGuardsAlive
  <2>3. CASE ~(mpc = "addAlive" /\ AddDispenser) /\ ~CreateLauncher
    <3>1. UNCHANGED <<alive, spc, locked>>
      BY <2>3 DEF Main, NewDispenser, NewSlot, MustJoin, JoinOldest, Oldest,
          AddDispenser, AliveAdded, JoinRest, AllJoined, Return
    <3>2. QED
      BY <3>1 DEF LockGuardsAlive
  <2>4. QED
    BY <2>1, <2>2, <2>3
<1>2. ListenInv'
  <2>1. UNCHANGED <<qpc, qack>> /\ OnWire \subseteq OnWire'
    <3>1. UNCHANGED <<qpc, qack>>
      BY DEF Main, NewDispenser, NewSlot, MustJoin, JoinOldest, Oldest,
          AddDispenser, AliveAdded, CreateLauncher, JoinRest, AllJoined, Return
    <3>2. CASE CreateLauncher
      <4>1. spc' = [spc EXCEPT ![seg + 1] = "begin"]
        BY <3>2 DEF CreateLauncher
      <4>2. seg + 1 \in Segs => spc[seg + 1] = "none"
        BY DEF LauncherInv
      <4>3. QED
        BY <3>1, <4>1, <4>2 DEF OnWire
    <3>3. CASE ~CreateLauncher
      <4>1. spc' = spc
        BY <3>3 DEF Main, NewDispenser, NewSlot, MustJoin, JoinOldest, Oldest,
            AddDispenser, AliveAdded, JoinRest, AllJoined, Return
      <4>2. QED
        BY <3>1, <4>1 DEF OnWire
    <3>4. QED
      BY <3>2, <3>3
  <2>2. lengths = NumSegs => lengths' = NumSegs
    <3>1. lengths' = lengths \/ (mpc = "addLength" /\ seg < NumSegs)
      <4>1. CASE AddDispenser
        BY <4>1 DEF AddDispenser, AliveAdded, MainInv, Building
      <4>2. CASE ~AddDispenser
        <5>1. Main /\ ~AddDispenser => lengths' = lengths
          BY Zenon DEF Main, NewDispenser, NewSlot, MustJoin, JoinOldest, Oldest,
              CreateLauncher, JoinRest, AllJoined, Return, tableVars
        <5>2. QED
          BY <4>2, <5>1
      <4>3. QED
        BY <4>1, <4>2
    <3>2. mpc = "addLength" => lengths <= seg
      BY DEF TablesInv
    <3>3. lengths' = lengths \/ lengths < NumSegs
      BY <3>1, <3>2
    <3>4. QED
      BY <3>3
  <2>3. QED
    BY <2>1, <2>2 DEF ListenInv
<1>3. QED
  BY <1>1, <1>2

-----------------------------------------------------------------------------
\* A step of a launcher or of its sender keeps the invariant.
LEMMA LauncherStep ==
  ASSUME IInv, NEW s \in Segs, Launcher(s) \/ LockSegment(s) \/ SendPacket(s)
  PROVE  /\ TypeOK' /\ MainInv' /\ TablesInv' /\ LauncherInv'
         /\ SlotDriftBounded' /\ LockGuardsAlive' /\ ListenInv'
<1> USE SessionAssumption
    DEF IInv, Segs, mainVars, tableVars, launcherVars, listenerVars
<1>0. TypeOK /\ MainInv /\ TablesInv /\ LauncherInv
  OBVIOUS
<1>1. CASE ReadSlot(s)
  <2>0. UNCHANGED <<mainVars, tableVars, alive, locked, dead, listenerVars>>
    BY <1>1 DEF ReadSlot
  <2>1. slot >= s /\ slot <= s + MaxConSeg
    <3>1. s <= seg /\ s > joined
      BY <1>1 DEF ReadSlot, LauncherInv, TypeOK
    <3>2. QED
      BY <3>1 DEF MainInv, TypeOK
  <2>2. \A t \in Segs : spc'[t] = IF t = s THEN "lock" ELSE spc[t]
    BY <1>1 DEF ReadSlot, TypeOK
  <2>3. \A t \in Segs : mine'[t] = IF t = s THEN slot ELSE mine[t]
    BY <1>1 DEF ReadSlot, TypeOK
  <2>4. TypeOK'
    BY <1>1, <2>0 DEF ReadSlot, TypeOK
  <2>5. MainInv' /\ TablesInv'
    BY <2>0 DEF MainInv, TablesInv
  <2>6. LauncherInv' /\ SlotDriftBounded'
    BY <1>1, <2>0, <2>1, <2>2, <2>3
    DEF ReadSlot, LauncherInv, SlotNotBehind, SlotDriftBounded
  <2>7. LockGuardsAlive' /\ ListenInv'
    <3>1. DOMAIN alive \subseteq Segs
      BY DEF TablesInv, MainInv, TypeOK
    <3>2. OnWire \subseteq OnWire'
      BY <1>1, <2>2 DEF OnWire, ReadSlot
    <3>3. QED
      BY <2>0, <2>2, <3>1, <3>2 DEF LockGuardsAlive, ListenInv
  <2>8. QED
    BY <2>4, <2>5, <2>6, <2>7
<1>2. CASE ~ReadSlot(s)
  <2>1. UNCHANGED <<mainVars, tableVars, alive, mine, listenerVars>>
    BY <1>2 DEF Launcher, LockSegment, SendPacket, SenderEnds, DeleteDispenser,
                UnlockSegment
  <2>2. /\ spc[s] \notin {"none", "begin", "done"}
        /\ spc' \in [Segs -> {"none", "begin", "lock", "run", "delete", "unlock",
                              "done"}]
        /\ spc'[s] \notin {"none", "begin"}
        /\ \A t \in Segs \ {s} : spc'[t] = spc[t]
    BY <1>2 DEF Launcher, LockSegment, SendPacket, SenderEnds, DeleteDispenser,
                UnlockSegment, TypeOK
  <2>3. OnWire \subseteq OnWire'
    <3>1. spc[s] = "lock" \/ spc'[s] # "lock"
      BY <1>2 DEF Launcher, LockSegment, SendPacket, SenderEnds, DeleteDispenser,
                  UnlockSegment, TypeOK
    <3>2. QED
      BY <2>2, <3>1 DEF OnWire
  <2>4. /\ locked' \in [Segs -> BOOLEAN]
        /\ \A t \in Segs \ {s} : locked[t] => locked'[t]
        /\ spc'[s] \in {"run", "delete", "unlock"} =>
             \/ locked'[s]
             \/ spc[s] \in {"run", "delete", "unlock"} /\ locked' = locked
    <3>1. CASE Launcher(s)
      BY <1>2, <3>1 DEF Launcher, SenderEnds, DeleteDispenser, UnlockSegment,
          TypeOK
    <3>2. CASE LockSegment(s)
      <4>1. locked' = [locked EXCEPT ![s] = TRUE] /\ locked \in [Segs -> BOOLEAN]
        BY <3>2 DEF LockSegment, TypeOK
      <4>2. locked' \in [Segs -> BOOLEAN] /\ locked'[s] = TRUE
        BY <4>1
      <4>3. \A t \in Segs \ {s} : locked'[t] = locked[t]
        BY <4>1
      <4>4. QED
        BY <4>2, <4>3
    <3>3. CASE SendPacket(s)
      BY <3>3 DEF SendPacket, TypeOK
    <3>4. QED
      BY <3>1, <3>2, <3>3
  <2>5. dead' \in [Segs -> BOOLEAN]
    BY <1>2 DEF Launcher, LockSegment, SendPacket, SenderEnds, DeleteDispenser,
                UnlockSegment, TypeOK
  <2>6. TypeOK'
    BY <2>1, <2>2, <2>4, <2>5 DEF TypeOK
  <2>7. MainInv' /\ TablesInv'
    BY <2>1 DEF MainInv, TablesInv
  <2>8. LauncherInv' /\ SlotDriftBounded'
    <3>1. s <= seg /\ ~(s <= joined)
      BY <2>2 DEF LauncherInv, TypeOK
    <3>2. \A t \in Segs : /\ spc'[t] = "none" <=> spc[t] = "none"
                          /\ spc[t] = "done" => spc'[t] = "done"
                          /\ spc'[t] = "begin" <=> spc[t] = "begin"
      BY <2>2
    <3>0. seg' = seg /\ joined' = joined /\ mine' = mine
      BY <2>1
    <3>3. /\ \A t \in Segs : spc'[t] = "none" <=> t > seg'
          /\ \A t \in Segs : t <= joined' => spc'[t] = "done"
      <4>1. \A t \in Segs : spc[t] = "none" <=> t > seg
        BY Zenon DEF LauncherInv
      <4>2. \A t \in Segs : t <= joined => spc[t] = "done"
        BY Zenon DEF LauncherInv
      <4>3. QED
        BY <3>0, <3>2, <4>1, <4>2
    <3>4. SlotNotBehind' /\ SlotDriftBounded'
      <4>1. \A t \in Segs : spc[t] \notin {"none", "begin"} =>
              mine[t] >= t /\ mine[t] <= t + MaxConSeg
        BY DEF LauncherInv, SlotNotBehind, SlotDriftBounded
      <4>2. \A t \in Segs : spc'[t] \notin {"none", "begin"} =>
              mine'[t] >= t /\ mine'[t] <= t + MaxConSeg
        BY <3>0, <3>2, <4>1
      <4>3. QED
        BY <4>2 DEF SlotNotBehind, SlotDriftBounded
    <3>5. QED
      BY <3>3, <3>4 DEF LauncherInv
  <2>9. LockGuardsAlive'
    <3>1. DOMAIN alive \subseteq Segs
      BY DEF TablesInv, MainInv, TypeOK
    <3>2. QED
      BY <2>1, <2>2, <2>4, <3>1 DEF LockGuardsAlive
  <2>10. ListenInv'
    BY <2>1, <2>3 DEF ListenInv
  <2>11. QED
    BY <2>6, <2>7, <2>8, <2>9, <2>10
<1>3. QED
  BY <1>1, <1>2

\* A step of the listener, or the arrival of a datagram, keeps the invariant.
LEMMA ListenerStep ==
  ASSUME IInv, Running, Listener \/ Datagram
  PROVE  /\ TypeOK' /\ MainInv' /\ TablesInv' /\ LauncherInv'
         /\ SlotDriftBounded' /\ LockGuardsAlive' /\ ListenInv'
<1> USE SessionAssumption
    DEF IInv, Segs, mainVars, tableVars, launcherVars, listenerVars
<1>0. TypeOK /\ MainInv /\ TablesInv /\ LauncherInv
  OBVIOUS
<1>1. DOMAIN alive \subseteq Segs /\ Len(alive) \in Nat
  BY DEF TablesInv, MainInv, TypeOK
<1>2. CASE ScanNull
  <2>1. UNCHANGED <<seg, joined, slot, tableVars, alive, launcherVars, locked,
                    dead, listenerVars>> /\ mpc' = "crashed"
    BY <1>2 DEF ScanNull
  <2>2. TypeOK'
    BY <2>1 DEF TypeOK
  <2>3. MainInv'
    BY <2>1 DEF MainInv, Building
  <2>4. TablesInv'
    <3>1. seg = 0
      BY <1>2 DEF ScanNull, TablesInv, TypeOK
    <3>2. mpc # "crashed"
      BY DEF Running
    <3>3. QED
      BY <2>1, <3>1, <3>2 DEF TablesInv
  <2>5. LauncherInv' /\ SlotDriftBounded'
    BY <2>1 DEF LauncherInv, SlotNotBehind, SlotDriftBounded
  <2>6. LockGuardsAlive' /\ ListenInv'
    BY <2>1 DEF LockGuardsAlive, ListenInv, OnWire
  <2>7. QED
    BY <2>2, <2>3, <2>4, <2>5, <2>6
<1>3. CASE Scan
  <2>0. UNCHANGED <<mainVars, tableVars, launcherVars, dead, info_lock, qack>>
    BY <1>3 DEF Scan
  <2>1. qi \in Segs
    BY <1>3 DEF Scan, TypeOK
  <2>2. /\ GiveUp(qi) \/ Retire(qi) \/ KeepLock(qi)
        /\ qpc' \in {"test1", qpc}
        /\ temp' \in {0, temp}
        /\ qi' = qi + 1
    BY <1>3 DEF Scan, GiveUp
  <2>3. CASE GiveUp(qi) \/ Retire(qi)
    <3>1. /\ alive' \in Seq({0, 1})
          /\ Len(alive') = Len(alive)
          /\ DOMAIN alive' = DOMAIN alive
      <4>1. alive' = [i \in DOMAIN alive |-> IF i = qi THEN 0 ELSE alive[i]]
        BY <2>3 DEF GiveUp, Retire
      <4>2. alive \in Seq({0, 1})
        BY DEF TypeOK
      <4>3. QED
        BY <4>1, <4>2, AliveCleared
    <3>2. \A t \in DOMAIN alive : alive'[t] = IF t = qi THEN 0 ELSE alive[t]
      BY <2>3 DEF GiveUp, Retire
    <3>3. locked' \in {locked, [locked EXCEPT ![qi] = FALSE]}
      BY <2>3 DEF GiveUp, Retire
    <3>4. TypeOK'
      <4>1. qpc' \in {"scan", "test1"} /\ qi' \in 1 .. NumSegs + 1
        BY <2>1, <2>2, <1>3 DEF Scan, TypeOK
      <4>2. temp' \in {0, 1} /\ locked' \in [Segs -> BOOLEAN]
        BY <2>2, <3>3 DEF TypeOK
      <4>3. QED
        BY <2>0, <3>1, <4>1, <4>2 DEF TypeOK
    <3>5. MainInv' /\ LauncherInv' /\ SlotDriftBounded'
      BY <2>0 DEF MainInv, LauncherInv, SlotNotBehind, SlotDriftBounded
    <3>6. TablesInv'
      BY <2>0, <3>1 DEF TablesInv
    <3>7. LockGuardsAlive'
      BY <1>1, <2>0, <3>1, <3>2, <3>3 DEF LockGuardsAlive, TypeOK
    <3>8. QED
      BY <2>0, <2>2, <1>3, <3>4, <3>5, <3>6, <3>7 DEF ListenInv, Scan, OnWire
  <2>4. CASE KeepLock(qi)
    <3>1. locked' = [locked EXCEPT ![qi] = TRUE] /\ alive' = alive
      BY <2>4 DEF KeepLock
    <3>2. temp' \in {0, 1}
      BY <2>2 DEF TypeOK
    <3>3. TypeOK'
      BY <2>0, <2>1, <2>2, <3>1, <3>2, <1>3 DEF TypeOK, Scan
    <3>4. MainInv' /\ TablesInv' /\ LauncherInv' /\ SlotDriftBounded'
      BY <2>0, <3>1
      DEF MainInv, TablesInv, LauncherInv, SlotNotBehind, SlotDriftBounded
    <3>5. LockGuardsAlive'
      BY <1>1, <2>0, <3>1 DEF LockGuardsAlive, TypeOK
    <3>6. QED
      BY <2>0, <2>2, <1>3, <3>3, <3>4, <3>5 DEF ListenInv, Scan, OnWire
  <2>5. QED
    BY <2>2, <2>3, <2>4
<1>4. CASE ScanEnd \/ TestListen \/ Datagram \/ GlobalPutAcks
  <2>1. UNCHANGED <<mainVars, tableVars, alive, launcherVars, locked, info_lock>>
    BY <1>4 DEF ScanEnd, TestListen, TablesFull, Datagram, GlobalPutAcks
  <2>2. dead' \in [Segs -> BOOLEAN]
    BY <1>4 DEF ScanEnd, TestListen, TablesFull, Datagram, GlobalPutAcks, TypeOK
  <2>3. qi' \in {1, qi} /\ temp' \in {1, temp}
    BY <1>4 DEF ScanEnd, TestListen, TablesFull, Datagram, GlobalPutAcks
  <2>4. /\ qpc' \in {"scan", "test0", "test1", "recieve", "apply", "done"}
        /\ qack' \in OnWire \cup {qack, 0}
        /\ qpc' = "apply" => qack' \in OnWire
        /\ qpc' = "done" => lengths >= NumSegs
    <3>1. CASE ScanEnd
      BY <3>1 DEF ScanEnd
    <3>2. CASE TestListen
      BY <3>2 DEF TestListen, TablesFull
    <3>3. CASE Datagram
      BY <3>3 DEF Datagram
    <3>4. CASE GlobalPutAcks
      BY <3>4 DEF GlobalPutAcks, ListenInv
    <3>5. QED
      BY <1>4, <3>1, <3>2, <3>3, <3>4
  <2>5. TypeOK'
    <3>1. qack' \in 0 .. NumSegs /\ qi' \in 1 .. NumSegs + 1 /\ temp' \in {0, 1}
      BY <2>3, <2>4 DEF TypeOK, OnWire
    <3>2. qpc' \in {"scan", "test0", "test1", "recieve", "apply", "done"}
      BY <2>4
    <3>3. QED
      BY <2>1, <2>2, <3>1, <3>2 DEF TypeOK
  <2>6. MainInv' /\ TablesInv' /\ LauncherInv' /\ SlotDriftBounded'
    BY <2>1 DEF MainInv, TablesInv, LauncherInv, SlotNotBehind, SlotDriftBounded
  <2>7. LockGuardsAlive' /\ ListenInv'
    BY <2>1, <2>4 DEF LockGuardsAlive, ListenInv, TypeOK, OnWire
  <2>8. QED
    BY <2>5, <2>6, <2>7
<1>5. QED
  BY <1>2, <1>3, <1>4 DEF Listener

\* While the listener is shut out, only launchers that run hold locks.
LEMMA ShutOutStep ==
  ASSUME TypeOK, MainInv, LauncherInv, ShutOutInv, Next
  PROVE  ShutOutInv'
<1> SUFFICES ASSUME ~info_lock'
             PROVE  /\ qpc' = "scan"
                    /\ \A s \in Segs : locked'[s] =>
                                         spc'[s] \in {"run", "delete", "unlock"}
  BY DEF ShutOutInv
<1> USE DEF mainVars, tableVars, launcherVars, listenerVars
<1>1. CASE Main
  <2>1. UNCHANGED <<info_lock, qpc, locked>>
    BY <1>1 DEF Main, NewDispenser, NewSlot, MustJoin, JoinOldest, Oldest,
        AddDispenser, AliveAdded, CreateLauncher, JoinRest, AllJoined, Return
  <2>2. CASE CreateLauncher
    <3>1. spc' = [spc EXCEPT ![seg + 1] = "begin"] /\ seg + 1 \in Segs
      BY <2>2, SessionAssumption
      DEF CreateLauncher, MainInv, Building, TypeOK, Segs
    <3>2. spc[seg + 1] = "none"
      BY <3>1 DEF LauncherInv, TypeOK
    <3>3. QED
      BY <2>1, <3>1, <3>2 DEF ShutOutInv, TypeOK
  <2>3. CASE ~CreateLauncher
    <3>1. spc' = spc
      BY <1>1, <2>3 DEF Main, NewDispenser, NewSlot, MustJoin, JoinOldest,
          Oldest, AddDispenser, AliveAdded, JoinRest, AllJoined, Return
    <3>2. QED
      BY <2>1, <3>1 DEF ShutOutInv
  <2>4. QED
    BY <2>2, <2>3
<1>2. ASSUME NEW s \in Segs, Launcher(s) \/ LockSegment(s) \/ SendPacket(s)
      PROVE  /\ qpc' = "scan"
             /\ \A t \in Segs : locked'[t] =>
                                  spc'[t] \in {"run", "delete", "unlock"}
  <2>1. qpc = "scan" /\ qpc' = qpc /\ info_lock' = info_lock
    BY <1>2 DEF Launcher, ReadSlot, LockSegment, SendPacket, SenderEnds,
                DeleteDispenser, UnlockSegment, ShutOutInv
  <2>2. \A t \in Segs : locked[t] => spc[t] \in {"run", "delete", "unlock"}
    BY <2>1 DEF ShutOutInv
  <2>3. \A t \in Segs \ {s} : locked'[t] = locked[t] /\ spc'[t] = spc[t]
    BY <1>2 DEF Launcher, ReadSlot, LockSegment, SendPacket, SenderEnds,
                DeleteDispenser, UnlockSegment, TypeOK
  <2>4. locked'[s] => spc'[s] \in {"run", "delete", "unlock"}
    <3>1. CASE ReadSlot(s) \/ SenderEnds(s) \/ DeleteDispenser(s) \/ SendPacket(s)
      BY <2>2, <3>1 DEF ReadSlot, SenderEnds, DeleteDispenser, SendPacket, TypeOK
    <3>2. CASE LockSegment(s)
      BY <3>2 DEF LockSegment, TypeOK
    <3>3. CASE UnlockSegment(s)
      BY <3>3 DEF UnlockSegment, TypeOK
    <3>4. QED
      BY <1>2, <3>1, <3>2, <3>3 DEF Launcher
  <2>5. QED
    BY <2>1, <2>2, <2>3, <2>4
<1>3. CASE Listener \/ Datagram
  <2>1. info_lock' = info_lock
    BY <1>3 DEF Listener, Scan, ScanNull, ScanEnd, TestListen, TablesFull,
        GlobalPutAcks, Datagram
  <2>2. qpc = "scan"
    BY <2>1 DEF ShutOutInv
  <2>3. info_lock
    BY <1>3, <2>2 DEF Listener, Scan, ScanNull, ScanEnd, TestListen, TablesFull,
        GlobalPutAcks, Datagram
  <2>4. QED
    BY <2>1, <2>3
<1>4. QED
  BY <1>1, <1>2, <1>3 DEF Next

\* Every step of the program keeps the invariant.
LEMMA InvariantStep == IInv /\ [Next]_vars => IInv'
<1> SUFFICES ASSUME IInv, [Next]_vars
             PROVE  IInv'
  OBVIOUS
<1>0. CASE Next
  <2>1. ShutOutInv'
    BY <1>0, ShutOutStep DEF IInv
  <2>2. CASE Main
    BY <2>1, <2>2, MainType, MainTables, MainLaunchers, MainListener DEF IInv
  <2>3. CASE \E s \in Segs : Launcher(s) \/ LockSegment(s) \/ SendPacket(s)
    BY <2>1, <2>3, LauncherStep DEF IInv
  <2>4. CASE Running /\ (Listener \/ Datagram)
    BY <2>1, <2>4, ListenerStep DEF IInv
  <2>5. QED
    BY <1>0, <2>2, <2>3, <2>4 DEF Next
<1>1. CASE UNCHANGED vars
  BY <1>1 DEF vars, mainVars, tableVars, launcherVars, listenerVars, IInv, TypeOK,
              MainInv, TablesInv, LauncherInv, SlotNotBehind, SlotDriftBounded,
              LockGuardsAlive, ListenInv, OnWire, ShutOutInv
<1>2. QED
  BY <1>0, <1>1

\* The order of main's loop, the listener's tables, the launchers and the locks
\* are tied together by IInv in every reachable state.
THEOREM Invariance == Spec => []IInv
  BY InvariantInit, InvariantStep, PTL DEF Spec

\* Every variable of the session keeps its type.
THEOREM TypeCorrect == Spec => []TypeOK
<1>1. IInv => TypeOK
  BY DEF IInv
<1>2. QED
  BY <1>1, Invariance, PTL

-----------------------------------------------------------------------------
\* Segments between the last one joined and the last one created are at most as
\* many as main's counters differ by.
LEMMA UnjoinedCount ==
  ASSUME IInv, NEW T \in SUBSET (joined + 1 .. seg)
  PROVE  /\ IsFiniteSet(T) /\ Cardinality(T) \in Nat
         /\ Cardinality(T) <= seg - joined
<1>1. seg \in Nat /\ joined \in Nat /\ joined <= seg
  BY SessionAssumption DEF IInv, TypeOK, MainInv
<1>2. joined + 1 \in Int /\ seg \in Int
  BY <1>1
<1>3. Cardinality(joined + 1 .. seg)
        = IF joined + 1 > seg THEN 0 ELSE seg - (joined + 1) + 1
  BY <1>2, FS_Interval, Zenon
<1>4. IsFiniteSet(joined + 1 .. seg)
  BY <1>2, FS_Interval, Zenon
<1>5. Cardinality(joined + 1 .. seg) = seg - joined
  BY <1>1, <1>3
<1>6. QED
  BY <1>4, <1>5, FS_Subset, FS_CardinalityType

\* However many segments there are, the dispensers in memory, apart from those
\* passed over by a late launcher, are those of threads between the last one
\* joined and the last one created, and the one that main has built last.
THEOREM MemoryStaysBounded == Spec => []MemoryBounded
<1>1. IInv => MemoryBounded
  <2> SUFFICES ASSUME IInv
               PROVE  Cardinality(InMemory \ PassedOver) <= MaxConSeg + 1
    BY DEF MemoryBounded
  <2> DEFINE T == (InMemory \ PassedOver) \cap (joined + 1 .. seg)
  <2> USE SessionAssumption DEF Segs
  <2>1. /\ seg \in Nat /\ joined \in Nat /\ seg - joined <= MaxConSeg
        /\ seg <= NumSegs /\ slot \in {seg, seg + 1}
    BY DEF IInv, TypeOK, MainInv
  <2>2. ASSUME NEW d \in InMemory \ PassedOver
        PROVE  d \in T \cup {seg + 1}
    <3>1. d \in 1 .. slot /\ Deleters(d) = {} /\ ~(d \in Segs /\ mine[d] > d)
      BY DEF InMemory, PassedOver
    <3>2. CASE d <= seg
      <4>1. d \in Segs /\ mine[d] <= d
        BY <2>1, <3>1, <3>2 DEF IInv, TypeOK
      <4>2. spc[d] # "done"
        <5>1. mine[d] \in Nat /\ d \in Nat
          BY <4>1 DEF IInv, TypeOK
        <5>2. spc[d] = "done" => mine[d] >= d
          BY <4>1 DEF IInv, LauncherInv, SlotNotBehind
        <5>3. spc[d] = "done" => mine[d] = d
          BY <4>1, <5>1, <5>2
        <5>4. QED
          BY <3>1, <4>1, <5>3 DEF Deleters
      <4>3. ~(d <= joined)
        BY <4>1, <4>2 DEF IInv, LauncherInv
      <4>4. QED
        BY <2>1, <3>2, <4>1, <4>3
    <3>3. CASE d > seg
      BY <2>1, <3>1, <3>3
    <3>4. QED
      BY <2>1, <3>1, <3>2, <3>3
  <2>3. /\ IsFiniteSet(T) /\ Cardinality(T) \in Nat
        /\ Cardinality(T) <= seg - joined
    BY UnjoinedCount
  <2>4. /\ IsFiniteSet(T \cup {seg + 1})
        /\ Cardinality(T \cup {seg + 1}) <= Cardinality(T) + 1
    <3>1. /\ IsFiniteSet(T \cup {seg + 1})
          /\ Cardinality(T \cup {seg + 1}) =
               IF seg + 1 \in T THEN Cardinality(T) ELSE Cardinality(T) + 1
      BY <2>3, FS_AddElement, Zenon
    <3>2. QED
      BY <2>3, <3>1
  <2>5. /\ Cardinality(InMemory \ PassedOver) <= Cardinality(T \cup {seg + 1})
        /\ Cardinality(InMemory \ PassedOver) \in Nat
        /\ Cardinality(T \cup {seg + 1}) \in Nat
    <3>1. InMemory \ PassedOver \subseteq T \cup {seg + 1}
      BY <2>2
    <3>2. QED
      BY <2>4, <3>1, FS_Subset, FS_CardinalityType
  <2>6. QED
    BY <2>1, <2>3, <2>4, <2>5
<1>2. QED
  BY <1>1, Invariance, PTL

\* The acknowledgement of a transmitted packet never indexes the listener's
\* vectors beyond their end, although they are filled without the lock.
THEOREM TablesCoverTheWire == Spec => []AcksRoutable
<1>1. IInv => AcksRoutable
  <2> SUFFICES ASSUME IInv, NEW s \in OnWire
               PROVE  s <= lengths /\ s <= Len(alive)
    BY DEF AcksRoutable
  <2>1. s \in Nat /\ seg \in Nat /\ lengths \in Nat /\ Len(alive) \in Nat
    BY SessionAssumption DEF IInv, TypeOK, OnWire, Segs
  <2>2. s <= seg /\ seg <= Len(alive) /\ Len(alive) <= lengths
    BY <2>1 DEF IInv, LauncherInv, TablesInv, OnWire
  <2>3. QED
    BY <2>1, <2>2
<1>2. QED
  BY <1>1, Invariance, PTL

\* As long as the listener serves a segment, the launcher that locked it still
\* has the lock, in spite of the listener's trylocks and unlocks.
THEOREM AliveIsLocked == Spec => []LockGuardsAlive
<1>1. IInv => LockGuardsAlive
  BY DEF IInv
<1>2. QED
  BY <1>1, Invariance, PTL

\* main deletes the UDP objects only when every launcher has ended.
THEOREM SendersEndFirst == Spec => []UdpOutlivesSenders
<1>1. IInv => UdpOutlivesSenders
  BY SessionAssumption
  DEF IInv, MainInv, LauncherInv, UdpOutlivesSenders, Segs
<1>2. QED
  BY <1>1, Invariance, PTL

\* A launcher that reads main's variable late gets its own dispenser or a later
\* one, never that of an earlier segment.
THEOREM LateLauncherNotBehind == Spec => []SlotNotBehind
<1>1. IInv => SlotNotBehind
  BY DEF IInv, LauncherInv
<1>2. QED
  BY <1>1, Invariance, PTL

\* And that dispenser is at most MaxConSeg ahead of the launcher's segment.
THEOREM LateLauncherNear == Spec => []SlotDriftBounded
<1>1. IInv => SlotDriftBounded
  BY DEF IInv
<1>2. QED
  BY <1>1, Invariance, PTL

\* Once the first launcher exists the listener never finds its vector empty.
THEOREM NoLateNullRead == Spec => []NullReadOnlyAtStart
<1>1. IInv => NullReadOnlyAtStart
  BY SessionAssumption
  DEF IInv, TypeOK, TablesInv, LauncherInv, NullReadOnlyAtStart, OnWire, Segs
<1>2. QED
  BY <1>1, Invariance, PTL

\* When the listener leaves its loop, all but MaxConSeg launchers have ended.
THEOREM FewLeftUnserved == Spec => []FewUnserved
<1>1. IInv => FewUnserved
  <2> SUFFICES ASSUME IInv, qpc = "done"
               PROVE  Cardinality({s \in Segs : spc[s] # "done"}) <= MaxConSeg
    BY DEF FewUnserved
  <2> DEFINE Unserved == {s \in Segs : spc[s] # "done"}
  <2> USE SessionAssumption DEF Segs
  <2>1. joined \in 0 .. NumSegs /\ NumSegs - joined <= MaxConSeg
    BY DEF IInv, TypeOK, ListenInv, TablesInv
  <2>2. Unserved \subseteq joined + 1 .. NumSegs
    BY <2>1 DEF IInv, LauncherInv
  <2>3. /\ IsFiniteSet(joined + 1 .. NumSegs)
        /\ Cardinality(joined + 1 .. NumSegs) = NumSegs - joined
    BY <2>1, FS_Interval
  <2>4. Cardinality(Unserved) <= NumSegs - joined /\ Cardinality(Unserved) \in Nat
    BY <2>2, <2>3, FS_Subset, FS_CardinalityType
  <2>5. QED
    BY <2>1, <2>4
<1>2. QED
  BY <1>1, Invariance, PTL

\* main and the launchers never all wait unless the listener has taken the lock
\* of a launcher that has not started; in particular a listener that is shut out
\* cannot stop the program.
THEOREM WaitsEndAtListener == Spec => []NoCircularWait
<1>1. IInv => NoCircularWait
  <2> SUFFICES ASSUME IInv, MainWaits, \A s \in Segs : LauncherWaits(s)
               PROVE  info_lock /\ \E s \in Segs : spc[s] = "lock" /\ locked[s]
    BY DEF NoCircularWait
  <2>1. joined < seg /\ joined + 1 \in Segs
    BY SessionAssumption DEF IInv, TypeOK, MainInv, MainWaits, Segs
  <2>2. spc[joined + 1] \notin {"none", "done"}
    BY <2>1 DEF IInv, TypeOK, LauncherInv, MainWaits
  <2>3. spc[joined + 1] = "lock" /\ locked[joined + 1]
    BY <2>1, <2>2 DEF LauncherWaits
  <2>4. info_lock
    BY <2>1, <2>3 DEF IInv, ShutOutInv
  <2>5. QED
    BY <2>1, <2>3, <2>4
<1>2. QED
  BY <1>1, Invariance, PTL

-----------------------------------------------------------------------------
Finished == {s \in Segs : spc[s] = "done"}

\* The open segments of SegmentPool are those that main has not joined, or fewer.
LEMMA OpenUnjoined ==
  ASSUME IInv
  PROVE  /\ Pool!Open = (1 .. seg) \ Finished
         /\ Pool!Cardinality(Pool!Open) \in Nat
         /\ Pool!Cardinality(Pool!Open) <= seg - joined
<1>1. Pool!Open = (1 .. seg) \ Finished
  BY DEF Pool!Open, Finished
<1>2. (1 .. seg) \ Finished \subseteq joined + 1 .. seg
  BY SessionAssumption DEF IInv, TypeOK, LauncherInv, Finished, Segs
<1>3. Pool!Cardinality(Pool!Open) = Cardinality(Pool!Open)
  BY Zenon DEF Cardinality, Pool!Cardinality
<1>4. QED
  BY <1>1, <1>2, <1>3, UnjoinedCount

\* Creating a launcher opens a segment, and main has joined enough by then.
LEMMA CreateMaps ==
  ASSUME IInv, CreateLauncher
  PROVE  Pool!Start
<1> USE SessionAssumption DEF Segs
<1>1. /\ seg \in Nat /\ joined \in Nat /\ seg < NumSegs
      /\ seg - joined < MaxConSeg
  BY DEF IInv, TypeOK, MainInv, Building, CreateLauncher
<1>2. Pool!Cardinality(Pool!Open) < MaxConSeg
  BY <1>1, OpenUnjoined
<1>3. Finished' = Finished
  <2>1. seg + 1 \in Segs /\ spc[seg + 1] = "none"
    BY <1>1 DEF IInv, LauncherInv
  <2>2. spc' = [spc EXCEPT ![seg + 1] = "begin"] /\ DOMAIN spc = Segs
    BY DEF CreateLauncher, IInv, TypeOK
  <2>3. QED
    BY <2>1, <2>2 DEF Finished
<1>4. seg' = seg + 1 /\ Running /\ Running'
  BY DEF CreateLauncher, Running
<1>5. QED
  BY <1>1, <1>2, <1>3, <1>4 DEF Pool!Start, Finished

\* A launcher that unlocks its segment closes it; its other steps do not show.
LEMMA LauncherMaps ==
  ASSUME IInv, Running, NEW s \in Segs,
         Launcher(s) \/ LockSegment(s) \/ SendPacket(s)
  PROVE  Pool!Next \/ UNCHANGED Pool!vars
<1> USE SessionAssumption DEF Segs
<1>1. /\ mpc' = mpc /\ seg' = seg /\ Running' = Running
      /\ DOMAIN spc = Segs
  BY DEF IInv, TypeOK, Launcher, ReadSlot, SenderEnds, DeleteDispenser,
         UnlockSegment, LockSegment, SendPacket, mainVars, Running
<1>2. CASE UnlockSegment(s)
  <2>1. s \in 1 .. seg /\ s \notin Finished
    BY <1>2 DEF IInv, TypeOK, LauncherInv, UnlockSegment, Finished
  <2>2. Finished' = Finished \cup {s}
    BY <1>1, <1>2 DEF UnlockSegment, Finished
  <2>3. s \in Pool!Open
    BY <2>1, OpenUnjoined
  <2>4. Pool!Finish(s)
    BY <1>1, <2>2, <2>3 DEF Pool!Finish, Finished
  <2>5. QED
    BY <2>3, <2>4 DEF Pool!Next
<1>3. CASE ReadSlot(s) \/ SenderEnds(s) \/ DeleteDispenser(s) \/ LockSegment(s)
           \/ SendPacket(s)
  <2>1. Finished' = Finished
    BY <1>1, <1>3 DEF ReadSlot, SenderEnds, DeleteDispenser, LockSegment,
                      SendPacket, Finished
  <2>2. QED
    BY <1>1, <2>1 DEF Pool!vars, Finished
<1>4. QED
  BY <1>2, <1>3 DEF Launcher

\* Each step of the session is a step of SegmentPool or none.
LEMMA PoolStepMaps ==
  ASSUME IInv, [Next]_vars
  PROVE  [Pool!Next]_Pool!vars
<1> USE SessionAssumption
<1>1. CASE Running /\ CreateLauncher
  BY <1>1, CreateMaps DEF Pool!Next
<1>2. CASE Running /\ Return
  <2>1. \A s \in Segs : spc[s] = "done"
    BY <1>2 DEF IInv, TypeOK, MainInv, LauncherInv, Return, Segs
  <2>2. Finished = 1 .. NumSegs
    BY <2>1 DEF Finished, Segs
  <2>3. ~Running' /\ seg' = seg /\ Finished' = Finished
    BY <1>2 DEF Return, Running, launcherVars, Finished
  <2>4. Pool!Quit
    BY <1>2, <2>2, <2>3 DEF Pool!Quit, Finished
  <2>5. QED
    BY <2>4 DEF Pool!Next
<1>3. CASE Running /\ ScanNull
  <2>1. seg = 0
    BY <1>3 DEF IInv, TypeOK, TablesInv, ScanNull
  <2>2. ~Running' /\ seg' = seg /\ Finished' = Finished
    BY <1>3 DEF ScanNull, Running, launcherVars, Finished
  <2>3. Pool!Quit
    BY <1>3, <2>1, <2>2 DEF Pool!Quit, Finished
  <2>4. QED
    BY <2>3 DEF Pool!Next
<1>4. CASE Running /\ (NewDispenser \/ JoinOldest \/ AddDispenser \/ JoinRest)
  <2>1. /\ seg' = seg /\ spc' = spc
        /\ mpc' \notin {"end", "crashed"}
    BY <1>4 DEF NewDispenser, JoinOldest, AddDispenser, JoinRest, launcherVars,
                Running
  <2>2. QED
    BY <1>4, <2>1 DEF Running, Pool!vars
<1>5. CASE Running /\ \E s \in Segs : Launcher(s) \/ LockSegment(s) \/ SendPacket(s)
  BY <1>5, LauncherMaps
<1>6. CASE Running /\ (Scan \/ ScanEnd \/ TestListen \/ GlobalPutAcks \/ Datagram)
  <2>1. mpc' = mpc /\ seg' = seg /\ spc' = spc
    BY <1>6 DEF Scan, ScanEnd, TestListen, GlobalPutAcks, Datagram, mainVars,
                launcherVars
  <2>2. QED
    BY <2>1 DEF Running, Pool!vars
<1>7. CASE UNCHANGED vars
  BY <1>7 DEF vars, mainVars, launcherVars, Running, Pool!vars
<1>8. QED
  BY <1>1, <1>2, <1>3, <1>4, <1>5, <1>6, <1>7 DEF Next, Main, Listener

\* main, its launchers and the listener together implement SegmentPool.
THEOREM SessionImplements == Spec => PoolSpec
<1>1. Init => Pool!Init
  BY DEF Init, Running, Segs, Pool!Init
<1>2. IInv /\ [Next]_vars => [Pool!Next]_Pool!vars
  BY PoolStepMaps
<1>3. QED
  BY <1>1, <1>2, Invariance, PTL DEF Spec, PoolSpec, Pool!Spec
=============================================================================
