------------------------------ MODULE SegmentPool ------------------------------
(***************************************************************************)
(* What main promises about the segments of a file, without launchers,     *)
(* locks, tables and listener: they are started one by one and end in any  *)
(* order; never more than MaxConSeg are open; and the program is over only *)
(* when all have ended, or else before the first one was started.          *)
(***************************************************************************)
EXTENDS Naturals, FiniteSets

CONSTANTS NumSegs, MaxConSeg

VARIABLES
  started,    \* how many segments have been started
  finished,   \* the segments that have ended
  over        \* the program is

vars == <<started, finished, over>>

Open == (1 .. started) \ finished

Init == started = 0 /\ finished = {} /\ over = FALSE

Start ==
  /\ ~over /\ started < NumSegs
  /\ Cardinality(Open) < MaxConSeg
  /\ started' = started + 1
  /\ UNCHANGED <<finished, over>>

Finish(s) ==
  /\ ~over /\ s \in Open
  /\ finished' = finished \cup {s}
  /\ UNCHANGED <<started, over>>

Quit ==
  /\ ~over
  /\ started = 0 \/ finished = 1 .. NumSegs
  /\ over' = TRUE
  /\ UNCHANGED <<started, finished>>

Next == Start \/ (\E s \in Open : Finish(s)) \/ Quit

Spec == Init /\ [][Next]_vars
=============================================================================
