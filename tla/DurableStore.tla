---------------------------- MODULE DurableStore ----------------------------
(***************************************************************************)
(* What the store promises about durability, without locks, goroutines or  *)
(* file operations: memory runs ahead of the file by some mutations; the   *)
(* file may catch up, partly or wholly, at any time; an exit loses what    *)
(* the file has not caught up with, and nothing else.  In particular a     *)
(* restart finds a state memory really was in, never a mixture of two and  *)
(* never one that an earlier restart had already left behind.              *)
(***************************************************************************)
EXTENDS Integers

CONSTANTS
  Recover(_),  \* what loading a file makes of it
  Blank        \* the file before the first save

VARIABLES
  mem,      \* the state in memory
  disk,     \* the state in the file
  running,
  lo, hi,   \* the mutations the file and memory reflect, counted
  states    \* states[v], lo < v <= hi: memory after mutation v

dvars == <<mem, disk, running, lo, hi, states>>

Init ==
  /\ disk = Blank
  /\ mem = Recover(disk)
  /\ running = TRUE
  /\ lo = 0 /\ hi = 0
  /\ states = [v \in 1..0 |-> mem]

Mutate ==
  /\ running
  /\ hi' = hi + 1
  /\ states' = [v \in (lo + 1)..hi' |-> IF v = hi' THEN mem' ELSE states[v]]
  /\ UNCHANGED <<disk, running, lo>>

Persist ==
  /\ running
  /\ \E v \in (lo + 1)..hi : lo' = v /\ disk' = states[v]
  /\ states' = [v \in (lo' + 1)..hi |-> states[v]]
  /\ UNCHANGED <<mem, running, hi>>

Exit ==
  /\ running
  /\ running' = FALSE
  /\ UNCHANGED <<mem, disk, lo, hi, states>>

Restart ==
  /\ ~running
  /\ running' = TRUE
  /\ mem' = Recover(disk)
  /\ hi' = lo
  /\ states' = [v \in (lo + 1)..lo |-> mem]
  /\ UNCHANGED <<disk, lo>>

Next == Mutate \/ Persist \/ Exit \/ Restart

Spec == Init /\ [][Next]_dvars
=============================================================================
