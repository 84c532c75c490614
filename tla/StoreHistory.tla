---------------------------- MODULE StoreHistory ----------------------------
(***************************************************************************)
(* Store with a history variable: every memory state newer than the file.  *)
(* It shows that Store implements DurableStore: whatever the goroutines of *)
(* save interleave with, a restart finds a state that memory went through, *)
(* no older than what any earlier restart could have found.                *)
(***************************************************************************)
EXTENDS Store

VARIABLE states  \* states[v]: memory after mutation v, for the v the file lacks

hvars == <<vars, states>>

HInit == Init /\ states = [v \in 1..0 |-> mem]

Record ==
  states' = [v \in (Ver(disk') + 1)..mem'.ver |->
               IF v = mem'.ver THEN mem' ELSE states[v]]

HNext == Next /\ Record

HSpec == HInit /\ [][HNext]_hvars

FairHSpec == HSpec /\ Fairness

Durable == INSTANCE DurableStore WITH
  Recover <- Loaded,
  Blank   <- NoFile,
  running <- phase = "up",
  lo      <- Ver(disk),
  hi      <- mem.ver

(* Store implements DurableStore: exits lose a suffix of the mutations,    *)
(* saves never mix or reorder them (the contract of save, store.go).       *)
ImplementsDurable == Durable!Spec

---------------------------------------------------------------------------
(* A save in progress after the file caught up has nothing new to write.   *)
FreshOK ==
  (\E s \in Savers : pc[s] \notin {"idle", "event"}) /\ Ver(disk) = mem.ver => mem = disk

HInv ==
  /\ states \in [(Ver(disk) + 1)..mem.ver -> MemoryState]
  /\ Ver(disk) < mem.ver => states[mem.ver] = mem
  /\ FreshOK
  /\ \A s \in Savers : pc[s] \in WritingPc =>
       snap[s] = IF snap[s].ver = Ver(disk) THEN disk ELSE states[snap[s].ver]
=============================================================================
