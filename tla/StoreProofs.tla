---------------------------- MODULE StoreProofs ----------------------------
(***************************************************************************)
(* Theorems about Store, for every set of keys, every number of            *)
(* concurrent saves and any number of mutations, faults and exits; that    *)
(* Store (with the history of StoreHistory) implements DurableStore; and,  *)
(* at the end, about Watch.                                                *)
(***************************************************************************)
EXTENDS StoreHistory, Watch, TLAPS

USE KeysAssumption, BoundsAssumption, SentinelAssumption

(* The operators on memory states stay within the memory states. *)
LEMMA MemoryStateType ==
  ASSUME NEW m \in MemoryState
  PROVE  /\ \A k \in Keys : Stamp(m, k) \in MemoryState /\ Remove(m, k) \in MemoryState
         /\ \A n \in Namespaces : Purge(m, n) \in MemoryState
         /\ EnsureDefault(m) \in MemoryState
         /\ EnsureDefault(m).ver = m.ver
         /\ Empty \in MemoryState
         /\ m \notin {NoFile, Partial}
  <1>1. Default \in Keys
    BY DEF Keys
  <1>2. \A k \in Keys : Stamp(m, k) \in MemoryState /\ Remove(m, k) \in MemoryState
    BY DEF MemoryState, Stamp, Remove
  <1>3. \A n \in Namespaces : Purge(m, n) \in MemoryState
    BY DEF MemoryState, Purge
  <1>4. EnsureDefault(m) \in MemoryState /\ EnsureDefault(m).ver = m.ver
    BY <1>1 DEF MemoryState, EnsureDefault
  <1>5. Empty \in MemoryState
    BY DEF MemoryState, Empty
  <1>6. m \notin {NoFile, Partial}
    OBVIOUS
  <1>. QED
    BY <1>2, <1>3, <1>4, <1>5, <1>6

(* What a restart loads is a memory state that reflects the mutations of   *)
(* the file.                                                               *)
LEMMA LoadedType ==
  ASSUME NEW file \in MemoryState \cup {NoFile}
  PROVE  Loaded(file) \in MemoryState /\ Loaded(file).ver = Ver(file) /\ Ver(file) \in Nat
  <1>1. Empty \in MemoryState /\ Empty.ver = 0
    BY DEF MemoryState, Empty
  <1>2. CASE file = NoFile
    BY <1>1, <1>2, MemoryStateType DEF Loaded, Ver
  <1>3. CASE file \in MemoryState
    <2>1. file # NoFile
      BY <1>3
    <2>. QED
      BY <1>3, <2>1, MemoryStateType DEF Loaded, Ver, MemoryState
  <1>. QED
    BY <1>2, <1>3

(* A mutation advances the history by one, keeps the types and starts a    *)
(* goroutine that will notify and save.                                    *)
LEMMA MutationEffect ==
  ASSUME TypeOK, Mutation
  PROVE  /\ phase = "up"
         /\ mem' \in MemoryState
         /\ mem'.ver = mem.ver + 1
         /\ \E s \in Savers :
              /\ pc[s] = "idle"
              /\ pc'[s] = "notify"
              /\ \A t \in Savers \ {s} :
                   pc'[t] = pc[t] \/ (pc[t] = "idle" /\ pc'[t] = "event")
         /\ pc' \in [Savers -> SaverPc]
         /\ UNCHANGED <<snap, saveMu, epoch, phase, tmp, disk, ioError, faults>>
  <1>1. ASSUME NEW m \in MemoryState, NEW r, m.ver = mem.ver + 1, Mutate(m, r)
        PROVE  /\ phase = "up"
               /\ mem' \in MemoryState
               /\ mem'.ver = mem.ver + 1
               /\ \E s \in Savers :
                    /\ pc[s] = "idle"
                    /\ pc'[s] = "notify"
                    /\ \A t \in Savers \ {s} :
                         pc'[t] = pc[t] \/ (pc[t] = "idle" /\ pc'[t] = "event")
               /\ pc' \in [Savers -> SaverPc]
               /\ UNCHANGED <<snap, saveMu, epoch, phase, tmp, disk, ioError, faults>>
    <2>1. PICK s \in Savers :
            /\ pc[s] = "idle"
            /\ \/ \E e \in Savers \ {s} :
                    pc[e] = "idle" /\ pc' = [pc EXCEPT ![s] = "notify", ![e] = "event"]
               \/ pc' = [pc EXCEPT ![s] = "notify"]
      BY <1>1 DEF Mutate, SpawnSave
    <2>2. /\ pc'[s] = "notify"
          /\ pc' \in [Savers -> SaverPc]
          /\ \A t \in Savers \ {s} :
               pc'[t] = pc[t] \/ (pc[t] = "idle" /\ pc'[t] = "event")
      BY <2>1 DEF TypeOK, SaverPc
    <2>. QED
      BY <1>1, <2>1, <2>2 DEF Mutate, fileVars
  <1>2. mem \in MemoryState
    BY DEF TypeOK
  <1>3. ASSUME NEW k \in Keys
        PROVE  /\ Stamp(mem, k) \in MemoryState /\ Stamp(mem, k).ver = mem.ver + 1
               /\ Remove(mem, k) \in MemoryState /\ Remove(mem, k).ver = mem.ver + 1
    BY <1>2, MemoryStateType DEF Stamp, Remove
  <1>4. ASSUME NEW n \in Namespaces
        PROVE  Purge(mem, n) \in MemoryState /\ Purge(mem, n).ver = mem.ver + 1
    BY <1>2, MemoryStateType DEF Purge
  <1>5. CASE \E k \in Keys : Create(k) \/ Update(k) \/ Delete(k)
    BY <1>1, <1>3, <1>5 DEF Create, Update, Delete
  <1>6. CASE \E n \in Namespaces : PurgeNamespace(n)
    BY <1>1, <1>4, <1>6 DEF PurgeNamespace
  <1>. QED
    BY <1>5, <1>6 DEF Mutation

---------------------------------------------------------------------------
(* The invariant holds initially. *)
LEMMA InitIInv == Init => IInv
  <1> SUFFICES ASSUME Init PROVE IInv
    OBVIOUS
  <1>1. Loaded(NoFile) \in MemoryState /\ Loaded(NoFile).ver = 0 /\ Ver(NoFile) = 0
    BY LoadedType DEF Ver
  <1>2. Empty \in MemoryState
    BY DEF Empty, MemoryState
  <1>3. TypeOK
    BY <1>1, <1>2 DEF Init, TypeOK, SaverPc
  <1>4. DiskIntact /\ Ver(disk) <= mem.ver /\ FileMatchesMemory /\ LagIsCovered
    BY <1>1 DEF Init, DiskIntact, FileMatchesMemory, LagIsCovered
  <1>5. MutexOK /\ SnapOK /\ CoverOK /\ ExitedOK
    BY DEF Init, MutexOK, SnapOK, CoverOK, ExitedOK, WritingPc
  <1>. QED
    BY <1>3, <1>4, <1>5 DEF IInv

(* Mutations preserve the invariant: the new goroutine covers the new lag. *)
LEMMA MutationIInv ==
  ASSUME IInv, Mutation
  PROVE  IInv'
  <1>. USE DEF IInv
  <1>1. TypeOK'
    BY MutationEffect DEF TypeOK
  <1>2. DiskIntact' /\ Ver(disk') <= mem'.ver /\ Ver(disk') # mem'.ver
    <2>1. Ver(disk) \in Nat /\ mem.ver \in Nat
      BY LoadedType DEF TypeOK, DiskIntact, MemoryState
    <2>. QED
      BY <2>1, MutationEffect DEF DiskIntact
  <1>3. PICK s \in Savers :
              /\ pc[s] = "idle"
              /\ pc'[s] = "notify"
              /\ \A t \in Savers \ {s} :
                   pc'[t] = pc[t] \/ (pc[t] = "idle" /\ pc'[t] = "event")
    BY MutationEffect
  <1>4. MutexOK'
    BY <1>3, MutationEffect DEF MutexOK, WritingPc
  <1>5. SnapOK'
    <2> SUFFICES ASSUME NEW t \in Savers, pc'[t] \in WritingPc
                 PROVE  /\ pc[t] = pc'[t]
                        /\ snap[t].ver \in Nat /\ mem.ver \in Nat
      BY MutationEffect DEF SnapOK
    <2>1. pc[t] = pc'[t]
      BY <1>3 DEF WritingPc
    <2>. QED
      BY <2>1 DEF TypeOK, MemoryState
  <1>6. ExitedOK' /\ CoverOK'
    BY <1>3, MutationEffect DEF ExitedOK, CoverOK
  <1>7. FileMatchesMemory'
    BY <1>2 DEF FileMatchesMemory
  <1>8. LagIsCovered'
    BY <1>3 DEF LagIsCovered
  <1>. QED
    BY <1>1, <1>2, <1>4, <1>5, <1>6, <1>7, <1>8

---------------------------------------------------------------------------
(* Facts about one saver step used below: versions are naturals. *)
LEMMA Versions ==
  ASSUME IInv
  PROVE  /\ Ver(disk) \in Nat /\ mem.ver \in Nat
         /\ \A s \in Savers : snap[s] \in MemoryState /\ snap[s].ver \in Nat
         /\ disk \in MemoryState \cup {NoFile}
  <1>1. disk \in MemoryState \cup {NoFile}
    BY DEF IInv, TypeOK, DiskIntact
  <1>2. Ver(disk) \in Nat
    BY <1>1, LoadedType
  <1>3. mem.ver \in Nat /\ \A s \in Savers : snap[s] \in MemoryState /\ snap[s].ver \in Nat
    BY DEF IInv, TypeOK, MemoryState
  <1>. QED
    BY <1>1, <1>2, <1>3

(* Notifications leave memory, the snapshots and the files alone. *)
LEMMA NotifyIInv ==
  ASSUME IInv, NEW s \in Savers, Notify(s) \/ NotifyEvent(s)
  PROVE  IInv'
  <1>. USE DEF IInv, Goto, fileVars
  <1>1. /\ UNCHANGED <<mem, snap, saveMu, phase, tmp, disk, ioError, faults>>
        /\ epoch' = epoch + 1
        /\ \A t \in Savers \ {s} : pc'[t] = pc[t]
        /\ pc'[s] \in {"lock", "idle"}
        /\ pc[s] \in {"notify", "event"}
        /\ pc' \in [Savers -> SaverPc]
    BY DEF Notify, NotifyEvent, TypeOK, SaverPc
  <1>2. TypeOK' /\ DiskIntact' /\ Ver(disk') <= mem'.ver
    BY <1>1 DEF TypeOK, DiskIntact
  <1>3. MutexOK'
    BY <1>1 DEF MutexOK, WritingPc
  <1>4. SnapOK'
    BY <1>1 DEF SnapOK, WritingPc
  <1>5. ExitedOK' /\ FileMatchesMemory'
    BY <1>1 DEF ExitedOK, FileMatchesMemory
  <1>7. CoverOK'
    <2>1. Persistent => (pc[s] = "notify" => pc'[s] = "lock")
      BY DEF Notify, NotifyEvent, TypeOK
    <2>. QED
      BY <1>1, <2>1 DEF CoverOK, WritingPc
  <1>6. LagIsCovered'
    <2>1. CASE Persistent /\ pc[s] = "notify"
      <3>1. pc'[s] = "lock"
        BY <2>1 DEF Notify, NotifyEvent, TypeOK
      <3>. QED
        BY <3>1 DEF LagIsCovered
    <2>2. CASE pc[s] = "event"
      BY <1>1, <2>2 DEF LagIsCovered, WritingPc
    <2>3. CASE ~Persistent
      BY <2>3 DEF LagIsCovered
    <2>. QED
      BY <1>1, <2>1, <2>2, <2>3
  <1>. QED
    BY <1>2, <1>3, <1>4, <1>5, <1>6, <1>7

LEMMA AcquireIInv ==
  ASSUME IInv, NEW s \in Savers, AcquireSaveMu(s)
  PROVE  IInv'
  <1>. USE DEF IInv, Goto, fileVars
  <1>1. /\ UNCHANGED <<mem, snap, epoch, phase, tmp, disk, ioError, faults>>
        /\ saveMu = NoHolder /\ saveMu' = s
        /\ \A t \in Savers \ {s} : pc'[t] = pc[t]
        /\ pc[s] = "lock" /\ pc'[s] = "snapshot"
        /\ pc' \in [Savers -> SaverPc]
    BY DEF AcquireSaveMu, TypeOK, SaverPc
  <1>2. TypeOK' /\ DiskIntact' /\ Ver(disk') <= mem'.ver
    BY <1>1 DEF TypeOK, DiskIntact
  <1>3. MutexOK'
    BY <1>1 DEF MutexOK, WritingPc
  <1>4. SnapOK'
    BY <1>1 DEF SnapOK, WritingPc
  <1>5. ExitedOK' /\ FileMatchesMemory'
    BY <1>1 DEF ExitedOK, FileMatchesMemory
  <1>7. CoverOK'
    <2>1. \A t \in Savers : pc'[t] \notin WritingPc
      BY <1>1 DEF MutexOK, WritingPc
    <2>. QED
      BY <2>1 DEF CoverOK
  <1>6. LagIsCovered'
    BY <1>1 DEF LagIsCovered
  <1>. QED
    BY <1>2, <1>3, <1>4, <1>5, <1>6, <1>7

LEMMA SnapshotIInv ==
  ASSUME IInv, NEW s \in Savers, TakeSnapshot(s)
  PROVE  IInv'
  <1>. USE DEF IInv, Goto, fileVars
  <1>1. /\ UNCHANGED <<mem, saveMu, epoch, phase, tmp, disk, ioError, faults>>
        /\ snap' = [snap EXCEPT ![s] = mem]
        /\ \A t \in Savers \ {s} : pc'[t] = pc[t] /\ snap'[t] = snap[t]
        /\ pc[s] = "snapshot" /\ pc'[s] = "write" /\ snap'[s] = mem
        /\ pc' \in [Savers -> SaverPc]
    BY DEF TakeSnapshot, TypeOK, SaverPc, WritingPc
  <1>2. TypeOK' /\ DiskIntact' /\ Ver(disk') <= mem'.ver
    BY <1>1 DEF TypeOK, DiskIntact
  <1>3. MutexOK'
    BY <1>1 DEF MutexOK, WritingPc
  <1>4. SnapOK'
    BY <1>1, Versions DEF SnapOK, WritingPc
  <1>5. ExitedOK' /\ FileMatchesMemory'
    BY <1>1 DEF ExitedOK, FileMatchesMemory
  <1>7. CoverOK'
    BY <1>1 DEF CoverOK, MutexOK, WritingPc
  <1>6. LagIsCovered'
    BY <1>1 DEF LagIsCovered, WritingPc
  <1>. QED
    BY <1>2, <1>3, <1>4, <1>5, <1>6, <1>7

LEMMA TmpIInv ==
  ASSUME IInv, NEW s \in Savers, OpenTmp(s) \/ WriteTmp(s)
  PROVE  IInv'
  <1>. USE DEF IInv, Goto
  <1>1. /\ UNCHANGED <<mem, snap, saveMu, epoch, phase, disk, ioError, faults>>
        /\ tmp' \in {Partial, snap[s]}
        /\ pc'[s] = "rename" => tmp' = snap[s]
        /\ \A t \in Savers \ {s} : pc'[t] = pc[t]
        /\ pc[s] \in WritingPc /\ pc'[s] \in WritingPc
        /\ pc' \in [Savers -> SaverPc]
    BY DEF OpenTmp, WriteTmp, TypeOK, SaverPc, WritingPc
  <1>2. TypeOK' /\ DiskIntact' /\ Ver(disk') <= mem'.ver
    BY <1>1, Versions DEF TypeOK, DiskIntact
  <1>3. MutexOK'
    BY <1>1 DEF MutexOK, WritingPc
  <1>4. SnapOK'
    <2>1. \A t \in Savers \ {s} : pc[t] \notin WritingPc
      BY <1>1 DEF MutexOK
    <2>. QED
      BY <1>1, <2>1 DEF SnapOK
  <1>5. ExitedOK' /\ FileMatchesMemory'
    BY <1>1 DEF ExitedOK, FileMatchesMemory, WritingPc
  <1>7. CoverOK'
    BY <1>1 DEF CoverOK, WritingPc
  <1>6. LagIsCovered'
    BY <1>1 DEF LagIsCovered, WritingPc
  <1>. QED
    BY <1>2, <1>3, <1>4, <1>5, <1>6, <1>7

(* The file takes the snapshot, which is no older: the holder of saveMu    *)
(* took it after the previous rename.                                      *)
LEMMA RenameEffect ==
  ASSUME IInv, NEW s \in Savers, RenameTmp(s)
  PROVE  /\ disk' = snap[s]
         /\ Ver(disk') = snap[s].ver
         /\ Ver(disk) <= Ver(disk')
         /\ Ver(disk') <= mem.ver
  <1>1. pc[s] = "rename" /\ disk' = snap[s]
    BY DEF RenameTmp, Goto, IInv, SnapOK, WritingPc
  <1>2. snap[s] \notin {NoFile, Partial}
    BY Versions
  <1>. QED
    BY <1>1, <1>2 DEF Ver, IInv, SnapOK, WritingPc

LEMMA RenameIInv ==
  ASSUME IInv, NEW s \in Savers, RenameTmp(s)
  PROVE  IInv'
  <1>. USE DEF IInv, Goto
  <1>1. /\ UNCHANGED <<mem, snap, epoch, phase, faults>>
        /\ tmp' = NoFile /\ saveMu' = NoHolder /\ ioError' = FALSE
        /\ \A t \in Savers \ {s} : pc'[t] = pc[t]
        /\ pc[s] = "rename" /\ pc'[s] = "idle"
        /\ pc' \in [Savers -> SaverPc]
    BY DEF RenameTmp, TypeOK, SaverPc
  <1>2. disk' \in MemoryState
    BY RenameEffect, Versions
  <1>3. TypeOK' /\ DiskIntact' /\ Ver(disk') <= mem'.ver
    BY <1>1, <1>2, RenameEffect DEF TypeOK, DiskIntact
  <1>4. \A t \in Savers \ {s} : pc[t] \notin {"snapshot"} \cup WritingPc
    BY <1>1 DEF MutexOK, WritingPc
  <1>5. MutexOK' /\ SnapOK' /\ CoverOK'
    BY <1>1, <1>4 DEF MutexOK, SnapOK, CoverOK, WritingPc
  <1>6. ExitedOK'
    BY <1>1 DEF ExitedOK
  <1>7. FileMatchesMemory'
    BY <1>1, RenameEffect DEF FileMatchesMemory, SnapOK, WritingPc
  <1>8. LagIsCovered'
    <2>1. SUFFICES ASSUME phase = "up", Persistent, Ver(disk') # mem.ver
                   PROVE  \E t \in Savers : pc'[t] \in {"notify", "lock", "snapshot"}
      BY <1>1, <1>3 DEF LagIsCovered, DiskIntact
    <2>2. snap[s].ver # mem.ver
      BY <2>1, RenameEffect
    <2>3. PICK t \in Savers : pc[t] \in {"notify", "lock"}
      BY <1>1, <2>1, <2>2 DEF CoverOK, WritingPc
    <2>. QED
      BY <1>1, <2>3
  <1>. QED
    BY <1>3, <1>5, <1>6, <1>7, <1>8

LEMMA SaveFailsIInv ==
  ASSUME IInv, NEW s \in Savers, SaveFails(s)
  PROVE  IInv'
  <1>. USE DEF IInv
  <1>1. /\ UNCHANGED <<mem, snap, epoch, tmp, disk, phase>>
        /\ saveMu' = NoHolder /\ ioError' = TRUE /\ faults' = faults + 1
        /\ \A t \in Savers \ {s} : pc'[t] = pc[t]
        /\ pc[s] \in WritingPc /\ pc'[s] = "idle"
        /\ pc' \in [Savers -> SaverPc]
    BY DEF SaveFails, TypeOK, SaverPc
  <1>2. TypeOK' /\ DiskIntact' /\ Ver(disk') <= mem'.ver
    BY <1>1 DEF TypeOK, DiskIntact
  <1>3. \A t \in Savers \ {s} : pc[t] \notin {"snapshot"} \cup WritingPc
    BY <1>1 DEF MutexOK, WritingPc
  <1>4. MutexOK' /\ SnapOK' /\ CoverOK'
    BY <1>1, <1>3 DEF MutexOK, SnapOK, CoverOK, WritingPc
  <1>5. ExitedOK' /\ FileMatchesMemory' /\ LagIsCovered'
    BY <1>1 DEF ExitedOK, FileMatchesMemory, LagIsCovered
  <1>. QED
    BY <1>2, <1>4, <1>5

LEMMA ExitIInv ==
  ASSUME IInv, Stop \/ Kill
  PROVE  IInv'
  <1>. USE DEF IInv
  <1>1. /\ UNCHANGED <<mem, epoch, tmp, disk, ioError, faults>>
        /\ saveMu' = NoHolder
        /\ phase' \in {"stopped", "killed"}
        /\ pc' = [s \in Savers |-> "idle"]
        /\ snap' = [s \in Savers |-> Empty]
    BY DEF Stop, Kill, Exit, fileVars
  <1>2. Empty \in MemoryState
    BY DEF Empty, MemoryState
  <1>3. TypeOK' /\ DiskIntact' /\ Ver(disk') <= mem'.ver
    BY <1>1, <1>2 DEF TypeOK, DiskIntact, SaverPc
  <1>4. MutexOK' /\ SnapOK' /\ CoverOK' /\ ExitedOK'
    BY <1>1 DEF MutexOK, SnapOK, CoverOK, ExitedOK, WritingPc
  <1>5. FileMatchesMemory' /\ LagIsCovered'
    BY <1>1 DEF FileMatchesMemory, LagIsCovered
  <1>. QED
    BY <1>3, <1>4, <1>5

LEMMA RestartIInv ==
  ASSUME IInv, Restart
  PROVE  IInv'
  <1>. USE DEF IInv
  <1>1. /\ UNCHANGED <<pc, snap, saveMu, tmp, disk, faults>>
        /\ mem' = Loaded(disk) /\ phase' = "up" /\ epoch' = 0 /\ ioError' = FALSE
        /\ \A s \in Savers : pc[s] = "idle"
    BY DEF Restart, ExitedOK
  <1>2. mem' \in MemoryState /\ mem'.ver = Ver(disk) /\ Ver(disk) \in Nat
    BY <1>1, Versions, LoadedType
  <1>3. TypeOK' /\ DiskIntact'
    BY <1>1, <1>2 DEF TypeOK, DiskIntact
  <1>4. MutexOK' /\ SnapOK' /\ CoverOK' /\ ExitedOK'
    BY <1>1 DEF MutexOK, SnapOK, CoverOK, ExitedOK, WritingPc
  <1>5. Ver(disk') = mem'.ver /\ Ver(disk') <= mem'.ver
    BY <1>1, <1>2
  <1>6. FileMatchesMemory'
    BY <1>1 DEF FileMatchesMemory
  <1>7. LagIsCovered'
    BY <1>3, <1>5 DEF LagIsCovered, DiskIntact
  <1>. QED
    BY <1>3, <1>4, <1>5, <1>6, <1>7

(* Every step of the store preserves the invariant. *)
LEMMA NextIInv == IInv /\ [Next]_vars => IInv'
  <1> SUFFICES ASSUME IInv, [Next]_vars PROVE IInv'
    OBVIOUS
  <1>1. CASE Mutation
    BY <1>1, MutationIInv
  <1>2. ASSUME NEW s \in Savers, SaverStep(s) PROVE IInv'
    BY <1>2, NotifyIInv, AcquireIInv, SnapshotIInv, TmpIInv, RenameIInv DEF SaverStep
  <1>3. ASSUME NEW s \in Savers, SaveFails(s) PROVE IInv'
    BY <1>3, SaveFailsIInv
  <1>4. CASE Stop \/ Kill \/ Restart
    BY <1>4, ExitIInv, RestartIInv
  <1>5. CASE UNCHANGED vars
    BY <1>5 DEF vars, IInv, TypeOK, DiskIntact, MutexOK, SnapOK, CoverOK, ExitedOK,
                FileMatchesMemory, LagIsCovered
  <1>. QED
    BY <1>1, <1>2, <1>3, <1>4, <1>5 DEF Next

---------------------------------------------------------------------------
(* The variables of the store keep their types: the resourceVersion is a   *)
(* number, and every object and every file content is a memory state.      *)
THEOREM TypeCorrect == Spec => []TypeOK
  <1>1. IInv => TypeOK
    BY DEF IInv
  <1>. QED
    BY <1>1, InitIInv, NextIInv, PTL DEF Spec

(* Load never meets a torn store.json: renames only ever install a file    *)
(* that WriteFile completed.                                               *)
THEOREM DiskAlwaysIntact == Spec => []DiskIntact
  <1>1. IInv => DiskIntact
    BY DEF IInv
  <1>. QED
    BY <1>1, InitIInv, NextIInv, PTL DEF Spec

(* A mutation whose save has not reached the file is still in the hands of *)
(* some goroutine of a running process, unless a file error was reported.  *)
THEOREM NoForgottenMutation == Spec => []LagIsCovered
  <1>1. IInv => LagIsCovered
    BY DEF IInv
  <1>. QED
    BY <1>1, InitIInv, NextIInv, PTL DEF Spec

(* The file reflects whole memory states: equal versions, equal contents.  *)
THEOREM FileIsAMemoryState == Spec => []FileMatchesMemory
  <1>1. IInv => FileMatchesMemory
    BY DEF IInv
  <1>. QED
    BY <1>1, InitIInv, NextIInv, PTL DEF Spec

(* The comment of save: a stale snapshot never overwrites a newer one.     *)
THEOREM SavesAreOrdered == Spec => NoStaleOverwrite
  <1>1. IInv /\ [Next]_vars => [Ver(disk') >= Ver(disk)]_vars
    <2> SUFFICES ASSUME IInv, Next PROVE Ver(disk') >= Ver(disk)
      OBVIOUS
    <2>1. Ver(disk) \in Nat
      BY Versions
    <2>2. ASSUME NEW s \in Savers, RenameTmp(s) PROVE Ver(disk') >= Ver(disk)
      BY <2>1, <2>2, RenameEffect, Versions
    <2>3. ASSUME NEW s \in Savers, Notify(s) \/ NotifyEvent(s) \/ AcquireSaveMu(s)
                   \/ TakeSnapshot(s) \/ OpenTmp(s) \/ WriteTmp(s) \/ SaveFails(s)
          PROVE  UNCHANGED disk
      BY <2>3 DEF Notify, NotifyEvent, AcquireSaveMu, TakeSnapshot, OpenTmp, WriteTmp,
                  SaveFails, fileVars
    <2>4. Mutation => UNCHANGED disk
      BY MutationEffect DEF IInv
    <2>5. Stop \/ Kill \/ Restart => UNCHANGED disk
      BY DEF Stop, Kill, Exit, Restart, fileVars
    <2>. QED
      BY <2>1, <2>2, <2>3, <2>4, <2>5 DEF Next, SaverStep
  <1>. QED
    BY <1>1, InitIInv, NextIInv, PTL DEF Spec, NoStaleOverwrite

---------------------------------------------------------------------------
(* Every operation on a memory state keeps the stamps identifying: a new   *)
(* stamp is above the counter, a removal drops stamps, and the unstamped   *)
(* "default" entry is the only one with stamp 0.                           *)
LEMMA StampsPreserved ==
  ASSUME NEW m \in MemoryState, StampsOK(m)
  PROVE  /\ \A k \in Keys : StampsOK(Stamp(m, k)) /\ StampsOK(Remove(m, k))
         /\ \A n \in Namespaces : StampsOK(Purge(m, n))
         /\ StampsOK(EnsureDefault(m))
  <1>. USE DEF MemoryState, StampsOK, Present
  <1>1. ASSUME NEW k \in Keys PROVE StampsOK(Stamp(m, k))
    <2>1. Stamp(m, k).rv = m.rv + 1
      BY DEF Stamp
    <2>2. \A j \in Keys : Stamp(m, k).obj[j] = IF j = k THEN m.rv + 1 ELSE m.obj[j]
      BY DEF Stamp
    <2>. QED
      BY <2>1, <2>2
  <1>2. ASSUME NEW k \in Keys PROVE StampsOK(Remove(m, k))
    <2>1. Remove(m, k).rv = m.rv
      BY DEF Remove
    <2>2. \A j \in Keys : Remove(m, k).obj[j] = IF j = k THEN Absent ELSE m.obj[j]
      BY DEF Remove
    <2>. QED
      BY <2>1, <2>2
  <1>3. ASSUME NEW n \in Namespaces PROVE StampsOK(Purge(m, n))
    <2>1. Purge(m, n).rv = m.rv + 1
      BY DEF Purge
    <2>2. \A j \in Keys : Purge(m, n).obj[j] \in {Absent, m.obj[j]}
      BY DEF Purge
    <2>. QED
      BY <2>1, <2>2
  <1>4. StampsOK(EnsureDefault(m))
    <2>1. CASE Present(m, Default)
      BY <2>1 DEF EnsureDefault
    <2>2. CASE ~Present(m, Default)
      <3>1. Default \in Keys
        BY DEF Keys
      <3>2. EnsureDefault(m).rv = m.rv
        BY <2>2 DEF EnsureDefault
      <3>3. \A j \in Keys : EnsureDefault(m).obj[j] = IF j = Default THEN 0 ELSE m.obj[j]
        BY <2>2, <3>1 DEF EnsureDefault
      <3>. QED
        BY <3>1, <3>2, <3>3
    <2>. QED
      BY <2>1, <2>2
  <1>. QED
    BY <1>1, <1>2, <1>3, <1>4

LEMMA EmptyStamps == StampsOK(Empty) /\ Empty \in MemoryState
  BY DEF StampsOK, Present, Empty, MemoryState

LEMMA LoadedStamps ==
  ASSUME NEW file \in MemoryState \cup {NoFile}, file # NoFile => StampsOK(file)
  PROVE  StampsOK(Loaded(file))
  BY StampsPreserved, EmptyStamps DEF Loaded

LEMMA MutationStamps ==
  ASSUME IInv, StampInv, Mutation
  PROVE  StampsOK(mem')
  <1>1. mem \in MemoryState /\ StampsOK(mem)
    BY DEF IInv, TypeOK, StampInv, StampsIdentify
  <1>2. CASE \E k \in Keys : Create(k) \/ Update(k) \/ Delete(k)
    BY <1>1, <1>2, StampsPreserved DEF Create, Update, Delete, Mutate
  <1>3. CASE \E n \in Namespaces : PurgeNamespace(n)
    BY <1>1, <1>3, StampsPreserved DEF PurgeNamespace, Mutate
  <1>. QED
    BY <1>2, <1>3 DEF Mutation

LEMMA NextStampInv == IInv /\ StampInv /\ [Next]_vars => StampInv'
  <1> SUFFICES ASSUME IInv, StampInv, [Next]_vars PROVE StampInv'
    OBVIOUS
  <1>. USE DEF StampInv, StampsIdentify
  <1>1. CASE Mutation
    BY <1>1, MutationStamps, MutationEffect DEF IInv
  <1>2. ASSUME NEW s \in Savers, Notify(s) \/ NotifyEvent(s) \/ AcquireSaveMu(s) \/ SaveFails(s)
        PROVE  StampInv'
    BY <1>2 DEF Notify, NotifyEvent, AcquireSaveMu, SaveFails, fileVars
  <1>3. ASSUME NEW s \in Savers, TakeSnapshot(s) PROVE StampInv'
    <2>1. \A t \in Savers : StampsOK(snap'[t])
      BY <1>3 DEF TakeSnapshot, IInv, TypeOK
    <2>. QED
      BY <1>3, <2>1 DEF TakeSnapshot, fileVars
  <1>4. ASSUME NEW s \in Savers, OpenTmp(s) \/ WriteTmp(s) PROVE StampInv'
    BY <1>4 DEF OpenTmp, WriteTmp
  <1>5. ASSUME NEW s \in Savers, RenameTmp(s) PROVE StampInv'
    BY <1>5, RenameEffect DEF RenameTmp
  <1>6. CASE Stop \/ Kill
    BY <1>6, EmptyStamps DEF Stop, Kill, Exit, fileVars
  <1>7. CASE Restart
    <2>1. StampsOK(mem')
      BY <1>7, Versions, LoadedStamps DEF Restart, IInv, DiskIntact
    <2>. QED
      BY <1>7, <2>1 DEF Restart
  <1>8. CASE UNCHANGED vars
    BY <1>8 DEF vars
  <1>. QED
    BY <1>1, <1>2, <1>3, <1>4, <1>5, <1>6, <1>7, <1>8 DEF Next, SaverStep

(* A resourceVersion names one stored object, in memory and in the file,   *)
(* and a fresh stamp is above every stamp in use.                          *)
THEOREM ResourceVersionsIdentify == Spec => []StampsIdentify
  <1>1. Init => StampInv
    BY EmptyStamps, LoadedStamps DEF Init, StampInv, StampsIdentify
  <1>2. StampInv => StampsIdentify
    BY DEF StampInv
  <1>. QED
    BY <1>1, <1>2, InitIInv, NextIInv, NextStampInv, PTL DEF Spec

---------------------------------------------------------------------------
(* Store implements DurableStore: the lemmas about the recorded states.    *)

(* The recorded states are those memory goes through. *)
LEMMA InitHInv == HInit => HInv
  <1> SUFFICES ASSUME HInit PROVE HInv
    OBVIOUS
  <1>1. Ver(disk) = 0 /\ mem.ver = 0
    BY LoadedType DEF HInit, Init, Ver
  <1>2. states \in [(Ver(disk) + 1)..mem.ver -> MemoryState]
    BY <1>1 DEF HInit
  <1>3. FreshOK /\ \A s \in Savers : pc[s] \notin WritingPc
    BY DEF HInit, Init, FreshOK, WritingPc
  <1>. QED
    BY <1>1, <1>2, <1>3 DEF HInv

(* What Record leaves, at every step that keeps the versions in order. *)
LEMMA RecordEffect ==
  ASSUME IInv, IInv', HInv, Record,
         Ver(disk) <= Ver(disk'), mem'.ver <= mem.ver + 1
  PROVE  /\ states' \in [(Ver(disk') + 1)..mem'.ver -> MemoryState]
         /\ Ver(disk') < mem'.ver => states'[mem'.ver] = mem'
         /\ \A v \in (Ver(disk') + 1)..mem'.ver :
              v # mem'.ver => states'[v] = states[v]
  <1>1. /\ Ver(disk) \in Nat /\ mem.ver \in Nat
        /\ Ver(disk') \in Nat /\ mem'.ver \in Nat /\ mem' \in MemoryState
    <2>1. Ver(disk) \in Nat /\ mem.ver \in Nat
      BY Versions
    <2>2. mem' \in MemoryState /\ mem'.ver \in Nat /\ disk' \in MemoryState \cup {NoFile}
      BY DEF IInv, TypeOK, MemoryState, DiskIntact
    <2>3. Ver(disk') \in Nat
      BY <2>2, LoadedType
    <2>. QED
      BY <2>1, <2>2, <2>3
  <1>2. \A v \in (Ver(disk') + 1)..mem'.ver :
           v # mem'.ver => states[v] \in MemoryState
    BY <1>1 DEF HInv
  <1>. QED
    BY <1>1, <1>2 DEF Record

(* A step that changes neither memory nor the file records nothing. *)
LEMMA QuietRecord ==
  ASSUME IInv, HInv, Record, UNCHANGED <<mem, disk>>
  PROVE  states' = states
  <1>1. Ver(disk) \in Nat /\ mem.ver \in Nat
    BY Versions
  <1>2. states = [v \in (Ver(disk) + 1)..mem.ver |-> states[v]]
    BY DEF HInv
  <1>3. \A v \in (Ver(disk) + 1)..mem.ver : v = mem.ver => states[v] = mem
    BY <1>1 DEF HInv
  <1>4. states' = [v \in (Ver(disk) + 1)..mem.ver |-> IF v = mem.ver THEN mem ELSE states[v]]
    BY DEF Record
  <1>. QED
    BY <1>2, <1>3, <1>4

(* The steps that change neither memory, nor the file, nor a snapshot, and *)
(* that bring no goroutine nearer to its write.                            *)
LEMMA QuietHInv ==
  ASSUME IInv, HInv, Record, UNCHANGED <<mem, disk, snap>>,
         \A s \in Savers : pc'[s] \notin {"idle", "event"} => pc[s] \notin {"idle", "event"},
         \A s \in Savers : pc'[s] \in WritingPc => pc[s] \in WritingPc
  PROVE  HInv'
  <1>1. states' = states
    BY QuietRecord
  <1>2. FreshOK'
    BY DEF HInv, FreshOK
  <1>. QED
    BY <1>1, <1>2 DEF HInv

LEMMA MutationHInv ==
  ASSUME IInv, IInv', HInv, Record, Mutation
  PROVE  HInv'
  <1>1. /\ mem'.ver = mem.ver + 1 /\ disk' = disk /\ snap' = snap
        /\ \A t \in Savers : pc'[t] \in WritingPc => pc[t] = pc'[t]
    BY MutationEffect DEF IInv, WritingPc
  <1>2. Ver(disk) \in Nat /\ mem.ver \in Nat /\ Ver(disk) <= mem.ver
    BY Versions DEF IInv
  <1>3. /\ states' \in [(Ver(disk') + 1)..mem'.ver -> MemoryState]
        /\ Ver(disk') < mem'.ver => states'[mem'.ver] = mem'
        /\ \A v \in (Ver(disk') + 1)..mem'.ver :
             v # mem'.ver => states'[v] = states[v]
    BY <1>1, <1>2, RecordEffect
  <1>4. FreshOK'
    BY <1>1, <1>2 DEF FreshOK
  <1>5. ASSUME NEW t \in Savers, pc'[t] \in WritingPc
        PROVE  snap'[t] = IF snap'[t].ver = Ver(disk') THEN disk' ELSE states'[snap'[t].ver]
    <2>1. /\ snap[t] = IF snap[t].ver = Ver(disk) THEN disk ELSE states[snap[t].ver]
          /\ Ver(disk) <= snap[t].ver /\ snap[t].ver <= mem.ver /\ snap[t].ver \in Nat
      BY <1>1, <1>5, Versions DEF HInv, IInv, SnapOK
    <2>2. CASE snap[t].ver = Ver(disk)
      BY <1>1, <2>1, <2>2
    <2>3. CASE snap[t].ver # Ver(disk)
      <3>1. snap[t].ver \in (Ver(disk') + 1)..mem'.ver /\ snap[t].ver # mem'.ver
        BY <1>1, <1>2, <2>1, <2>3
      <3>. QED
        BY <1>1, <1>3, <2>1, <2>3, <3>1
    <2>. QED
      BY <2>2, <2>3
  <1>. QED
    BY <1>3, <1>4, <1>5 DEF HInv

LEMMA SnapshotHInv ==
  ASSUME IInv, HInv, Record, NEW s \in Savers, TakeSnapshot(s)
  PROVE  HInv'
  <1>1. /\ UNCHANGED <<mem, disk>>
        /\ pc[s] = "snapshot" /\ snap'[s] = mem
        /\ \A t \in Savers \ {s} : pc'[t] = pc[t] /\ snap'[t] = snap[t]
    BY DEF TakeSnapshot, Goto, fileVars, IInv, TypeOK
  <1>2. states' = states
    BY <1>1, QuietRecord
  <1>3. mem = IF mem.ver = Ver(disk) THEN disk ELSE states[mem.ver]
    BY <1>1, Versions DEF HInv, FreshOK, IInv
  <1>4. FreshOK'
    BY <1>1 DEF HInv, FreshOK
  <1>. QED
    BY <1>1, <1>2, <1>3, <1>4 DEF HInv

LEMMA RenameHInv ==
  ASSUME IInv, IInv', HInv, Record, NEW s \in Savers, RenameTmp(s)
  PROVE  HInv'
  <1>1. UNCHANGED <<mem, snap>> /\ Ver(disk) <= Ver(disk') /\ disk' = snap[s]
    BY RenameEffect DEF RenameTmp
  <1>2. mem.ver \in Nat
    BY Versions
  <1>3. /\ states' \in [(Ver(disk') + 1)..mem'.ver -> MemoryState]
        /\ Ver(disk') < mem'.ver => states'[mem'.ver] = mem'
    BY <1>1, <1>2, RecordEffect
  <1>4. \A t \in Savers : pc'[t] \notin WritingPc
    BY DEF RenameTmp, Goto, IInv, MutexOK, TypeOK, WritingPc
  <1>5. FreshOK'
    BY <1>1, RenameEffect DEF FreshOK, RenameTmp, Goto, IInv, SnapOK, WritingPc
  <1>. QED
    BY <1>3, <1>4, <1>5 DEF HInv

LEMMA RestartHInv ==
  ASSUME IInv, IInv', HInv, Record, Restart
  PROVE  HInv'
  <1>1. /\ disk' = disk /\ snap' = snap /\ pc' = pc
        /\ \A s \in Savers : pc[s] = "idle"
        /\ mem'.ver = Ver(disk) /\ Ver(disk) <= mem.ver
        /\ Ver(disk) \in Nat /\ mem.ver \in Nat
    BY Versions, LoadedType DEF Restart, IInv, ExitedOK
  <1>2. /\ states' \in [(Ver(disk') + 1)..mem'.ver -> MemoryState]
        /\ Ver(disk') < mem'.ver => states'[mem'.ver] = mem'
    BY <1>1, RecordEffect
  <1>3. FreshOK' /\ \A s \in Savers : pc'[s] \notin WritingPc
    BY <1>1 DEF FreshOK, WritingPc
  <1>. QED
    BY <1>2, <1>3 DEF HInv

LEMMA NextHInv == IInv /\ IInv' /\ HInv /\ [HNext]_hvars => HInv'
  <1> SUFFICES ASSUME IInv, IInv', HInv, [HNext]_hvars PROVE HInv'
    OBVIOUS
  <1>1. CASE UNCHANGED hvars
    BY <1>1 DEF hvars, vars, HInv, FreshOK
  <1>2. CASE Mutation /\ Record
    BY <1>2, MutationHInv
  <1>3. ASSUME NEW s \in Savers, Record,
               Notify(s) \/ NotifyEvent(s) \/ AcquireSaveMu(s) \/ OpenTmp(s) \/ WriteTmp(s)
               \/ SaveFails(s)
        PROVE  HInv'
    <2>1. /\ UNCHANGED <<mem, disk, snap>>
          /\ \A t \in Savers \ {s} : pc'[t] = pc[t]
          /\ pc'[s] \notin {"idle", "event"} => pc[s] \notin {"idle", "event"}
          /\ pc'[s] \in WritingPc => pc[s] \in WritingPc
      BY <1>3 DEF Notify, NotifyEvent, AcquireSaveMu, OpenTmp, WriteTmp, SaveFails, Goto,
                  fileVars, IInv, TypeOK, WritingPc
    <2>. QED
      BY <1>3, <2>1, QuietHInv
  <1>4. ASSUME NEW s \in Savers, Record, TakeSnapshot(s) PROVE HInv'
    BY <1>4, SnapshotHInv
  <1>5. ASSUME NEW s \in Savers, Record, RenameTmp(s) PROVE HInv'
    BY <1>5, RenameHInv
  <1>6. CASE (Stop \/ Kill) /\ Record
    <2>1. UNCHANGED <<mem, disk>> /\ \A t \in Savers : pc'[t] = "idle"
      BY <1>6 DEF Stop, Kill, Exit, fileVars
    <2>2. states' = states
      BY <1>6, <2>1, QuietRecord
    <2>. QED
      BY <2>1, <2>2 DEF HInv, FreshOK, WritingPc
  <1>7. CASE Restart /\ Record
    BY <1>7, RestartHInv
  <1>. QED
    BY <1>1, <1>2, <1>3, <1>4, <1>5, <1>6, <1>7 DEF HNext, Next, SaverStep

---------------------------------------------------------------------------
(* The refinement: mutations are Mutate, renames that bring something new  *)
(* are Persist, every exit is Exit; all other steps change nothing that    *)
(* DurableStore sees.                                                      *)
LEMMA InitRefines == HInit => Durable!Init
  BY LoadedType DEF HInit, Init, Durable!Init, Ver

LEMMA MutationRefines ==
  ASSUME IInv, Record, Mutation
  PROVE  Durable!Mutate
  <1>1. phase = "up" /\ phase' = phase /\ mem'.ver = mem.ver + 1 /\ disk' = disk
    BY MutationEffect DEF IInv
  <1>. QED
    BY <1>1 DEF Durable!Mutate, Record

LEMMA RenameRefines ==
  ASSUME IInv, HInv, Record, NEW s \in Savers, RenameTmp(s)
  PROVE  Durable!Persist \/ UNCHANGED Durable!dvars
  <1>1. /\ UNCHANGED <<mem, phase>> /\ disk' = snap[s] /\ pc[s] \in WritingPc
        /\ Ver(disk') = snap[s].ver
        /\ Ver(disk) <= snap[s].ver /\ snap[s].ver <= mem.ver
    BY RenameEffect DEF RenameTmp, Goto, WritingPc
  <1>2. Ver(disk) \in Nat /\ snap[s].ver \in Nat /\ mem.ver \in Nat
    BY Versions
  <1>3. phase = "up"
    BY <1>1 DEF IInv, ExitedOK, WritingPc
  <1>4. CASE snap[s].ver = Ver(disk)
    <2>1. disk' = disk
      BY <1>1, <1>4 DEF HInv
    <2>2. states' = states
      BY <1>1, <2>1, QuietRecord
    <2>. QED
      BY <1>1, <2>1, <2>2 DEF Durable!dvars
  <1>5. CASE snap[s].ver # Ver(disk)
    <2>1. Ver(disk') \in (Ver(disk) + 1)..mem.ver /\ disk' = states[Ver(disk')]
      BY <1>1, <1>2, <1>5 DEF HInv
    <2>2. \A v \in (Ver(disk') + 1)..mem.ver : v = mem.ver => states[v] = mem
      BY <1>1, <1>2 DEF HInv
    <2>3. states' = [v \in (Ver(disk') + 1)..mem.ver |-> states[v]]
      BY <1>1, <2>2 DEF Record
    <2>. QED
      BY <1>1, <1>3, <2>1, <2>3 DEF Durable!Persist
  <1>. QED
    BY <1>4, <1>5

LEMMA RestartRefines ==
  ASSUME IInv, Record, Restart
  PROVE  Durable!Restart
  <1>1. /\ phase # "up" /\ phase' = "up" /\ mem' = Loaded(disk) /\ disk' = disk
        /\ mem'.ver = Ver(disk) /\ Ver(disk) \in Nat
    BY Versions, LoadedType DEF Restart
  <1>2. states' = [v \in (Ver(disk) + 1)..Ver(disk) |-> mem]
    BY <1>1 DEF Record
  <1>. QED
    BY <1>1, <1>2 DEF Durable!Restart

LEMMA StepRefines ==
  IInv /\ HInv /\ [HNext]_hvars => [Durable!Next]_(Durable!dvars)
  <1> SUFFICES ASSUME IInv, HInv, [HNext]_hvars
               PROVE  Durable!Next \/ UNCHANGED Durable!dvars
    OBVIOUS
  <1>1. CASE UNCHANGED hvars
    BY <1>1 DEF hvars, vars, Durable!dvars
  <1>2. CASE Mutation /\ Record
    BY <1>2, MutationRefines DEF Durable!Next
  <1>3. ASSUME NEW s \in Savers, Record,
               Notify(s) \/ NotifyEvent(s) \/ AcquireSaveMu(s) \/ TakeSnapshot(s)
               \/ OpenTmp(s) \/ WriteTmp(s) \/ SaveFails(s)
        PROVE  UNCHANGED Durable!dvars
    <2>1. UNCHANGED <<mem, disk, phase>>
      BY <1>3 DEF Notify, NotifyEvent, AcquireSaveMu, TakeSnapshot, OpenTmp, WriteTmp,
                  SaveFails, fileVars
    <2>2. states' = states
      BY <1>3, <2>1, QuietRecord
    <2>. QED
      BY <2>1, <2>2 DEF Durable!dvars
  <1>4. ASSUME NEW s \in Savers, Record, RenameTmp(s)
        PROVE  Durable!Next \/ UNCHANGED Durable!dvars
    BY <1>4, RenameRefines DEF Durable!Next
  <1>5. CASE (Stop \/ Kill) /\ Record
    <2>1. UNCHANGED <<mem, disk>> /\ phase = "up" /\ phase' # "up"
      BY <1>5 DEF Stop, Kill, Exit, fileVars
    <2>2. states' = states
      BY <1>5, <2>1, QuietRecord
    <2>. QED
      BY <2>1, <2>2 DEF Durable!Next, Durable!Exit
  <1>6. CASE Restart /\ Record
    BY <1>6, RestartRefines DEF Durable!Next
  <1>. QED
    BY <1>1, <1>2, <1>3, <1>4, <1>5, <1>6 DEF HNext, Next, SaverStep

(* save's contract: whatever the saves interleave with, whichever of them  *)
(* fail and whenever the process dies, a restart finds a state memory went *)
(* through, and later restarts never find an earlier one.                  *)
THEOREM StoreImplementsDurable == HSpec => ImplementsDurable
  <1>1. HInit => IInv /\ HInv
    BY InitIInv, InitHInv DEF HInit
  <1>2. IInv /\ [HNext]_hvars => IInv'
    BY NextIInv DEF HNext, hvars
  <1>3. IInv /\ IInv' /\ HInv /\ [HNext]_hvars => HInv'
    BY NextHInv
  <1>. QED
    BY <1>1, <1>2, <1>3, InitRefines, StepRefines, PTL DEF HSpec, ImplementsDurable, Durable!Spec

---------------------------------------------------------------------------
(* What a watch promises, for every collection, any number of watchers and *)
(* of goroutines that save, over exits and restarts of q8s.                *)
USE WatchedAssumption

(* The store keeps its own invariants under the steps of watchers. *)
LEMMA StoreInvKept ==
  ASSUME IInv, StampInv, [WNext]_wvars
  PROVE  IInv' /\ StampInv'
  <1>1. [Next]_vars
    BY DEF WNext, wvars, StoreStep, List, Open, WatchStep, Subscribe, Diff, Disconnect
  <1>. QED
    BY <1>1, NextIInv, NextStampInv

LEMMA ListingType ==
  ASSUME IInv
  PROVE  /\ Listing \in [Watched -> Nat \cup {Absent}]
         /\ mem.rv \in Nat /\ mem.obj \in [Keys -> Nat \cup {Absent}]
         /\ \A k \in Watched : k \in Keys /\ Listing[k] = mem.obj[k]
  BY DEF IInv, TypeOK, MemoryState, Listing

(* A mutation stamps what it stores later than anything before it. *)
LEMMA LaterStamps ==
  ASSUME IInv, Mutation
  PROVE  /\ mem'.rv \in Nat /\ mem.rv <= mem'.rv
         /\ \A k \in Keys : mem'.obj[k] \in {Absent, mem.obj[k], mem'.rv}
  <1>1. mem \in MemoryState
    BY DEF IInv, TypeOK
  <1>2. \/ \E k \in Keys : mem' = Stamp(mem, k) \/ mem' = Remove(mem, k)
        \/ \E n \in Namespaces : mem' = Purge(mem, n)
    BY DEF Mutation, Create, Update, Delete, PurgeNamespace, Mutate
  <1>3. CASE \E k \in Keys : mem' = Stamp(mem, k)
    BY <1>1, <1>3 DEF MemoryState, Stamp
  <1>4. CASE \E k \in Keys : mem' = Remove(mem, k)
    BY <1>1, <1>4 DEF MemoryState, Remove
  <1>5. CASE \E n \in Namespaces : mem' = Purge(mem, n)
    BY <1>1, <1>5 DEF MemoryState, Purge
  <1>. QED
    BY <1>2, <1>3, <1>4, <1>5

LEMMA StoreStepWInv ==
  ASSUME IInv, IInv', WInv, StoreStep
  PROVE  WInv'
  <1>1. CASE phase' # "up"
    BY <1>1 DEF StoreStep, WInv, WTypeOK, Watching, ViewFollowsSeen, SeenIsPast
  <1>2. CASE phase' = "up" /\ phase # "up"
    <2>1. \A w \in Watchers : ~Watching(w) /\ ~Watching(w)'
      BY <1>2 DEF StoreStep, WInv, Watching, watchVars
    <2>. QED
      BY <1>2, <2>1 DEF StoreStep, watchVars, WInv, WTypeOK, ViewFollowsSeen, SeenIsPast
  <1>3. CASE phase' = "up" /\ phase = "up"
    <2>1. UNCHANGED watchVars
      BY <1>3 DEF StoreStep
    <2>2. UNCHANGED mem \/ Mutation
      <3>1. ~Restart /\ ~Stop /\ ~Kill
        BY <1>3 DEF Restart, Stop, Kill, Exit
      <3>2. ASSUME NEW s \in Savers, SaverStep(s) \/ SaveFails(s) PROVE UNCHANGED mem
        BY <3>2 DEF SaverStep, SaveFails, Notify, NotifyEvent, AcquireSaveMu, TakeSnapshot,
                    OpenTmp, WriteTmp, RenameTmp
      <3>. QED
        BY <3>1, <3>2 DEF StoreStep, Next
    <2>3. SeenIsPast'
      <3> SUFFICES ASSUME NEW w \in Watchers, NEW k \in Watched, Watching(w), seen[w][k] # Absent
                   PROVE  /\ seen[w][k] <= mem'.rv
                          /\ mem'.obj[k] # Absent => seen[w][k] <= mem'.obj[k]
        BY <2>1 DEF SeenIsPast, Watching, watchVars
      <3>1. /\ seen[w][k] \in Nat /\ seen[w][k] <= mem.rv
            /\ mem.obj[k] # Absent => seen[w][k] <= mem.obj[k]
        BY DEF WInv, WTypeOK, SeenIsPast
      <3>2. mem.rv \in Nat /\ k \in Keys
        BY ListingType
      <3>. QED
        BY <2>2, <3>1, <3>2, LaterStamps
    <2>. QED
      BY <1>3, <2>1, <2>3 DEF WInv, WTypeOK, Watching, ViewFollowsSeen, watchVars
  <1>. QED
    BY <1>1, <1>2, <1>3

LEMMA ListWInv ==
  ASSUME IInv, WInv, NEW w \in Watchers, List(w)
  PROVE  WInv'
  <1>1. \A u \in Watchers \ {w} : view'[u] = view[u] /\ wpc'[u] = wpc[u]
    BY DEF List, WGoto, WInv, WTypeOK
  <1>2. ~Watching(w)' /\ UNCHANGED <<vars, seen, sub, gap>>
    BY DEF List, WGoto, WInv, WTypeOK, Watching
  <1>3. WTypeOK'
    BY ListingType DEF List, WGoto, WInv, WTypeOK
  <1>. QED
    BY <1>1, <1>2, <1>3 DEF WInv, ViewFollowsSeen, SeenIsPast, Watching, vars

LEMMA OpenWInv ==
  ASSUME IInv, StampInv, WInv, NEW w \in Watchers, Open(w)
  PROVE  WInv'
  <1>1. /\ \A u \in Watchers \ {w} : seen'[u] = seen[u] /\ wpc'[u] = wpc[u] /\ gap'[u] = gap[u]
        /\ seen'[w] = Listing
        /\ gap'[w] = {k \in Watched : Listing[k] # view[w][k]}
        /\ UNCHANGED <<vars, sub, view>> /\ phase = "up"
    BY DEF Open, WGoto, WInv, WTypeOK
  <1>2. WTypeOK'
    BY <1>1, ListingType DEF Open, WGoto, WInv, WTypeOK
  <1>3. ViewFollowsSeen'
    BY <1>1 DEF WInv, ViewFollowsSeen, Watching
  <1>4. SeenIsPast'
    BY <1>1, ListingType DEF WInv, SeenIsPast, Watching, vars, StampInv, StampsIdentify, StampsOK, Present
  <1>. QED
    BY <1>1, <1>2, <1>3, <1>4 DEF WInv, Watching, vars

LEMMA DiffWInv ==
  ASSUME IInv, StampInv, WInv, NEW w \in Watchers, Diff(w)
  PROVE  WInv'
  <1>1. /\ \A u \in Watchers \ {w} :
             seen'[u] = seen[u] /\ view'[u] = view[u] /\ wpc'[u] = wpc[u] /\ gap'[u] = gap[u]
        /\ seen'[w] = Listing /\ view'[w] = Received(w) /\ gap'[w] = gap[w] \ Changed(w)
        /\ Watching(w) /\ UNCHANGED <<vars, sub>> /\ phase = "up"
    BY DEF Diff, WGoto, WInv, WTypeOK, Watching
  <1>2. Received(w) \in [Watched -> Nat \cup {Absent}]
    BY ListingType DEF Received, WInv, WTypeOK
  <1>3. WTypeOK'
    BY <1>1, <1>2, ListingType DEF Diff, WGoto, WInv, WTypeOK
  <1>4. ViewFollowsSeen'
    <2>1. \A k \in Watched \ (gap[w] \ Changed(w)) : Received(w)[k] = Listing[k]
      BY <1>1 DEF Received, Changed, Deleted, WInv, ViewFollowsSeen
    <2>. QED
      BY <1>1, <2>1 DEF WInv, ViewFollowsSeen, Watching
  <1>5. SeenIsPast'
    BY <1>1, ListingType DEF WInv, SeenIsPast, Watching, vars, StampInv, StampsIdentify, StampsOK, Present
  <1>. QED
    BY <1>1, <1>3, <1>4, <1>5 DEF WInv, Watching, vars

LEMMA QuietWInv ==
  ASSUME IInv, WInv, NEW w \in Watchers, Subscribe(w) \/ Disconnect(w)
  PROVE  WInv'
  <1>1. /\ \A u \in Watchers \ {w} : wpc'[u] = wpc[u] /\ gap'[u] = gap[u]
        /\ UNCHANGED <<vars, seen, view>>
        /\ Watching(w)' => Watching(w) /\ gap' = gap
    BY DEF Subscribe, Disconnect, WGoto, WInv, WTypeOK, Watching
  <1>2. WTypeOK'
    <2>1. epoch \in Nat
      BY DEF IInv, TypeOK
    <2>2. CASE Subscribe(w)
      BY <2>1, <2>2 DEF Subscribe, WGoto, WInv, WTypeOK, vars
    <2>3. CASE Disconnect(w)
      BY <2>3 DEF Disconnect, WInv, WTypeOK, vars
    <2>. QED
      BY <2>2, <2>3
  <1>. QED
    BY <1>1, <1>2 DEF WInv, ViewFollowsSeen, SeenIsPast, Watching, vars

LEMMA NextWInv == IInv /\ StampInv /\ WInv /\ [WNext]_wvars => WInv'
  <1> SUFFICES ASSUME IInv, StampInv, WInv, [WNext]_wvars PROVE WInv'
    OBVIOUS
  <1>1. CASE StoreStep
    BY <1>1, StoreInvKept, StoreStepWInv
  <1>2. ASSUME NEW w \in Watchers, List(w) \/ Open(w) \/ WatchStep(w) \/ Disconnect(w)
        PROVE  WInv'
    BY <1>2, ListWInv, OpenWInv, DiffWInv, QuietWInv DEF WatchStep
  <1>3. CASE UNCHANGED wvars
    BY <1>3 DEF wvars, vars, watchVars, WInv, WTypeOK, ViewFollowsSeen, SeenIsPast, Watching
  <1>. QED
    BY <1>1, <1>2, <1>3 DEF WNext

LEMMA InitWInv == WInit => IInv /\ StampInv /\ WInv
  <1> SUFFICES ASSUME WInit PROVE IInv /\ StampInv /\ WInv
    OBVIOUS
  <1>1. IInv
    BY InitIInv DEF WInit
  <1>2. StampInv
    BY EmptyStamps, LoadedStamps DEF WInit, Init, StampInv, StampsIdentify
  <1>3. WInv
    BY DEF WInit, WInv, WTypeOK, ViewFollowsSeen, SeenIsPast, Watching, Nothing
  <1>. QED
    BY <1>1, <1>2, <1>3

(* The declared shapes of what watchers keep. *)
THEOREM WatchTypeCorrect == WSpec => []WTypeOK
  <1>1. WInv => WTypeOK
    BY DEF WInv
  <1>. QED
    BY <1>1, InitWInv, StoreInvKept, NextWInv, PTL DEF WSpec

(* serveWatch: however mutations and comparisons interleave, the events    *)
(* streamed rebuild the collection the server believes to have sent.       *)
THEOREM EventsRebuildTheCollection == WSpec => []ViewFollowsSeen
  <1>1. WInv => ViewFollowsSeen
    BY DEF WInv
  <1>. QED
    BY <1>1, InitWInv, StoreInvKept, NextWInv, PTL DEF WSpec

(* serveWatch: no event takes a watcher back to an older resourceVersion   *)
(* of a key, nor ahead of the store.                                       *)
THEOREM WatchesNeverGoBack == WSpec => SeenAdvances
  <1> DEFINE Advance ==
        \A w \in Watchers, k \in Watched :
          Watching(w) /\ Watching(w)' /\ seen'[w][k] # seen[w][k] /\ seen'[w][k] # Absent
            => (seen[w][k] # Absent => seen[w][k] < seen'[w][k]) /\ seen'[w][k] <= mem.rv
  <1>1. IInv /\ StampInv /\ WInv /\ [WNext]_wvars => [Advance]_wvars
    <2> SUFFICES ASSUME IInv, StampInv, WInv, WNext,
                        NEW w \in Watchers, NEW k \in Watched,
                        Watching(w), Watching(w)', seen'[w][k] # seen[w][k], seen'[w][k] # Absent
                 PROVE  /\ seen[w][k] # Absent => seen[w][k] < seen'[w][k]
                        /\ seen'[w][k] <= mem.rv
      OBVIOUS
    <2>1. Diff(w)
      BY DEF WNext, StoreStep, watchVars, List, Open, WatchStep, Subscribe, Diff, Disconnect,
             WGoto, WInv, WTypeOK, Watching
    <2>2. seen'[w][k] = mem.obj[k] /\ k \in Keys
      BY <2>1, ListingType DEF Diff, WInv, WTypeOK
    <2>3. mem.obj[k] \in Nat /\ mem.obj[k] <= mem.rv
      BY <2>2, ListingType DEF StampInv, StampsIdentify, StampsOK, Present
    <2>4. seen[w][k] # Absent => seen[w][k] \in Nat /\ seen[w][k] <= mem.obj[k]
      BY <2>2 DEF WInv, WTypeOK, SeenIsPast
    <2>. QED
      BY <2>2, <2>3, <2>4
  <1>. QED
    BY <1>1, InitWInv, StoreInvKept, NextWInv, PTL DEF WSpec, SeenAdvances
=============================================================================
