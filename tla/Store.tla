------------------------------- MODULE Store -------------------------------
(***************************************************************************)
(* The resource store of internal/store/store.go: the in-memory maps, the  *)
(* resourceVersion counter, the goroutines started by `go s.save()` and    *)
(* the file {dataDir}/store.json with its .tmp companion.                  *)
(*                                                                         *)
(* An object is known by its key and the resourceVersion it was stamped    *)
(* with; two bodies stored under one key always carry different stamps, so *)
(* the stamp stands for the body.  A memory state also carries `ver`, the  *)
(* number of mutations that led to it (a history field: no code reads it). *)
(*                                                                         *)
(* Atomicity follows the locks: a mutation holds s.mu, a snapshot holds    *)
(* s.mu.RLock, every file operation of a save is a step of its own, and    *)
(* the process may be killed between any two steps.                        *)
(***************************************************************************)
EXTENDS Integers, FiniteSets

CONSTANTS
  Resources,   \* keys of namespaced objects (kind + namespace + name)
  Recorded,    \* those whose create and delete call recordEvent (pods, jobs, deployments)
  Namespaces,  \* keys of Namespace entries
  NsOf,        \* NsOf[k] is the namespace a resource key lies in
  Default,     \* the "default" Namespace entry
  Savers,      \* goroutine identities: bound on saves and event notifications in flight
  Persistent,  \* dataFile # "" (a store made by New has no file)
  Absent, NoFile, Partial, NoHolder,
  MaxVer,      \* bound on mutations in one history
  MaxFaults    \* bound on file-system errors

Keys == Resources \cup Namespaces

ASSUME KeysAssumption ==
  /\ Resources \cap Namespaces = {}
  /\ Recorded \subseteq Resources
  /\ NsOf \in [Resources -> Namespaces]
  /\ Default \in Namespaces
ASSUME BoundsAssumption == MaxVer \in Nat /\ MaxFaults \in Nat /\ Persistent \in BOOLEAN

MemoryState == [ver : Nat, rv : Nat, obj : [Keys -> Nat \cup {Absent}]]

ASSUME SentinelAssumption ==
  /\ Absent \notin Nat
  /\ NoFile \notin MemoryState \cup {Partial}
  /\ Partial \notin MemoryState
  /\ NoHolder \notin Savers

VARIABLES
  mem,      \* the maps and resourceVer; after an exit, what they last held
  pc,       \* pc[s]: where the goroutine s stands ("idle": it does not exist)
  snap,     \* snap[s]: the snapshot s marshals
  saveMu,   \* the goroutine holding saveMu, or NoHolder
  epoch,    \* how many times notifyCh has been closed and replaced
  tmp,      \* store.json.tmp
  disk,     \* store.json
  phase,    \* "up", "stopped" (SIGTERM, orderly exit) or "killed"
  ioError,  \* the latest completed save failed: its mutations are only in memory
  faults    \* file-system errors so far

vars == <<mem, pc, snap, saveMu, epoch, tmp, disk, phase, ioError, faults>>
fileVars == <<tmp, disk, ioError, faults>>

---------------------------------------------------------------------------
(* Memory states                                                           *)

Present(m, k) == m.obj[k] # Absent

(* Mutation test: a stamp taken without advancing the counter. *)
StampFaulty(m, k) ==
  [ver |-> m.ver + 1, rv |-> m.rv, obj |-> [m.obj EXCEPT ![k] = m.rv]]

(* s.incRV() and the assignment to the map, under s.mu *)
Stamp(m, k) ==
  [ver |-> m.ver + 1, rv |-> m.rv + 1, obj |-> [m.obj EXCEPT ![k] = m.rv + 1]]

Remove(m, k) ==
  [ver |-> m.ver + 1, rv |-> m.rv, obj |-> [m.obj EXCEPT ![k] = Absent]]

(* Every resource of the namespace goes, its Namespace entry stays. *)
Purge(m, n) ==
  [ver |-> m.ver + 1, rv |-> m.rv + 1,
   obj |-> [k \in Keys |-> IF k \in Resources /\ NsOf[k] = n THEN Absent ELSE m.obj[k]]]

(* Mutation test: the entry is stamped with the counter's previous value. *)
EnsureDefaultFaulty(m) ==
  IF Present(m, Default) THEN m ELSE [m EXCEPT !.obj[Default] = m.rv - 1]

(* The entry that ensureDefaultNamespace adds carries no resourceVersion. *)
EnsureDefault(m) ==
  IF Present(m, Default) THEN m ELSE [m EXCEPT !.obj[Default] = 0]

Empty == [ver |-> 0, rv |-> 0, obj |-> [k \in Keys |-> Absent]]

Loaded(file) == EnsureDefault(IF file = NoFile THEN Empty ELSE file)

(* The number of mutations the file reflects; a torn one reflects none. *)
Ver(file) == IF file \in {NoFile, Partial} THEN 0 ELSE file.ver

---------------------------------------------------------------------------
(* Mutations: the public methods of *Store.  Each runs under s.mu, then    *)
(* starts `go s.save()` and returns to its caller without waiting for it.  *)

Init ==
  /\ mem = Loaded(NoFile)
  /\ pc = [s \in Savers |-> "idle"]
  /\ snap = [s \in Savers |-> Empty]
  /\ saveMu = NoHolder
  /\ epoch = 0
  /\ tmp = NoFile
  /\ disk = NoFile
  /\ phase = "up"
  /\ ioError = FALSE
  /\ faults = 0

(* go s.save(), and s.recordEvent for a recorded kind: both end in         *)
(* notifyChanged, in either order.                                         *)
SpawnSave(records) ==
  \E s \in Savers :
    /\ pc[s] = "idle"
    /\ IF records
         THEN \E e \in Savers \ {s} :
                /\ pc[e] = "idle"
                /\ pc' = [pc EXCEPT ![s] = "notify", ![e] = "event"]
         ELSE pc' = [pc EXCEPT ![s] = "notify"]

Mutate(m, records) ==
  /\ phase = "up"
  /\ mem.ver < MaxVer
  /\ mem' = m
  /\ SpawnSave(records)
  /\ UNCHANGED <<snap, saveMu, epoch, phase>>
  /\ UNCHANGED fileVars

(* An existing key is an "already exists" error and changes nothing. *)
Create(k) == ~Present(mem, k) /\ Mutate(Stamp(mem, k), k \in Recorded)

(* Mutation test: an update stored under the version its client sent. *)
UpdateFaulty(k) ==
  /\ Present(mem, k)
  /\ \E r \in 0..mem.rv : Mutate([mem EXCEPT !.ver = @ + 1, !.obj[k] = r], FALSE)

(* A missing key is a "not found" error and changes nothing; a change of   *)
(* status is recorded as an event, one of the spec is not.                 *)
Update(k) ==
  /\ Present(mem, k)
  /\ \E records \in BOOLEAN :
       (records => k \in Recorded) /\ Mutate(Stamp(mem, k), records)

(* Mutation test: a delete that starts no save. *)
DeleteFaulty(k) ==
  /\ phase = "up"
  /\ Present(mem, k)
  /\ mem.ver < MaxVer
  /\ mem' = Remove(mem, k)
  /\ UNCHANGED <<pc, snap, saveMu, epoch, phase>>
  /\ UNCHANGED fileVars

Delete(k) == Present(mem, k) /\ Mutate(Remove(mem, k), k \in Recorded)

(* Called by the namespace handler with or without resources to purge. *)
PurgeNamespace(n) == Mutate(Purge(mem, n), FALSE)

---------------------------------------------------------------------------
(* save(), one step per lock, snapshot and file operation.                 *)

WritingPc == {"write", "writing", "rename"}
SaverPc == {"idle", "notify", "event", "lock", "snapshot"} \cup WritingPc

Goto(s, from, to) ==
  /\ pc[s] = from
  /\ pc' = [pc EXCEPT ![s] = to]

(* notifyChanged; without a data file save returns here. *)
Notify(s) ==
  /\ Goto(s, "notify", IF Persistent THEN "lock" ELSE "idle")
  /\ epoch' = epoch + 1
  /\ UNCHANGED <<mem, snap, saveMu, phase>>
  /\ UNCHANGED fileVars

(* The notifyChanged of recordEvent, in the goroutine of the mutation. *)
NotifyEvent(s) ==
  /\ Goto(s, "event", "idle")
  /\ epoch' = epoch + 1
  /\ UNCHANGED <<mem, snap, saveMu, phase>>
  /\ UNCHANGED fileVars

(* Mutation test: the writers are not serialised. *)
AcquireSaveMuUnlocked(s) ==
  /\ Goto(s, "lock", "snapshot")
  /\ saveMu' = s
  /\ UNCHANGED <<mem, snap, epoch, phase>>
  /\ UNCHANGED fileVars

(* Mutation test: a save that finds another one running gives up. *)
AcquireSaveMuOrSkip(s) ==
  /\ Goto(s, "lock", IF saveMu = NoHolder THEN "snapshot" ELSE "idle")
  /\ saveMu' = IF saveMu = NoHolder THEN s ELSE saveMu
  /\ UNCHANGED <<mem, snap, epoch, phase>>
  /\ UNCHANGED fileVars

AcquireSaveMu(s) ==
  /\ Goto(s, "lock", "snapshot")
  /\ saveMu = NoHolder
  /\ saveMu' = s
  /\ UNCHANGED <<mem, snap, epoch, phase>>
  /\ UNCHANGED fileVars

(* Mutation test: a snapshot without the resourceVersion counter. *)
TakeSnapshotFaulty(s) ==
  /\ Goto(s, "snapshot", "write")
  /\ snap' = [snap EXCEPT ![s] = [mem EXCEPT !.rv = 0]]
  /\ UNCHANGED <<mem, saveMu, epoch, phase>>
  /\ UNCHANGED fileVars

TakeSnapshot(s) ==
  /\ Goto(s, "snapshot", "write")
  /\ snap' = [snap EXCEPT ![s] = mem]
  /\ UNCHANGED <<mem, saveMu, epoch, phase>>
  /\ UNCHANGED fileVars

(* Mutation test: an unfinished write is renamed over the file. *)
OpenTmpFaulty(s) ==
  /\ Goto(s, "write", "rename")
  /\ tmp' = Partial
  /\ UNCHANGED <<mem, snap, saveMu, epoch, disk, phase, ioError, faults>>

(* os.WriteFile truncates the file before it writes. *)
OpenTmp(s) ==
  /\ Goto(s, "write", "writing")
  /\ tmp' = Partial
  /\ UNCHANGED <<mem, snap, saveMu, epoch, disk, phase, ioError, faults>>

WriteTmp(s) ==
  /\ Goto(s, "writing", "rename")
  /\ tmp' = snap[s]
  /\ UNCHANGED <<mem, snap, saveMu, epoch, disk, phase, ioError, faults>>

RenameTmp(s) ==
  /\ Goto(s, "rename", "idle")
  /\ tmp # NoFile
  /\ disk' = tmp
  /\ tmp' = NoFile
  /\ ioError' = FALSE
  /\ saveMu' = NoHolder
  /\ UNCHANGED <<mem, snap, epoch, phase, faults>>

(* Marshal, MkdirAll, WriteFile or Rename fails: the error is printed, the *)
(* deferred unlock runs, and nothing retries the save.                     *)
SaveFails(s) ==
  /\ pc[s] \in WritingPc
  /\ faults < MaxFaults
  /\ pc' = [pc EXCEPT ![s] = "idle"]
  /\ saveMu' = NoHolder
  /\ ioError' = TRUE
  /\ faults' = faults + 1
  /\ UNCHANGED <<mem, snap, epoch, tmp, disk, phase>>

---------------------------------------------------------------------------
(* The process: SIGTERM drains the HTTP server and leaves main, which ends *)
(* every goroutine; a kill ends them at any point.  Files stay.            *)

Exit(how) ==
  /\ phase = "up"
  /\ phase' = how
  /\ pc' = [s \in Savers |-> "idle"]
  /\ snap' = [s \in Savers |-> Empty]
  /\ saveMu' = NoHolder
  /\ UNCHANGED <<mem, epoch>>
  /\ UNCHANGED fileVars

(* srv.Shutdown lets running handlers finish, so no recordEvent is         *)
(* outstanding; it knows nothing of the goroutines of save.                *)
Stop == (\A s \in Savers : pc[s] # "event") /\ Exit("stopped")

Kill == Exit("killed")

(* Mutation test: a restart that prefers a leftover .tmp file. *)
RestartFromTmp ==
  /\ phase # "up" /\ disk # Partial
  /\ mem' = Loaded(IF tmp \in {NoFile, Partial} THEN disk ELSE tmp)
  /\ phase' = "up"
  /\ epoch' = 0
  /\ ioError' = FALSE
  /\ UNCHANGED <<pc, snap, saveMu, tmp, disk, faults>>

(* Load ends the process on a file it cannot parse. *)
Restart ==
  /\ phase # "up" /\ disk # Partial
  /\ mem' = Loaded(disk)
  /\ phase' = "up"
  /\ epoch' = 0
  /\ ioError' = FALSE
  /\ UNCHANGED <<pc, snap, saveMu, tmp, disk, faults>>

---------------------------------------------------------------------------
SaverStep(s) ==
  \/ Notify(s) \/ NotifyEvent(s)
  \/ AcquireSaveMu(s) \/ TakeSnapshot(s)
  \/ OpenTmp(s) \/ WriteTmp(s) \/ RenameTmp(s)

Mutation ==
  \/ \E k \in Keys : Create(k) \/ Update(k) \/ Delete(k)
  \/ \E n \in Namespaces : PurgeNamespace(n)

Next ==
  \/ Mutation
  \/ \E s \in Savers : SaverStep(s) \/ SaveFails(s)
  \/ Stop \/ Kill \/ Restart

Spec == Init /\ [][Next]_vars

(* The scheduler runs every runnable goroutine and a sync.Mutex does not   *)
(* starve a waiter.  Nothing makes a client, a fault, an exit or a restart *)
(* happen.                                                                 *)
Fairness == \A s \in Savers : WF_vars(SaverStep(s)) /\ SF_vars(AcquireSaveMu(s))

FairSpec == Spec /\ Fairness

---------------------------------------------------------------------------
(* Every variable stays in its domain. *)
TypeOK ==
  /\ mem \in MemoryState
  /\ pc \in [Savers -> SaverPc]
  /\ snap \in [Savers -> MemoryState]
  /\ saveMu \in Savers \cup {NoHolder}
  /\ epoch \in Nat
  /\ tmp \in MemoryState \cup {NoFile, Partial}
  /\ disk \in MemoryState \cup {NoFile, Partial}
  /\ phase \in {"up", "stopped", "killed"}
  /\ ioError \in BOOLEAN
  /\ faults \in Nat

(* Stamps identify objects: no two stored objects share a resourceVersion  *)
(* (watchers and clients compare nothing else), and none is above the      *)
(* counter, in memory and in the file a restart loads.                     *)
StampsOK(m) ==
  /\ \A k \in Keys : Present(m, k) =>
       m.obj[k] <= m.rv /\ (m.obj[k] = 0 => k = Default)
  /\ \A j, k \in Keys : j # k /\ Present(m, j) => m.obj[j] # m.obj[k]

StampsIdentify ==
  /\ StampsOK(mem)
  /\ disk \notin {NoFile, Partial} => StampsOK(disk)

(* store.json is always whole: Load, which ends the process on a file it   *)
(* cannot parse, never meets a torn one, whenever the process died.        *)
DiskIntact == disk # Partial

(* The comment of save: "a stale snapshot can never overwrite a newer      *)
(* one".  The file only ever moves to a later state, restarts included.    *)
NoStaleOverwrite == [][Ver(disk') >= Ver(disk)]_vars

(* No mutation is forgotten while the process runs: as long as the file    *)
(* lags behind memory, some goroutine has yet to snapshot or is writing    *)
(* exactly this memory state, or a file error has been logged since the    *)
(* last good save.                                                         *)
LagIsCovered ==
  phase = "up" /\ Persistent =>
    \/ ioError
    \/ disk # Partial /\ Ver(disk) = mem.ver
    \/ \E s \in Savers :
         \/ pc[s] \in {"notify", "lock", "snapshot"}
         \/ pc[s] \in WritingPc /\ snap[s].ver = mem.ver

(* A restart reads what memory held, whenever the two reflect the same     *)
(* mutations: the file is never a mixture of two states.  (A deleted       *)
(* "default" Namespace comes back on load without being saved.)            *)
FileMatchesMemory ==
  disk # Partial /\ Ver(disk) = mem.ver => mem \in {disk, Loaded(disk)}

(* A running process writes every mutation, unless file errors stop it.    *)
EventuallyDurable ==
  \A v \in 1..MaxVer :
    (Persistent /\ phase = "up" /\ mem.ver >= v)
      ~> (phase # "up" \/ ioError \/ (disk # Partial /\ Ver(disk) >= v))

(* docs/architecture.md: "The store is serialized to {dataDir}/store.json  *)
(* on every mutation".  If so, an orderly stop without file errors leaves  *)
(* every mutation that returned in the file.                               *)
OrderlyStopKeepsMutations ==
  phase = "stopped" /\ Persistent /\ ~ioError => Ver(disk) = mem.ver

---------------------------------------------------------------------------
(* The inductive invariant behind the theorems of StoreProofs.             *)

(* saveMu is held exactly from its acquisition to the end of the save. *)
MutexOK == \A s \in Savers : pc[s] \in {"snapshot"} \cup WritingPc <=> saveMu = s

(* What is being written lies between the file and memory. *)
SnapOK ==
  \A s \in Savers : pc[s] \in WritingPc =>
    /\ Ver(disk) <= snap[s].ver
    /\ snap[s].ver <= mem.ver
    /\ snap[s].ver = mem.ver => snap[s] = mem
    /\ pc[s] = "rename" => tmp = snap[s]

(* What memory holds beyond a snapshot being written is left to a goroutine *)
(* that still waits for saveMu, so a good save clears an earlier error.    *)
CoverOK ==
  Persistent =>
    \A s \in Savers : pc[s] \in WritingPc =>
      snap[s].ver = mem.ver \/ \E t \in Savers : pc[t] \in {"notify", "lock"}

ExitedOK == phase # "up" => \A s \in Savers : pc[s] = "idle"

IInv ==
  /\ TypeOK
  /\ DiskIntact
  /\ Ver(disk) <= mem.ver
  /\ MutexOK
  /\ SnapOK
  /\ CoverOK
  /\ ExitedOK
  /\ FileMatchesMemory
  /\ LagIsCovered

(* The same for the stamps: every copy of a memory state has them right. *)
StampInv ==
  /\ StampsIdentify
  /\ \A s \in Savers : StampsOK(snap[s])
  /\ tmp \notin {NoFile, Partial} => StampsOK(tmp)
=============================================================================
