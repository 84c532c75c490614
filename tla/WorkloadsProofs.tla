--------------------------- MODULE WorkloadsProofs ---------------------------
EXTENDS Workloads, ListLemmas

(***************************************************************************)
(* Proofs about Workloads, for any clients, Deployments, pods, templates,  *)
(* replica counts and failing units:                                       *)
(*                                                                         *)
(*  - TypeInv, and so TypeOK, under every client and with crashes;         *)
(*  - DesiredAreDeployed for one client at a time, with crashes: DeployInv *)
(*    adds who holds the work that a missing file waits for;               *)
(*  - NothingUnaccounted and StoreFileUnitAgree for one client at a time   *)
(*    from the end of startup until q8s dies: AccountInv adds, for every   *)
(*    pod, which task of the list still owes its file, unit or template.   *)
(*                                                                         *)
(* Requests of two clients on one Deployment do break the last three: they *)
(* work from listings of each other's past.  So do, for the last two, a    *)
(* death amid a request and a request amid startup.                        *)
(***************************************************************************)

USE NamesAssumption

---------------------------------------------------------------------------
(* Stages                                                                  *)

AllDos == Deploys \cup Goes \cup Mains

LEMMA Heads ==
  ASSUME NEW do \in AllDos
  PROVE  /\ Head(do) = "write" => do \in Writes
         /\ Head(do) = "sync" => do \in {<<"sync", "start">>, <<"sync", "restart">>, <<"sync">>, <<"sync", "regen">>}
         /\ Head(do) = "create" => do \in {<<"create", "start">>, <<"create", "restart">>, <<"create">>, <<"create", "regen">>}
         /\ Head(do) = "start" => do = <<"start">>
         /\ Head(do) = "restart" => do = <<"restart">>
         /\ Head(do) = "stop" => do \in Stops
         /\ Head(do) = "unlink" => do \in {<<"unlink", "drop">>, <<"unlink">>}
         /\ Head(do) = "drop" => do = <<"drop">>
         /\ Head(do) = "regen" => do = <<"regen">>
         /\ Head(do) = "rewrite" => do = <<"rewrite">>
         /\ Head(do) = "ns" => do = <<"ns", "dep", "pod">>
         /\ Head(do) = "dep" => do = <<"dep", "pod">>
         /\ Head(do) = "pod" => do = <<"pod">>
         /\ Head(do) = "known" => do = <<"known", "prune">>
         /\ Head(do) = "prune" => do = <<"prune">>
         /\ Head(do) \notin {"update", "dropDep", "purgeDeps", "remove", "purge", "dropNs",
                             "bootDeps", "restore", "bootPods", "allPods"}
  BY DEF AllDos, Deploys, Goes, Writes, Written, Synced, Created, Starts, Restarts, Syncs, Replaces, Stops, Unlinks, Drops, Mains, Heals, Imports, Prunes

LEMMA Tails ==
  ASSUME NEW do \in AllDos
  PROVE  /\ do \in Deploys \cup Goes => Tail(do) \in Deploys \cup Goes \cup {<<>>}
         /\ do \in Mains => Tail(do) \in Mains \cup {<<>>}
  <1>1. /\ Tail(<<"write", "sync", "start">>) = <<"sync", "start">>
        /\ Tail(<<"write", "sync", "restart">>) = <<"sync", "restart">>
        /\ Tail(<<"stop", "unlink", "drop">>) = <<"unlink", "drop">>
        /\ Tail(<<"ns", "dep", "pod">>) = <<"dep", "pod">>
        /\ Tail(<<"write", "start">>) = <<"start">>
        /\ Tail(<<"write", "restart">>) = <<"restart">>
        /\ Tail(<<"sync", "start">>) = <<"start">>
        /\ Tail(<<"create", "start">>) = <<"start">>
        /\ Tail(<<"sync", "restart">>) = <<"restart">>
        /\ Tail(<<"create", "restart">>) = <<"restart">>
        /\ Tail(<<"stop", "unlink">>) = <<"unlink">>
        /\ Tail(<<"unlink", "drop">>) = <<"drop">>
        /\ Tail(<<"sync", "regen">>) = <<"regen">>
        /\ Tail(<<"create", "regen">>) = <<"regen">>
        /\ Tail(<<"dep", "pod">>) = <<"pod">>
        /\ Tail(<<"known", "prune">>) = <<"prune">>
        /\ \A x : Tail(<<x>>) = <<>>
    BY ShortTails
  <1>2. do \in Syncs => Tail(do) \in Synced
    BY <1>1, ZenonT(30) DEF Syncs, Synced
  <1>3. do \in Replaces => Tail(do) \in Starts \cup Restarts
    BY <1>1, ZenonT(30) DEF Replaces, Starts, Restarts
  <1>4. do \in Starts => Tail(do) \in Starts \cup {<<>>}
    BY <1>1, ZenonT(30) DEF Starts
  <1>5. do \in Restarts => Tail(do) \in Restarts \cup {<<>>}
    BY <1>1, ZenonT(30) DEF Restarts
  <1>6. do \in Synced => Tail(do) \in Starts \cup Restarts \cup {<<>>}
    BY <1>1, ZenonT(30) DEF Synced, Starts, Restarts
  <1>7. do \in Created => Tail(do) \in Starts \cup Restarts \cup {<<>>}
    BY <1>1, ZenonT(30) DEF Created, Starts, Restarts
  <1>8. do \in Stops => Tail(do) \in Unlinks \cup {<<>>}
    BY <1>1, ZenonT(30) DEF Stops, Unlinks
  <1>9. do \in Unlinks => Tail(do) \in Unlinks \cup Drops \cup {<<>>}
    BY <1>1, ZenonT(30) DEF Drops, Unlinks
  <1>10. do \in Drops => Tail(do) \in Drops \cup {<<>>}
    BY <1>1, ZenonT(30) DEF Drops
  <1>11. do \in Heals => Tail(do) \in Heals \cup {<<>>}
    BY <1>1, ZenonT(30) DEF Heals
  <1>12. do \in Imports => Tail(do) \in Imports \cup {<<>>}
    BY <1>1, ZenonT(30) DEF Imports
  <1>13. do \in Prunes => Tail(do) \in Prunes \cup {<<>>}
    BY <1>1, ZenonT(30) DEF Prunes
  <1>14. do = <<"start">> => Tail(do) = <<>>
    BY <1>1
  <1>. QED
    BY <1>2, <1>3, <1>4, <1>5, <1>6, <1>7, <1>8, <1>9, <1>10, <1>11, <1>12, <1>13, <1>14, Zenon DEF Deploys, Goes, Writes, Written, Mains

(* Nothing but a restart of an unchanged pod is left out. *)
LEMMA AfterWrites ==
  ASSUME NEW ch \in BOOLEAN
  PROVE  /\ AfterWrite(<<"write", "sync", "restart">>, ch) = IF ch THEN <<"sync", "restart">> ELSE <<"sync">>
         /\ AfterWrite(<<"write", "restart">>, ch) = IF ch THEN <<"restart">> ELSE <<>>
         /\ AfterWrite(<<"write", "sync", "start">>, ch) = <<"sync", "start">>
         /\ AfterWrite(<<"write", "start">>, ch) = <<"start">>
  <1>1. \A x, y, z : Last(<<x, y, z>>) = z /\ Last(<<x, y>>) = y
    BY DEF Last
  <1>2. ASSUME NEW x, NEW y PROVE Front(<<x, y>>) = <<x>>
    <2>1. Len(<<x, y>>) - 1 = 1
      OBVIOUS
    <2>2. Front(<<x, y>>) = SubSeq(<<x, y>>, 1, 1)
      BY <2>1 DEF Front
    <2>. QED
      BY <2>2
  <1>3. \A x : Front(<<x>>) = <<>>
    BY DEF Front
  <1>. QED
    BY <1>1, <1>2, <1>3, ShortTails DEF AfterWrite

---------------------------------------------------------------------------
(* Lists of tasks                                                          *)

LEMMA ContinueIs ==
  ASSUME NEW a, NEW do, NEW more
  PROVE  Continue(a, do, more) <=> todo' = [todo EXCEPT ![a] = Rest(todo[a], do, more)]
  BY DEF Continue, Rest

---------------------------------------------------------------------------
(* Types                                                                   *)

DosOf(a) == IF a = Main THEN Mains ELSE Deploys \cup Goes
PodStages == {"write", "sync", "create", "start", "restart", "stop", "unlink", "drop",
              "regen", "rewrite", "ns", "dep", "pod", "known", "prune"}

TodoType ==
  /\ todo \in [Actors -> Seq(ClientTasks \cup MainTasks)]
  /\ \A a \in Actors : todo[a] \in Seq(TasksOf(a))

LEMMA TodoTypeOf == TypeInv => TodoType
  BY DEF TypeInv, TodoType

LEMMA TasksOfActors ==
  ASSUME NEW a \in Actors
  PROVE  TasksOf(a) \subseteq ClientTasks \cup MainTasks
  BY DEF TasksOf

LEMMA NewList ==
  ASSUME TodoType, NEW a \in Actors, NEW r \in Seq(TasksOf(a)),
         todo' = [todo EXCEPT ![a] = r]
  PROVE  TodoType' /\ todo'[a] = r /\ \A b \in Actors \ {a} : todo'[b] = todo[b]
  <1>1. r \in Seq(ClientTasks \cup MainTasks)
    BY TasksOfActors, SeqWiden
  <1>2. todo' \in [Actors -> Seq(ClientTasks \cup MainTasks)]
    BY <1>1 DEF TodoType
  <1>3. todo'[a] = r /\ \A b \in Actors \ {a} : todo'[b] = todo[b]
    BY DEF TodoType
  <1>4. \A b \in Actors : todo'[b] \in Seq(TasksOf(b))
    BY <1>3 DEF TodoType
  <1>. QED
    BY <1>2, <1>3, <1>4 DEF TodoType

LEMMA FirstTask ==
  ASSUME TodoType, NEW a \in Actors, NEW s, Doing(a, s)
  PROVE  /\ todo[a] \in Seq(TasksOf(a)) /\ todo[a] # <<>> /\ Len(todo[a]) \in Nat \ {0}
         /\ Task(a) = todo[a][1] /\ Task(a) \in TasksOf(a) /\ Head(Task(a).do) = s /\ up
         /\ DOMAIN todo[a] = 1..Len(todo[a])
  BY EmptySeq DEF TodoType, Doing, Task

LEMMA PlainHeads ==
  /\ Head(<<"update">>) = "update" /\ Head(<<"dropDep">>) = "dropDep"
  /\ Head(<<"remove">>) = "remove" /\ Head(<<"restore">>) = "restore"
  /\ \A do \in Purges : Head(do) \in {"purgeDeps", "purge"}
  /\ Head(<<"dropNs">>) = "dropNs" /\ Head(<<"bootDeps">>) = "bootDeps"
  /\ Head(<<"bootPods">>) = "bootPods" /\ Head(<<"allPods">>) = "allPods"
  BY DEF Purges, PurgeAll

LEMMA PodStage ==
  ASSUME TodoType, NEW a \in Actors, NEW s \in PodStages, Doing(a, s)
  PROVE  /\ Task(a) \in PodTasks(DosOf(a)) /\ Task(a).do \in AllDos
         /\ Task(a).pod \in Pods /\ Task(a).t \in Specs
         /\ \A do \in DosOf(a) :
              /\ [Task(a) EXCEPT !.do = do] \in PodTasks(DosOf(a))
              /\ [Task(a) EXCEPT !.do = do] \in TasksOf(a)
  <1>1. Task(a) \in TasksOf(a) /\ Head(Task(a).do) = s
    BY FirstTask
  <1>2. CASE a = Main
    <2>1. Task(a) \in PodTasks(Mains)
      BY <1>1, <1>2, PlainHeads DEF TasksOf, MainTasks, PodStages, DepTasks
    <2>2. \A do \in Mains : [Task(a) EXCEPT !.do = do] \in PodTasks(Mains)
      BY <2>1 DEF PodTasks
    <2>. QED
      BY <1>2, <2>1, <2>2 DEF DosOf, AllDos, PodTasks, TasksOf, MainTasks
  <1>3. CASE a # Main
    <2>1. Task(a) \in PodTasks(Deploys \cup Goes)
      BY <1>1, <1>3, PlainHeads DEF TasksOf, ClientTasks, PodStages, DepTasks, Updates
    <2>2. \A do \in Deploys \cup Goes : [Task(a) EXCEPT !.do = do] \in PodTasks(Deploys \cup Goes)
      BY <2>1 DEF PodTasks
    <2>. QED
      BY <1>3, <2>1, <2>2 DEF DosOf, AllDos, PodTasks, TasksOf, ClientTasks
  <1>. QED
    BY <1>2, <1>3

(* The list of an actor whose first task goes on, or ends. *)
LEMMA ContinueType ==
  ASSUME TodoType, NEW a \in Actors, NEW s \in PodStages, Doing(a, s),
         NEW do \in DosOf(a) \cup {<<>>}, Continue(a, do, <<>>)
  PROVE  TodoType'
  <1>1. todo' = [todo EXCEPT ![a] = Rest(todo[a], do, <<>>)]
    BY ContinueIs, Zenon
  <1>2. todo[a] \in Seq(TasksOf(a)) /\ todo[a] # <<>> /\ Task(a) = Head(todo[a])
    BY FirstTask DEF Task
  <1>3. CASE do = <<>>
    <2>1. Rest(todo[a], <<>>, <<>>) \in Seq(TasksOf(a))
      BY <1>2, RestTail, Zenon
    <2>. QED
      BY <1>1, <1>3, <2>1, NewList, Zenon
  <1>4. CASE do # <<>>
    <2>1. [Head(todo[a]) EXCEPT !.do = do] \in TasksOf(a)
      BY <1>2, <1>4, PodStage
    <2>2. Rest(todo[a], do, <<>>) \in Seq(TasksOf(a))
      BY <1>2, <1>4, <2>1, RestOn, Zenon
    <2>. QED
      BY <1>1, <2>2, NewList, Zenon
  <1>. QED
    BY <1>3, <1>4

LEMMA AdvanceType ==
  ASSUME TodoType, NEW a \in Actors, NEW s \in PodStages, Doing(a, s), Advance(a)
  PROVE  TodoType'
  <1>1. Task(a).do \in AllDos /\ Task(a).do \in DosOf(a)
    BY PodStage DEF PodTasks
  <1>2. Tail(Task(a).do) \in DosOf(a) \cup {<<>>}
    BY <1>1, Tails DEF DosOf
  <1>3. Continue(a, Tail(Task(a).do), <<>>)
    BY DEF Advance
  <1>. QED
    BY <1>2, <1>3, ContinueType, Zenon

LEMMA SkipType ==
  ASSUME TodoType, NEW a \in Actors, NEW s \in PodStages, Doing(a, s), Skip(a)
  PROVE  TodoType'
  <1>1. Continue(a, <<>>, <<>>)
    BY DEF Skip
  <1>. QED
    BY <1>1, ContinueType, Zenon

LEMMA SecondStage ==
  /\ \A x : <<x>> \o <<>> = <<x>>
  /\ \A x, y : <<x>> \o <<y>> = <<x, y>>
  <1>1. ASSUME NEW x PROVE <<x>> \o <<>> = <<x>>
    <2>1. <<x>> \in Seq({x})
      OBVIOUS
    <2>. QED
      BY <2>1, ConcatEmptySeq, Zenon
  <1>2. ASSUME NEW x, NEW y PROVE <<x>> \o <<y>> = <<x, y>>
    <2>1. PICK s, u, v, R : s = <<x>> /\ u = <<y>> /\ v = <<x, y>> /\ R = {x, y}
      OBVIOUS
    <2>2. s \in Seq(R) /\ u \in Seq(R) /\ v \in Seq(R) /\ Len(s) = 1 /\ Len(u) = 1 /\ Len(v) = 2
          /\ s[1] = x /\ u[1] = y /\ v[1] = x /\ v[2] = y
      BY <2>1
    <2>6. s \o u \in Seq(R) /\ Len(s \o u) = Len(s) + Len(u)
          /\ \A i \in 1..(Len(s) + Len(u)) : (s \o u)[i] = IF i <= Len(s) THEN s[i] ELSE u[i - Len(s)]
      <3>1. s \in Seq(R) /\ u \in Seq(R)
        BY <2>2
      <3>. QED
        BY <3>1, ConcatProperties
    <2>3. s \o u \in Seq(R) /\ Len(s \o u) = 2
          /\ \A i \in 1..2 : (s \o u)[i] = IF i <= 1 THEN s[i] ELSE u[i - 1]
      BY <2>2, <2>6
    <2>4. \A i \in 1..2 : (s \o u)[i] = v[i]
      BY <2>2, <2>3
    <2>5. s \o u = v
      BY <2>2, <2>3, <2>4, SeqEqual
    <2>. QED
      BY <2>1, <2>5, Zenon
  <1>. QED
    BY <1>1, <1>2, Zenon

(* A pod that was not stored when it was synced is created. *)
LEMMA CreateDos ==
  ASSUME NEW a, NEW do \in DosOf(a),
         do \in {<<"sync", "start">>, <<"sync", "restart">>, <<"sync">>, <<"sync", "regen">>}
  PROVE  <<"create">> \o Tail(do) \in DosOf(a)
  <1>1. /\ <<"create">> \o <<"start">> = <<"create", "start">>
        /\ <<"create">> \o <<"restart">> = <<"create", "restart">>
        /\ <<"create">> \o <<>> = <<"create">>
        /\ <<"create">> \o <<"regen">> = <<"create", "regen">>
    BY SecondStage, Zenon
  <1>2. \A x \in {<<"sync", "start">>, <<"sync", "restart">>, <<"sync">>} : x \notin Mains
    BY DEF Mains, Heals, Imports, Prunes
  <1>3. <<"sync", "regen">> \notin Deploys \cup Goes
    BY DEF Deploys, Writes, Written, Synced, Created, Starts, Restarts, Syncs, Replaces,
           Goes, Stops, Unlinks, Drops
  <1>4. <<"create", "start">> \in Deploys /\ <<"create", "restart">> \in Deploys
        /\ <<"create">> \in Deploys
    BY DEF Deploys, Written, Created
  <1>5. <<"create", "regen">> \in Mains
    BY DEF Mains, Heals
  <1>6. /\ Tail(<<"sync", "start">>) = <<"start">> /\ Tail(<<"sync", "restart">>) = <<"restart">>
        /\ Tail(<<"sync">>) = <<>> /\ Tail(<<"sync", "regen">>) = <<"regen">>
    BY ShortTails, Zenon
  <1>7. CASE do = <<"sync", "start">>
    BY <1>1, <1>2, <1>4, <1>6, <1>7, Zenon DEF DosOf
  <1>8. CASE do = <<"sync", "restart">>
    BY <1>1, <1>2, <1>4, <1>6, <1>8, Zenon DEF DosOf
  <1>9. CASE do = <<"sync">>
    BY <1>1, <1>2, <1>4, <1>6, <1>9, Zenon DEF DosOf
  <1>10. CASE do = <<"sync", "regen">>
    BY <1>1, <1>3, <1>5, <1>6, <1>10, Zenon DEF DosOf
  <1>. QED
    BY <1>7, <1>8, <1>9, <1>10, Zenon

LEMMA NotAClients ==
  /\ \A do \in Heals \cup Imports \cup Prunes : do \notin Deploys \cup Goes
  /\ \A do \in Mains : do \notin Goes /\ do \notin Writes
  /\ \A do \in Goes : do \notin Deploys
  BY DEF Mains, Heals, Imports, Prunes, Deploys, Writes, Written, Synced, Created, Starts, Restarts,
         Syncs, Replaces, Goes, Stops, Unlinks, Drops

StateType ==
  /\ ns \in BOOLEAN /\ up \in BOOLEAN
  /\ deps \in [Deps -> [n : 0..MaxReplicas, t : Specs] \cup {Absent}]
  /\ pods \in [Pods -> [t : Specs, owned : BOOLEAN] \cup {Absent}]
  /\ file \in [Pods -> Specs \cup {Absent}]
  /\ unit \in [Pods -> Specs \cup {Absent}]
  /\ failed \subseteq Pods /\ missing \subseteq Pods /\ revived \subseteq Pods

LEMMA TypeParts == TypeInv <=> StateType /\ TodoType
  BY DEF TypeInv, StateType, TodoType

LEMMA TypePartsNext == TypeInv' <=> StateType' /\ TodoType'
  BY DEF TypeInv, StateType, TodoType

(* Of a pod, its Deployment and its replicas. *)
LEMMA Replicas ==
  /\ \A d \in Deps, i \in 0..(MaxReplicas - 1) : Inst[d][i] \in Instances /\ Inst[d][i] \in Pods
  /\ \A d, e \in Deps, i, j \in 0..(MaxReplicas - 1) : Inst[d][i] = Inst[e][j] => d = e /\ i = j
  /\ Instances \subseteq Pods /\ Standalone \subseteq Pods
  /\ \A p \in Pods : p \in Standalone \/ p \in Instances
  <1>1. \A d \in Deps, i \in 0..(MaxReplicas - 1) : Inst[d][i] \in Instances
    OBVIOUS
  <1>2. \A d, e \in Deps, i, j \in 0..(MaxReplicas - 1) : Inst[d][i] = Inst[e][j] => d = e /\ i = j
    OBVIOUS
  <1>. QED
    BY <1>1, <1>2, Zenon DEF Pods

LEMMA PodStepTypes ==
  ASSUME TypeInv, NEW a \in Actors
  PROVE  /\ Sync(a) => TypeInv'
         /\ CreateInstance(a) => TypeInv'
         /\ Run(a) => TypeInv'
         /\ StopUnit(a) => TypeInv'
         /\ Unlink(a) => TypeInv'
         /\ DropPod(a) => TypeInv'
         /\ Regenerate(a) => TypeInv'
         /\ ImportIntoNamespace(a) => TypeInv'
         /\ ImportPod(a) => TypeInv'
         /\ ImportDeployment(a) => TypeInv'
         /\ CheckUnit(a) => TypeInv'
         /\ PrunePod(a) => TypeInv'
         /\ WriteFails(a) => TypeInv'
         /\ RunFails(a) => TypeInv'
         /\ TeardownFails(a) => TypeInv'
  <1> USE TypeParts, TypePartsNext
  <1>1. ASSUME Sync(a) PROVE TypeInv'
    <2>1. Doing(a, "sync") /\ "sync" \in PodStages
      BY <1>1 DEF Sync, PodStages
    <2>2. Task(a).pod \in Pods /\ Task(a).t \in Specs /\ Task(a).do \in AllDos
          /\ Task(a).do \in DosOf(a)
      BY <2>1, PodStage DEF PodTasks
    <2>3. StateType'
      <3>1. PICK v \in [t : Specs, owned : BOOLEAN] : v = [t |-> Task(a).t, owned |-> TRUE]
        BY <2>2
      <3>3. pods' = pods \/ pods' = [pods EXCEPT ![Task(a).pod] = v]
        BY <1>1, <3>1, Zenon DEF Sync
      <3>2. pods' \in [Pods -> [t : Specs, owned : BOOLEAN] \cup {Absent}]
        BY <2>2, <3>3 DEF StateType
      <3>. QED
        BY <1>1, <2>2, <3>2 DEF Sync, StateType, host, history
    <2>4. CASE Stored(Task(a).pod)
      BY <1>1, <2>1, <2>3, <2>4, AdvanceType DEF Sync
    <2>5. CASE ~Stored(Task(a).pod)
      <3>1. Task(a).do \in {<<"sync", "start">>, <<"sync", "restart">>, <<"sync">>, <<"sync", "regen">>}
        BY <2>1, <2>2, FirstTask, Heads
      <3>2. <<"create">> \o Tail(Task(a).do) \in DosOf(a)
        BY <2>2, <3>1, CreateDos, Zenon
      <3>3. Continue(a, <<"create">> \o Tail(Task(a).do), <<>>)
        BY <1>1, <2>5 DEF Sync
      <3>4. TodoType'
        BY <2>1, <3>2, <3>3, ContinueType, Zenon
      <3>. QED
        BY <2>3, <3>4
    <2>. QED
      BY <2>4, <2>5
  <1>2. ASSUME CreateInstance(a) PROVE TypeInv'
    <2>1. Doing(a, "create") /\ "create" \in PodStages /\ Advance(a)
      BY <1>2 DEF CreateInstance, PodStages
    <2>2. Task(a).pod \in Pods /\ Task(a).t \in Specs
      BY <2>1, PodStage
    <2>3. StateType'
      <3>1. PICK v \in [t : Specs, owned : BOOLEAN] : v = [t |-> Task(a).t, owned |-> TRUE]
        BY <2>2
      <3>3. pods' = pods \/ pods' = [pods EXCEPT ![Task(a).pod] = v]
        BY <1>2, <3>1, Zenon DEF CreateInstance
      <3>2. pods' \in [Pods -> [t : Specs, owned : BOOLEAN] \cup {Absent}]
        BY <2>2, <3>3 DEF StateType
      <3>. QED
        BY <1>2, <2>2, <3>2 DEF CreateInstance, StateType, host, history
    <2>. QED
      BY <2>1, <2>3, AdvanceType
  <1>3. ASSUME Run(a) PROVE TypeInv'
    <2>1. PICK s \in {"start", "restart"} : Doing(a, s)
      BY <1>3 DEF Run
    <2>2. Task(a).pod \in Pods /\ s \in PodStages
      BY <2>1, PodStage DEF PodStages
    <2>3. StateType'
      BY <1>3, <2>2 DEF Run, StateType, store, history
    <2>. QED
      BY <1>3, <2>1, <2>2, <2>3, AdvanceType DEF Run
  <1>4. ASSUME StopUnit(a) PROVE TypeInv'
    <2>1. Doing(a, "stop") /\ "stop" \in PodStages /\ Advance(a)
      BY <1>4 DEF StopUnit, PodStages
    <2>2. StateType'
      BY <1>4, <2>1, PodStage DEF StopUnit, StateType, store, history
    <2>. QED
      BY <2>1, <2>2, AdvanceType
  <1>5. ASSUME Unlink(a) PROVE TypeInv'
    <2>1. Doing(a, "unlink") /\ "unlink" \in PodStages /\ Advance(a)
      BY <1>5 DEF Unlink, PodStages
    <2>2. StateType'
      BY <1>5, <2>1, PodStage DEF Unlink, StateType, store, history
    <2>. QED
      BY <2>1, <2>2, AdvanceType
  <1>6. ASSUME DropPod(a) PROVE TypeInv'
    <2>1. Doing(a, "drop") /\ "drop" \in PodStages /\ Advance(a)
      BY <1>6 DEF DropPod, PodStages
    <2>2. StateType'
      BY <1>6, <2>1, PodStage DEF DropPod, StateType, host
    <2>. QED
      BY <2>1, <2>2, AdvanceType
  <1>7. ASSUME Regenerate(a) PROVE TypeInv'
    <2>1. Doing(a, "regen") /\ "regen" \in PodStages
      BY <1>7 DEF Regenerate, PodStages
    <2>2. StateType'
      BY <1>7 DEF Regenerate, StateType, store, host, history
    <2>3. CASE file[Task(a).pod] # Absent
      BY <1>7, <2>1, <2>2, <2>3, AdvanceType DEF Regenerate
    <2>4. CASE file[Task(a).pod] = Absent
      <3>1. Task(a).do = <<"regen">> /\ Task(a).do \in DosOf(a)
        BY <2>1, PodStage, FirstTask, Heads DEF PodTasks
      <3>2. <<"rewrite">> \in DosOf(a)
        BY <3>1, NotAClients DEF DosOf, Mains, Heals
      <3>3. Continue(a, <<"rewrite">>, <<>>)
        BY <1>7, <2>4 DEF Regenerate
      <3>4. TodoType'
        BY <2>1, <3>2, <3>3, ContinueType, Zenon
      <3>. QED
        BY <2>2, <3>4
    <2>. QED
      BY <2>3, <2>4
  <1>8. ASSUME ImportIntoNamespace(a) PROVE TypeInv'
    <2>1. Doing(a, "ns") /\ "ns" \in PodStages
      BY <1>8 DEF ImportIntoNamespace, PodStages
    <2>2. StateType'
      BY <1>8 DEF ImportIntoNamespace, StateType, store, host, history
    <2>. QED
      BY <1>8, <2>1, <2>2, AdvanceType, SkipType DEF ImportIntoNamespace
  <1>9. ASSUME ImportPod(a) PROVE TypeInv'
    <2>1. Doing(a, "pod") /\ "pod" \in PodStages /\ Advance(a)
      BY <1>9 DEF ImportPod, PodStages
    <2>2. Task(a).pod \in Pods /\ Stub \in Specs
      BY <2>1, PodStage DEF Specs
    <2>3. pods' \in [Pods -> [t : Specs, owned : BOOLEAN] \cup {Absent}]
      <3>1. [t |-> Stub, owned |-> Task(a).pod \in Instances] \in [t : Specs, owned : BOOLEAN]
        BY <2>2
      <3>. QED
        BY <1>9, <3>1 DEF ImportPod, StateType
    <2>4. StateType'
      BY <1>9, <2>2, <2>3 DEF ImportPod, StateType, host
    <2>. QED
      BY <2>1, <2>4, AdvanceType
  <1>10. ASSUME ImportDeployment(a) PROVE TypeInv'
    <2>1. Doing(a, "dep") /\ "dep" \in PodStages /\ Advance(a)
      BY <1>10 DEF ImportDeployment, PodStages
    <2>2. Stub \in Specs
      BY DEF Specs
    <2>3. \A d \in DepOf(Task(a).pod) : 1 \in 0..MaxReplicas
      BY DEF DepOf
    <2>4. deps' \in [Deps -> [n : 0..MaxReplicas, t : Specs] \cup {Absent}]
      BY <1>10, <2>2, <2>3 DEF ImportDeployment, StateType
    <2>5. missing' \subseteq Pods
      BY <1>10, Replicas DEF ImportDeployment, StateType, DepOf
    <2>6. StateType'
      BY <1>10, <2>4, <2>5 DEF ImportDeployment, StateType, host
    <2>. QED
      BY <2>1, <2>6, AdvanceType
  <1>11. ASSUME CheckUnit(a) PROVE TypeInv'
    <2>1. Doing(a, "known") /\ "known" \in PodStages
      BY <1>11 DEF CheckUnit, PodStages
    <2>2. StateType'
      BY <1>11 DEF CheckUnit, StateType, store, host, history
    <2>. QED
      BY <1>11, <2>1, <2>2, AdvanceType, SkipType DEF CheckUnit
  <1>12. ASSUME PrunePod(a) PROVE TypeInv'
    <2>1. Doing(a, "prune") /\ "prune" \in PodStages /\ Advance(a)
      BY <1>12 DEF PrunePod, PodStages
    <2>2. StateType'
      BY <1>12, <2>1, PodStage DEF PrunePod, StateType, host
    <2>. QED
      BY <2>1, <2>2, AdvanceType
  <1>13. ASSUME WriteFails(a) PROVE TypeInv'
    <2>1. PICK s \in {"write", "rewrite"} : Doing(a, s)
      BY <1>13 DEF WriteFails
    <2>2. Task(a).pod \in Pods /\ s \in PodStages
      BY <2>1, PodStage DEF PodStages
    <2>3. StateType'
      BY <1>13, <2>2 DEF WriteFails, StateType, store, host
    <2>. QED
      BY <1>13, <2>1, <2>2, <2>3, SkipType DEF WriteFails
  <1>14. ASSUME RunFails(a) PROVE TypeInv'
    <2>1. PICK s \in {"start", "restart"} : Doing(a, s)
      BY <1>14 DEF RunFails
    <2>2. Task(a).pod \in Pods /\ s \in PodStages
      BY <2>1, PodStage DEF PodStages
    <2>3. StateType'
      BY <1>14, <2>2 DEF RunFails, StateType, store
    <2>. QED
      BY <1>14, <2>1, <2>2, <2>3, AdvanceType DEF RunFails
  <1>15. ASSUME TeardownFails(a) PROVE TypeInv'
    <2>1. PICK s \in {"stop", "unlink"} : Doing(a, s)
      BY <1>15 DEF TeardownFails
    <2>2. Task(a).pod \in Pods /\ s \in PodStages
      BY <2>1, PodStage DEF PodStages
    <2>3. StateType'
      BY <1>15, <2>2 DEF TeardownFails, StateType, store, host
    <2>. QED
      BY <1>15, <2>1, <2>2, <2>3, AdvanceType DEF TeardownFails
  <1>. QED
    BY <1>1, <1>2, <1>3, <1>4, <1>5, <1>6, <1>7, <1>8, <1>9, <1>10, <1>11, <1>12, <1>13,
       <1>14, <1>15

---------------------------------------------------------------------------
(* The lists that requests and passes begin with                           *)

LEMMA Listed ==
  ASSUME NEW S, NEW n \in Nat, NEW f \in [1..n -> S]
  PROVE  f \in Seq(S) /\ Len(f) = n /\ DOMAIN f = 1..n
  OBVIOUS

LEMMA RangeIs ==
  ASSUME NEW d \in Deps, NEW from \in 0..MaxReplicas, NEW to \in 0..MaxReplicas
  PROVE  /\ Range_(d, from, to) \in Seq(Pods)
         /\ Len(Range_(d, from, to)) = IF to > from THEN to - from ELSE 0
         /\ \A j \in 1..Len(Range_(d, from, to)) :
              from + j - 1 \in from..(to - 1) /\ Range_(d, from, to)[j] = Inst[d][from + j - 1]
         /\ \A i \in from..(to - 1) : \E j \in 1..Len(Range_(d, from, to)) :
              Range_(d, from, to)[j] = Inst[d][i]
  <1> DEFINE n == IF to > from THEN to - from ELSE 0
  <1>1. n \in Nat /\ \A j \in 1..n : from + j - 1 \in from..(to - 1) /\ from + j - 1 \in 0..(MaxReplicas - 1)
    OBVIOUS
  <1>2. \A i \in from..(to - 1) : i - from + 1 \in 1..n /\ from + (i - from + 1) - 1 = i
    OBVIOUS
  <1> HIDE DEF n
  <1>3. PICK ps : ps = [j \in 1..n |-> Inst[d][from + j - 1]]
    OBVIOUS
  <1>4. \A j \in 1..n : Inst[d][from + j - 1] \in Pods
    BY <1>1, Replicas
  <1>9. ps \in [1..n -> Pods] /\ \A j \in 1..n : ps[j] = Inst[d][from + j - 1]
    BY <1>3, <1>4
  <1>5. ps \in Seq(Pods) /\ Len(ps) = n /\ \A j \in 1..n : ps[j] = Inst[d][from + j - 1]
    BY <1>1, <1>9, Listed
  <1>6. Range_(d, from, to) = ps
    BY <1>3, Zenon DEF Range_, n
  <1>7. \A i \in from..(to - 1) : \E j \in 1..n : ps[j] = Inst[d][i]
    <2> SUFFICES ASSUME NEW i \in from..(to - 1) PROVE \E j \in 1..n : ps[j] = Inst[d][i]
      OBVIOUS
    <2>1. i - from + 1 \in 1..n /\ from + (i - from + 1) - 1 = i
      BY <1>2
    <2>2. ps[i - from + 1] = Inst[d][from + (i - from + 1) - 1]
      BY <1>5, <2>1, Zenon
    <2>. QED
      BY <2>1, <2>2, Zenon
  <1>8. /\ ps \in Seq(Pods) /\ Len(ps) = n
        /\ \A j \in 1..Len(ps) : from + j - 1 \in from..(to - 1) /\ ps[j] = Inst[d][from + j - 1]
        /\ \A i \in from..(to - 1) : \E j \in 1..Len(ps) : ps[j] = Inst[d][i]
    BY <1>1, <1>5, <1>7
  <1>. QED
    BY <1>6, <1>8, Zenon DEF n

IsEach(q, do, ps) ==
  Len(q) = Len(ps) /\ \A j \in 1..Len(ps) : q[j].do = do /\ q[j].pod = ps[j]

LEMMA EachIs ==
  ASSUME NEW do, NEW ps \in Seq(Pods)
  PROVE  /\ Each(do, ps) \in Seq(PodTasks({do}))
         /\ Len(Each(do, ps)) = Len(ps) /\ IsEach(Each(do, ps), do, ps)
  <1> DEFINE task(j) == PodTask(do, ps[j], Stub, FALSE)
  <1>1. \A j \in 1..Len(ps) : task(j) \in PodTasks({do}) /\ task(j).do = do /\ task(j).pod = ps[j]
    BY DEF PodTask, PodTasks, Specs
  <1> DEFINE q == Each(do, ps)
  <1>2. q = [j \in 1..Len(ps) |-> task(j)] /\ Len(ps) \in Nat
    BY DEF Each
  <1> HIDE DEF task, q
  <1>3. q \in Seq(PodTasks({do})) /\ Len(q) = Len(ps)
        /\ \A j \in 1..Len(ps) : q[j] = task(j)
    <2>1. PICK S : S = PodTasks({do})
      OBVIOUS
    <2>2. \A j \in 1..Len(ps) : task(j) \in S
      BY <1>1, <2>1, Zenon
    <2>3. q \in [1..Len(ps) -> S] /\ \A j \in 1..Len(ps) : q[j] = task(j)
      BY <1>2, <2>2
    <2>4. q \in Seq(S) /\ Len(q) = Len(ps)
      BY <1>2, <2>3, Listed
    <2>. QED
      BY <2>1, <2>3, <2>4, Zenon
  <1>4. IsEach(q, do, ps)
    BY <1>1, <1>3 DEF IsEach
  <1>. QED
    BY <1>3, <1>4, Zenon DEF q

LEMMA EachAre ==
  ASSUME NEW do, NEW ps \in Seq(Pods), NEW q, q = Each(do, ps)
  PROVE  q \in Seq(PodTasks({do})) /\ IsEach(q, do, ps)
  BY EachIs, Zenon

LEMMA DeployInstancesIs ==
  ASSUME NEW d \in Deps, NEW from \in 0..MaxReplicas, NEW to \in 0..MaxReplicas,
         NEW t \in Specs, NEW how \in {"start", "restart"}
  PROVE  LET q == DeployInstances(d, t, from, to, how)
             ps == Range_(d, from, to)
         IN  /\ q \in Seq(PodTasks(Syncs)) /\ Len(q) = Len(ps)
             /\ \A j \in 1..Len(ps) :
                  /\ q[j].do = <<"write", "sync", how>> /\ q[j].pod = ps[j] /\ q[j].t = t
  <1> DEFINE q == DeployInstances(d, t, from, to, how)
             ps == Range_(d, from, to)
             task(j) == PodTask(<<"write", "sync", how>>, ps[j], t, TRUE)
  <1>1. ps \in Seq(Pods) /\ Len(ps) \in Nat
    BY RangeIs
  <1>2. <<"write", "sync", how>> \in Syncs
    BY DEF Syncs
  <1>3. q = [j \in 1..Len(ps) |-> task(j)]
    BY DEF DeployInstances
  <1> HIDE DEF q, ps
  <1>4. \A j \in 1..Len(ps) : task(j) \in PodTasks(Syncs) /\ task(j).do = <<"write", "sync", how>>
                              /\ task(j).pod = ps[j] /\ task(j).t = t
    BY <1>1, <1>2 DEF PodTask, PodTasks
  <1> HIDE DEF task
  <1>5. q \in Seq(PodTasks(Syncs)) /\ Len(q) = Len(ps) /\ \A j \in 1..Len(ps) : q[j] = task(j)
    BY <1>1, <1>3, <1>4
  <1>. QED
    BY <1>4, <1>5, Zenon DEF q, ps

(* An order of a finite set has each of its elements. *)
LEMMA OrdersCover ==
  ASSUME NEW S, IsFiniteSet(S), NEW ps \in Orders(S)
  PROVE  ps \in Seq(S) /\ Once(ps) /\ \A x \in S : \E j \in 1..Len(ps) : ps[j] = x
  BY SetToSeqsCovers DEF Orders

LEMMA PodsFinite == IsFiniteSet(Pods)
  <1>1. IsFiniteSet(0..(MaxReplicas - 1))
    <2>1. 0 \in Int /\ MaxReplicas - 1 \in Int
      OBVIOUS
    <2>. QED
      BY <2>1, FS_Interval, Zenon
  <1>2. IsFiniteSet(Deps \X (0..(MaxReplicas - 1)))
    BY <1>1, FS_Product
  <1>3. PICK f : f = [x \in Deps \X (0..(MaxReplicas - 1)) |-> Inst[x[1]][x[2]]]
    OBVIOUS
  <1>4. f \in Surjection(Deps \X (0..(MaxReplicas - 1)), Instances)
    <2>1. \A x \in Deps \X (0..(MaxReplicas - 1)) : f[x] \in Instances
      BY <1>3, Replicas
    <2>2. ASSUME NEW p \in Instances PROVE \E x \in Deps \X (0..(MaxReplicas - 1)) : f[x] = p
      <3>1. PICK d \in Deps, i \in 0..(MaxReplicas - 1) : p = Inst[d][i]
        BY DEF Instances
      <3>2. <<d, i>> \in Deps \X (0..(MaxReplicas - 1)) /\ f[<<d, i>>] = p
        BY <1>3, <3>1
      <3>. QED
        BY <3>2
    <2>3. f \in [Deps \X (0..(MaxReplicas - 1)) -> Instances]
      BY <1>3, <2>1
    <2>. QED
      BY <2>2, <2>3 DEF Surjection
  <1>5. IsFiniteSet(Instances)
    BY <1>2, <1>4, FS_Surjection
  <1>. QED
    BY <1>5, FS_Union DEF Pods

LEMMA PodOrders ==
  ASSUME NEW S \in SUBSET Pods, NEW ps \in Orders(S)
  PROVE  ps \in Seq(S) /\ ps \in Seq(Pods) /\ \A x \in S : \E j \in 1..Len(ps) : ps[j] = x
  <1>1. IsFiniteSet(S)
    BY PodsFinite, FS_Subset
  <1>. QED
    BY <1>1, OrdersCover, SeqWiden

LEMMA DepOrders ==
  ASSUME NEW S \in SUBSET Deps, NEW ds \in Orders(S)
  PROVE  ds \in Seq(S) /\ ds \in Seq(Deps) /\ \A x \in S : \E j \in 1..Len(ds) : ds[j] = x
  <1>1. IsFiniteSet(S)
    BY FS_Subset
  <1>. QED
    BY <1>1, OrdersCover, SeqWiden

---------------------------------------------------------------------------
(* The other steps keep the types                                          *)

LEMMA MoreType ==
  ASSUME TodoType, NEW a \in Actors, NEW s, Doing(a, s), NEW more \in Seq(TasksOf(a)),
         Continue(a, <<>>, more)
  PROVE  TodoType'
  <1>1. todo' = [todo EXCEPT ![a] = Rest(todo[a], <<>>, more)]
    BY ContinueIs, Zenon
  <1>2. todo[a] \in Seq(TasksOf(a)) /\ todo[a] # <<>>
    BY FirstTask
  <1>3. Rest(todo[a], <<>>, more) \in Seq(TasksOf(a))
    BY <1>2, RestMore, Zenon
  <1>. QED
    BY <1>1, <1>3, NewList, Zenon

(* The other stages, each of one kind of task. *)
LEMMA PlainStage ==
  ASSUME TodoType, NEW a \in Actors, NEW s, Doing(a, s)
  PROVE  /\ s = "update" => a # Main /\ Task(a) \in Updates
         /\ s = "dropDep" => a # Main /\ Task(a) \in [do : {<<"dropDep">>}, dep : Deps]
         /\ s = "remove" => a # Main /\ Task(a) \in DepTasks({<<"remove">>})
         /\ s = "purgeDeps" => a # Main /\ Task(a) \in [do : PurgeAll]
         /\ s = "purge" => a # Main /\ Task(a) \in [do : {<<"purge", "dropNs">>}]
         /\ s = "dropNs" => a # Main /\ Task(a) \in [do : {<<"dropNs">>}]
         /\ s = "bootDeps" => a = Main /\ Task(a) \in [do : {<<"bootDeps">>}]
         /\ s = "restore" => a = Main /\ Task(a) \in DepTasks({<<"restore">>})
         /\ s = "bootPods" => a = Main /\ Task(a) \in [do : {<<"bootPods">>}]
         /\ s = "allPods" => a = Main /\ Task(a) \in [do : {<<"allPods">>}, seen : SUBSET Pods]
  <1>1. Task(a) \in TasksOf(a) /\ Head(Task(a).do) = s
    BY FirstTask
  <1>2. Head(<<"purgeDeps", "purge", "dropNs">>) = "purgeDeps" /\ Head(<<"purge", "dropNs">>) = "purge"
    OBVIOUS
  <1>3. CASE a = Main
    <2>1. Task(a) \in MainTasks
      BY <1>1, <1>3 DEF TasksOf
    <2>2. CASE Task(a) \in PodTasks(Mains)
      <3>1. Task(a).do \in AllDos
        BY <2>2 DEF PodTasks, AllDos
      <3>. QED
        BY <1>1, <3>1, Heads
    <2>3. CASE Task(a) \in DepTasks({<<"restore">>})
      BY <1>1, <1>3, <2>3, PlainHeads DEF DepTasks
    <2>4. CASE Task(a) \in [do : {<<"bootDeps">>, <<"bootPods">>}]
      BY <1>1, <1>3, <2>4, PlainHeads
    <2>5. CASE Task(a) \in [do : {<<"allPods">>}, seen : SUBSET Pods]
      BY <1>1, <1>3, <2>5, PlainHeads
    <2>. QED
      BY <2>1, <2>2, <2>3, <2>4, <2>5 DEF MainTasks
  <1>4. CASE a # Main
    <2>1. Task(a) \in ClientTasks
      BY <1>1, <1>4 DEF TasksOf
    <2>2. CASE Task(a) \in PodTasks(Deploys \cup Goes)
      <3>1. Task(a).do \in AllDos
        BY <2>2 DEF PodTasks, AllDos
      <3>. QED
        BY <1>1, <3>1, Heads
    <2>3. CASE Task(a) \in DepTasks({<<"remove">>})
      BY <1>1, <1>4, <2>3, PlainHeads DEF DepTasks
    <2>4. CASE Task(a) \in Updates
      BY <1>1, <1>4, <2>4, PlainHeads DEF Updates
    <2>5. CASE Task(a) \in [do : {<<"dropDep">>}, dep : Deps]
      BY <1>1, <1>4, <2>5, PlainHeads
    <2>6. CASE Task(a) \in [do : Purges \cup {<<"dropNs">>}]
      BY <1>1, <1>2, <1>4, <2>6, PlainHeads DEF Purges, PurgeAll
    <2>. QED
      BY <2>1, <2>2, <2>3, <2>4, <2>5, <2>6 DEF ClientTasks
  <1>. QED
    BY <1>3, <1>4

LEMMA WriteType ==
  ASSUME TypeInv, NEW a \in Actors, Write(a)
  PROVE  TypeInv'
  <1> USE TypeParts, TypePartsNext
  <1>1. Doing(a, "write") /\ "write" \in PodStages
    BY DEF Write, PodStages
  <1>2. Task(a).pod \in Pods /\ Task(a).t \in Specs /\ Task(a).do \in AllDos
        /\ Task(a).do \in DosOf(a)
    BY <1>1, PodStage DEF PodTasks
  <1>3. StateType'
    BY <1>2 DEF Write, StateType, store
  <1>4. PICK ch \in BOOLEAN : ch = (file[Task(a).pod] # Task(a).t)
    OBVIOUS
  <1>5. Task(a).do \in Writes
    BY <1>1, <1>2, FirstTask, Heads
  <1>6. a # Main
    BY <1>2, <1>5, NotAClients DEF DosOf
  <1>7. AfterWrite(Task(a).do, ch) \in Written \cup {<<>>}
    BY <1>5, AfterWrites, Zenon DEF Writes, Syncs, Replaces, Written, Starts, Restarts, Synced
  <1>8. AfterWrite(Task(a).do, ch) \in DosOf(a) \cup {<<>>}
    BY <1>6, <1>7 DEF DosOf, Deploys
  <1>9. Continue(a, AfterWrite(Task(a).do, ch), <<>>)
    BY <1>4, Zenon DEF Write
  <1>. QED
    BY <1>1, <1>3, <1>8, <1>9, ContinueType, Zenon

LEMMA RewriteType ==
  ASSUME TypeInv, NEW a \in Actors, Rewrite(a)
  PROVE  TypeInv'
  <1> USE TypeParts, TypePartsNext
  <1>1. Doing(a, "rewrite") /\ "rewrite" \in PodStages
    BY DEF Rewrite, PodStages
  <1>2. Task(a).pod \in Pods /\ Task(a).t \in Specs /\ Task(a).do \in DosOf(a)
        /\ Task(a).do = <<"rewrite">>
    BY <1>1, PodStage, FirstTask, Heads DEF PodTasks
  <1>3. StateType'
    BY <1>2 DEF Rewrite, StateType, store, history
  <1>4. CASE file[Task(a).pod] = Task(a).t
    BY <1>1, <1>3, <1>4, AdvanceType DEF Rewrite
  <1>5. CASE file[Task(a).pod] # Task(a).t
    <2>1. <<"start">> \in DosOf(a)
      BY <1>2, NotAClients DEF DosOf, Mains, Heals
    <2>2. [Task(a) EXCEPT !.do = <<"start">>] \in TasksOf(a)
      BY <1>1, <2>1, PodStage
    <2>3. PICK S : S = TasksOf(a)
      OBVIOUS
    <2>8. PICK x \in S : x = [Task(a) EXCEPT !.do = <<"start">>]
      BY <2>2, <2>3
    <2>9. PICK q \in Seq(S) : q = todo[a]
      BY <1>1, <2>3, FirstTask
    <2>11. <<x>> \in Seq(S)
      BY <2>8
    <2>10. PICK e \in Seq(S) : e = <<x>>
      BY <2>11, Zenon
    <2>4. q # <<>> /\ Tail(q) \in Seq(S)
      BY <1>1, <2>9, FirstTask
    <2>5. Tail(q) \o e \in Seq(S)
      BY <2>4, ConcatProperties
    <2>6. todo' = [todo EXCEPT ![a] = Tail(todo[a]) \o <<[Head(todo[a]) EXCEPT !.do = <<"start">>]>>]
      BY <1>5 DEF Rewrite
    <2>7. todo' = [todo EXCEPT ![a] = Tail(q) \o e]
      BY <2>6, <2>8, <2>9, <2>10, Zenon DEF Task
    <2>. QED
      BY <1>3, <2>3, <2>5, <2>7, NewList, Zenon
  <1>. QED
    BY <1>4, <1>5

(* The list main, or a delete, makes of some Deployments. *)
LEMMA DepTasksIs ==
  ASSUME StateType, NEW do,
         NEW ds \in Orders({d \in Deps : deps[d] # Absent})
  PROVE  LET q == [j \in 1..Len(ds) |-> DepTask(do, ds[j])]
         IN  /\ ds \in Seq(Deps) /\ q \in Seq(DepTasks({do})) /\ Len(q) = Len(ds)
             /\ \A j \in 1..Len(ds) : q[j].do = do /\ q[j].dep = ds[j]
                                      /\ q[j].n = deps[ds[j]].n /\ deps[ds[j]] # Absent
             /\ \A d \in Deps : deps[d] # Absent => \E j \in 1..Len(ds) : ds[j] = d
  <1> DEFINE D == {d \in Deps : deps[d] # Absent}
             q == [j \in 1..Len(ds) |-> DepTask(do, ds[j])]
             task(j) == DepTask(do, ds[j])
  <1>1. ds \in Seq(D) /\ ds \in Seq(Deps) /\ \A d \in D : \E j \in 1..Len(ds) : ds[j] = d
    <2>1. PICK Y \in SUBSET Deps : Y = D
      OBVIOUS
    <2>2. ds \in Orders(Y)
      BY <2>1
    <2>3. ds \in Seq(Y) /\ ds \in Seq(Deps) /\ \A d \in Y : \E j \in 1..Len(ds) : ds[j] = d
      <3>1. \A S \in SUBSET Deps : \A es \in Orders(S) :
              es \in Seq(S) /\ es \in Seq(Deps) /\ \A x \in S : \E j \in 1..Len(es) : es[j] = x
        BY DepOrders
      <3>2. Y \in SUBSET Deps
        OBVIOUS
      <3>3. PICK es \in Orders(Y) : es = ds
        BY <2>2
      <3>4. es \in Seq(Y) /\ es \in Seq(Deps) /\ \A x \in Y : \E j \in 1..Len(es) : es[j] = x
        BY <3>1, <3>2, <3>3, SMTT(30)
      <3>. QED
        BY <3>3, <3>4
    <2>. QED
      BY <2>1, <2>3
  <1>2. \A j \in 1..Len(ds) : ds[j] \in D
    BY <1>1
  <1>3. \A j \in 1..Len(ds) : /\ task(j).do = do /\ task(j).dep = ds[j]
                              /\ task(j).n = deps[ds[j]].n
    BY DEF DepTask
  <1>4. PICK X : X = DepTasks({do})
    OBVIOUS
  <1>5. \A j \in 1..Len(ds) : task(j) \in DepTasks({do})
    <2> TAKE j \in 1..Len(ds)
    <2>1. ds[j] \in Deps /\ deps[ds[j]] # Absent
      BY <1>2
    <2>2. deps[ds[j]] \in [n : 0..MaxReplicas, t : Specs]
      BY <2>1 DEF StateType
    <2>. QED
      BY <2>1, <2>2 DEF DepTask, DepTasks
  <1>6. q = [j \in 1..Len(ds) |-> task(j)] /\ Len(ds) \in Nat
    BY <1>1, LenProperties
  <1> HIDE DEF task, q
  <1>7. q \in [1..Len(ds) -> X] /\ \A j \in 1..Len(ds) : q[j] = task(j)
    BY <1>4, <1>5, <1>6
  <1>8. q \in Seq(X) /\ Len(q) = Len(ds)
    BY <1>6, <1>7, Listed
  <1>9. \A d \in Deps : deps[d] # Absent => \E j \in 1..Len(ds) : ds[j] = d
    BY <1>1
  <1>10. \A j \in 1..Len(ds) : deps[ds[j]] # Absent
    BY <1>2
  <1>. QED
    BY <1>1, <1>3, <1>4, <1>7, <1>8, <1>9, <1>10, ZenonT(40) DEF q

(* The parts of the lists that change or take away replicas. *)
LEMMA ClientParts ==
  ASSUME NEW a \in Actors, a # Main
  PROVE  /\ Seq(PodTasks(Syncs)) \subseteq Seq(TasksOf(a))
         /\ \A do \in Goes : Seq(PodTasks({do})) \subseteq Seq(TasksOf(a))
  <1>1. PodTasks(Syncs) \subseteq TasksOf(a)
    BY DEF TasksOf, ClientTasks, PodTasks, Deploys, Writes
  <1>2. \A do \in Goes : PodTasks({do}) \subseteq TasksOf(a)
    BY DEF TasksOf, ClientTasks, PodTasks
  <1>. QED
    BY <1>1, <1>2, SeqWiden

LEMMA NewLists ==
  ASSUME NEW a \in Actors, a # Main, NEW d \in Deps, NEW t \in Specs,
         NEW old \in 0..MaxReplicas, NEW new \in 0..MaxReplicas
  PROVE  /\ ScaleTasks(d, t, old, new) \in Seq(TasksOf(a))
         /\ DeployInstances(d, t, 0, new, "restart") \in Seq(TasksOf(a))
         /\ DeployInstances(d, t, 0, new, "start") \in Seq(TasksOf(a))
  <1>1. 0 \in 0..MaxReplicas /\ "start" \in {"start", "restart"} /\ "restart" \in {"start", "restart"}
    OBVIOUS
  <1>2. DeployInstances(d, t, old, new, "start") \in Seq(TasksOf(a))
    BY <1>1, DeployInstancesIs, ClientParts, Zenon
  <1>3. /\ DeployInstances(d, t, 0, new, "restart") \in Seq(TasksOf(a))
        /\ DeployInstances(d, t, 0, new, "start") \in Seq(TasksOf(a))
    BY <1>1, DeployInstancesIs, ClientParts, Zenon
  <1>4. <<"stop", "unlink", "drop">> \in Goes
    BY DEF Goes, Stops
  <1>5. Range_(d, new, old) \in Seq(Pods)
    BY RangeIs
  <1>6. Each(<<"stop", "unlink", "drop">>, Range_(d, new, old)) \in Seq(TasksOf(a))
    BY <1>4, <1>5, EachIs, ClientParts, Zenon
  <1>7. DeployInstances(d, t, old, new, "start")
          \o Each(<<"stop", "unlink", "drop">>, Range_(d, new, old)) \in Seq(TasksOf(a))
    BY <1>2, <1>6, Joined, Zenon
  <1>. QED
    BY <1>3, <1>7, Zenon DEF ScaleTasks

LEMMA TwoRounds ==
  ASSUME NEW a \in Actors, a # Main, NEW ps \in Seq(Pods)
  PROVE  /\ Each(<<"stop">>, ps) \in Seq(TasksOf(a))
         /\ Each(<<"unlink">>, ps) \in Seq(TasksOf(a))
         /\ Each(<<"drop">>, ps) \in Seq(TasksOf(a))
         /\ Each(<<"stop">>, ps) \o Each(<<"unlink">>, ps) \in Seq(TasksOf(a))
  <1>1. <<"stop">> \in Goes /\ <<"unlink">> \in Goes /\ <<"drop">> \in Goes
    BY DEF Goes, Stops, Unlinks, Drops
  <1>2. /\ Each(<<"stop">>, ps) \in Seq(TasksOf(a))
        /\ Each(<<"unlink">>, ps) \in Seq(TasksOf(a))
        /\ Each(<<"drop">>, ps) \in Seq(TasksOf(a))
    BY <1>1, EachIs, ClientParts, Zenon
  <1>. QED
    BY <1>2, Joined, Zenon

(* The list of the pods startup or a delete goes through. *)
LEMMA RegensIs ==
  ASSUME StateType, NEW ps \in Orders({p \in Pods : Stored(p)})
  PROVE  LET q == [j \in 1..Len(ps) |->
                     PodTask(<<"regen">>, ps[j], pods[ps[j]].t, pods[ps[j]].owned)]
         IN  /\ q \in Seq(PodTasks({<<"regen">>})) /\ Len(q) = Len(ps)
             /\ \A j \in 1..Len(ps) : q[j].do = <<"regen">> /\ q[j].pod = ps[j]
             /\ \A p \in Pods : Stored(p) => \E j \in 1..Len(ps) : ps[j] = p
  <1> DEFINE task(j) == PodTask(<<"regen">>, ps[j], pods[ps[j]].t, pods[ps[j]].owned)
             q == [j \in 1..Len(ps) |-> task(j)]
  <1>1. PICK Y \in SUBSET Pods : Y = {p \in Pods : Stored(p)}
    OBVIOUS
  <1>2. ps \in Seq(Y) /\ Len(ps) \in Nat /\ \A p \in Y : \E j \in 1..Len(ps) : ps[j] = p
    <2>1. ps \in Orders(Y)
      BY <1>1
    <2>. QED
      BY <2>1, PodOrders, LenProperties
  <1>3. ASSUME NEW j \in 1..Len(ps)
        PROVE  task(j) \in PodTasks({<<"regen">>}) /\ task(j).do = <<"regen">> /\ task(j).pod = ps[j]
    <2>1. ps[j] \in Pods /\ pods[ps[j]] # Absent
      BY <1>1, <1>2 DEF Stored
    <2>2. pods[ps[j]] \in [t : Specs, owned : BOOLEAN]
      BY <2>1 DEF StateType
    <2>. QED
      BY <2>1, <2>2 DEF PodTask, PodTasks
  <1>4. PICK X : X = PodTasks({<<"regen">>})
    OBVIOUS
  <1>5. q = [j \in 1..Len(ps) |-> task(j)]
    OBVIOUS
  <1> HIDE DEF task, q
  <1>6. q \in [1..Len(ps) -> X] /\ \A j \in 1..Len(ps) : q[j] = task(j)
    BY <1>3, <1>4, <1>5
  <1>7. q \in Seq(X) /\ Len(q) = Len(ps)
    BY <1>2, <1>6, Listed
  <1>8. /\ q \in Seq(PodTasks({<<"regen">>})) /\ Len(q) = Len(ps)
        /\ \A j \in 1..Len(ps) : q[j].do = <<"regen">> /\ q[j].pod = ps[j]
        /\ \A p \in Pods : Stored(p) => \E j \in 1..Len(ps) : ps[j] = p
    BY <1>1, <1>2, <1>3, <1>4, <1>6, <1>7, Zenon
  <1>. QED
    BY <1>8, Zenon DEF q, task

LEMMA RestoresIs ==
  ASSUME NEW ps \in Seq(Pods), NEW t \in Specs
  PROVE  LET q == [i \in 1..Len(ps) |-> PodTask(<<"sync", "regen">>, ps[i], t, TRUE)]
         IN  /\ q \in Seq(PodTasks({<<"sync", "regen">>})) /\ Len(q) = Len(ps)
             /\ \A j \in 1..Len(ps) : q[j].do = <<"sync", "regen">> /\ q[j].pod = ps[j]
  <1> DEFINE task(j) == PodTask(<<"sync", "regen">>, ps[j], t, TRUE)
             q == [j \in 1..Len(ps) |-> task(j)]
  <1>3. ASSUME NEW j \in 1..Len(ps)
        PROVE  /\ task(j) \in PodTasks({<<"sync", "regen">>})
               /\ task(j).do = <<"sync", "regen">> /\ task(j).pod = ps[j]
    BY DEF PodTask, PodTasks
  <1>4. PICK X : X = PodTasks({<<"sync", "regen">>})
    OBVIOUS
  <1>5. q = [j \in 1..Len(ps) |-> task(j)] /\ Len(ps) \in Nat
    OBVIOUS
  <1> HIDE DEF task, q
  <1>6. q \in [1..Len(ps) -> X] /\ \A j \in 1..Len(ps) : q[j] = task(j)
    BY <1>3, <1>4, <1>5
  <1>7. q \in Seq(X) /\ Len(q) = Len(ps)
    BY <1>5, <1>6, Listed
  <1>8. /\ q \in Seq(PodTasks({<<"sync", "regen">>})) /\ Len(q) = Len(ps)
        /\ \A j \in 1..Len(ps) : q[j].do = <<"sync", "regen">> /\ q[j].pod = ps[j]
    BY <1>3, <1>4, <1>6, <1>7, Zenon
  <1>. QED
    BY <1>8, Zenon DEF q, task

(* The steps of requests that are not about one pod. *)
LEMMA DepStepTypes ==
  ASSUME TypeInv, NEW a \in Actors
  PROVE  /\ UpdateDeployment(a) => TypeInv'
         /\ DropDeployment(a) => TypeInv'
         /\ RemoveReplicas(a) => TypeInv'
         /\ Purge(a) => TypeInv'
         /\ DropNamespace(a) => TypeInv'
  <1> USE TypeParts, TypePartsNext
  <1>1. ASSUME UpdateDeployment(a) PROVE TypeInv'
    <2>1. Doing(a, "update") /\ a # Main /\ Task(a) \in Updates
      BY <1>1, PlainStage DEF UpdateDeployment
    <2>2. Task(a).dep \in Deps /\ Task(a).n \in 0..MaxReplicas /\ Task(a).t \in Specs
          /\ Task(a).old \in 0..MaxReplicas /\ Task(a).scale \in BOOLEAN
      BY <2>1 DEF Updates
    <2>3. CASE deps[Task(a).dep] = Absent
      <3>1. StateType' /\ Skip(a)
        BY <1>1, <2>3 DEF UpdateDeployment, StateType, host, history
      <3>2. <<>> \in Seq(TasksOf(a))
        OBVIOUS
      <3>. QED
        BY <2>1, <3>1, <3>2, MoreType DEF Skip
    <2>4. CASE deps[Task(a).dep] # Absent
      <3>1. PICK v \in [n : 0..MaxReplicas, t : Specs] : v = [n |-> Task(a).n, t |-> Task(a).t]
        BY <2>2
      <3>2. deps' = [deps EXCEPT ![Task(a).dep] = v]
        BY <1>1, <2>4, <3>1 DEF UpdateDeployment
      <3>3. StateType'
        BY <1>1, <2>2, <3>2 DEF UpdateDeployment, StateType, host, history
      <3>4. PICK more : /\ more \in {ScaleTasks(Task(a).dep, Task(a).t, Task(a).old, Task(a).n),
                                     DeployInstances(Task(a).dep, Task(a).t, 0, Task(a).n, "restart")}
                        /\ Continue(a, <<>>, more)
        BY <1>1, <2>4, Zenon DEF UpdateDeployment
      <3>5. more \in Seq(TasksOf(a))
        <4>1. more = ScaleTasks(Task(a).dep, Task(a).t, Task(a).old, Task(a).n)
              \/ more = DeployInstances(Task(a).dep, Task(a).t, 0, Task(a).n, "restart")
          BY <3>4
        <4>2. ScaleTasks(Task(a).dep, Task(a).t, Task(a).old, Task(a).n) \in Seq(TasksOf(a))
          BY <2>1, <2>2, NewLists
        <4>3. DeployInstances(Task(a).dep, Task(a).t, 0, Task(a).n, "restart") \in Seq(TasksOf(a))
          BY <2>1, <2>2, NewLists
        <4>. QED
          BY <4>1, <4>2, <4>3, Zenon
      <3>. QED
        BY <2>1, <3>3, <3>4, <3>5, MoreType
    <2>. QED
      BY <2>3, <2>4
  <1>2. ASSUME DropDeployment(a) PROVE TypeInv'
    <2>1. Doing(a, "dropDep") /\ Task(a) \in [do : {<<"dropDep">>}, dep : Deps]
      BY <1>2, PlainStage DEF DropDeployment
    <2>2. Task(a).dep \in Deps /\ Task(a).do = <<"dropDep">>
      BY <2>1
    <2>3. StateType'
      BY <1>2, <2>2 DEF DropDeployment, StateType, host, history
    <2>4. Continue(a, <<>>, <<>>) /\ <<>> \in Seq(TasksOf(a))
      BY <1>2, <2>2, ShortTails DEF DropDeployment, Advance
    <2>. QED
      BY <2>1, <2>3, <2>4, MoreType
  <1>3. ASSUME RemoveReplicas(a) PROVE TypeInv'
    <2>1. Doing(a, "remove") /\ a # Main /\ Task(a) \in DepTasks({<<"remove">>})
      BY <1>3, PlainStage DEF RemoveReplicas
    <2>2. Task(a).dep \in Deps /\ Task(a).n \in 0..MaxReplicas
      BY <2>1 DEF DepTasks
    <2>3. StateType'
      BY <1>3 DEF RemoveReplicas, StateType, store, host, history
    <2>4. PICK ps : /\ ps = Range_(Task(a).dep, 0, Task(a).n)
                    /\ Continue(a, <<>>, Each(<<"stop">>, ps) \o Each(<<"unlink">>, ps))
      BY <1>3 DEF RemoveReplicas
    <2>5. ps \in Seq(Pods)
      <3>1. 0 \in 0..MaxReplicas
        OBVIOUS
      <3>. QED
        BY <2>2, <2>4, <3>1, RangeIs, Zenon
    <2>6. Each(<<"stop">>, ps) \o Each(<<"unlink">>, ps) \in Seq(TasksOf(a))
      BY <2>1, <2>5, TwoRounds
    <2>. QED
      BY <2>1, <2>3, <2>4, <2>6, MoreType
  <1>4. ASSUME Purge(a) PROVE TypeInv'
    <2>1. Doing(a, "purge") /\ a # Main /\ Task(a) \in [do : {<<"purge", "dropNs">>}]
      BY <1>4, PlainStage DEF Purge
    <2>2. StateType'
      BY <1>4 DEF Purge, StateType, host, history
    <2>3. Continue(a, <<"dropNs">>, <<>>)
      <3>1. Task(a).do = <<"purge", "dropNs">>
        BY <2>1
      <3>2. Tail(<<"purge", "dropNs">>) = <<"dropNs">>
        BY ShortTails, Zenon
      <3>. QED
        BY <1>4, <3>1, <3>2, Zenon DEF Purge, Advance
    <2>4. [Head(todo[a]) EXCEPT !.do = <<"dropNs">>] \in TasksOf(a)
      BY <2>1 DEF Task, TasksOf, ClientTasks
    <2>5. todo[a] \in Seq(TasksOf(a)) /\ todo[a] # <<>> /\ <<"dropNs">> # <<>>
      BY <2>1, FirstTask
    <2>6. Rest(todo[a], <<"dropNs">>, <<>>) \in Seq(TasksOf(a))
      BY <2>4, <2>5, RestOn, Zenon
    <2>7. todo' = [todo EXCEPT ![a] = Rest(todo[a], <<"dropNs">>, <<>>)]
      BY <2>3, ContinueIs, Zenon
    <2>. QED
      BY <2>2, <2>6, <2>7, NewList, Zenon
  <1>5. ASSUME DropNamespace(a) PROVE TypeInv'
    <2>1. Doing(a, "dropNs") /\ Task(a) \in [do : {<<"dropNs">>}]
      BY <1>5, PlainStage DEF DropNamespace
    <2>2. StateType'
      BY <1>5 DEF DropNamespace, StateType, host, history
    <2>3. Continue(a, <<>>, <<>>) /\ <<>> \in Seq(TasksOf(a))
      <3>1. Task(a).do = <<"dropNs">>
        BY <2>1
      <3>2. Tail(<<"dropNs">>) = <<>>
        BY ShortTails, Zenon
      <3>. QED
        BY <1>5, <3>1, <3>2 DEF DropNamespace, Advance
    <2>. QED
      BY <2>1, <2>2, <2>3, MoreType
  <1>. QED
    BY <1>1, <1>2, <1>3, <1>4, <1>5

(* The steps of a namespace's delete and of main that make lists. *)
LEMMA ListStepTypes ==
  ASSUME TypeInv, NEW a \in Actors
  PROVE  /\ PurgeDeployments(a) => TypeInv'
         /\ BootDeps(a) => TypeInv'
         /\ RestoreReplicas(a) => TypeInv'
         /\ BootPods(a) => TypeInv'
         /\ PruneCandidates(a) => TypeInv'
  <1> USE TypeParts, TypePartsNext
  <1>1. ASSUME PurgeDeployments(a) PROVE TypeInv'
    <2>1. Doing(a, "purgeDeps") /\ a # Main /\ Task(a) \in [do : PurgeAll]
      BY <1>1, PlainStage DEF PurgeDeployments
    <2>2. StateType'
      BY <1>1 DEF PurgeDeployments, StateType, store, host, history
    <2>3. PICK ds \in Orders({d \in Deps : deps[d] # Absent}) :
            todo' = [todo EXCEPT ![a] = [j \in 1..Len(ds) |-> DepTask(<<"remove">>, ds[j])]
                                          \o <<[do |-> Tail(Task(a).do)]>> \o Tail(@)]
      BY <1>1 DEF PurgeDeployments
    <2>4. PICK q \in Seq(DepTasks({<<"remove">>})) :
            q = [j \in 1..Len(ds) |-> DepTask(<<"remove">>, ds[j])]
      BY DepTasksIs, Zenon
    <2>5. [do |-> Tail(Task(a).do)] \in TasksOf(a)
      <3>1. Task(a).do = <<"purgeDeps", "purge", "dropNs">>
        BY <2>1 DEF PurgeAll
      <3>3. Tail(<<"purgeDeps", "purge", "dropNs">>) = <<"purge", "dropNs">>
        BY ShortTails
      <3>2. Tail(Task(a).do) = <<"purge", "dropNs">>
        BY <3>1, <3>3
      <3>. QED
        BY <2>1, <3>2 DEF TasksOf, ClientTasks, Purges
    <2>6. DepTasks({<<"remove">>}) \subseteq TasksOf(a)
      BY <2>1 DEF TasksOf, ClientTasks
    <2>7. q \in Seq(TasksOf(a))
      BY <2>6, SeqWiden, Zenon
    <2>8. todo[a] \in Seq(TasksOf(a)) /\ todo[a] # <<>>
      BY <2>1, FirstTask
    <2>9. PICK e \in Seq(TasksOf(a)) : e = <<[do |-> Tail(Task(a).do)]>>
      BY <2>5, OneElement, Zenon
    <2>10. Tail(todo[a]) \in Seq(TasksOf(a))
      BY <2>8, HeadTailProperties
    <2>11. q \o e \o Tail(todo[a]) \in Seq(TasksOf(a))
      BY <2>7, <2>9, <2>10, Joined, Zenon
    <2>12. todo' = [todo EXCEPT ![a] = q \o e \o Tail(todo[a])]
      BY <2>3, <2>4, <2>9, Zenon
    <2>. QED
      BY <2>2, <2>11, <2>12, NewList, Zenon
  <1>2. ASSUME BootDeps(a) PROVE TypeInv'
    <2>1. Doing(a, "bootDeps") /\ a = Main
      BY <1>2, PlainStage DEF BootDeps
    <2>2. StateType'
      BY <1>2 DEF BootDeps, StateType, store, host, history
    <2>3. PICK ds \in Orders({d \in Deps : deps[d] # Absent}) :
            Continue(a, <<>>, [j \in 1..Len(ds) |-> DepTask(<<"restore">>, ds[j])])
      BY <1>2 DEF BootDeps
    <2>4. PICK q : q = [j \in 1..Len(ds) |-> DepTask(<<"restore">>, ds[j])]
      OBVIOUS
    <2>5. DepTasks({<<"restore">>}) \subseteq TasksOf(a)
      BY <2>1 DEF TasksOf, MainTasks
    <2>6. q \in Seq(DepTasks({<<"restore">>}))
      BY <2>4, DepTasksIs, Zenon
    <2>7. q \in Seq(TasksOf(a))
      BY <2>5, <2>6, SeqWiden, Zenon
    <2>a. Continue(a, <<>>, q)
      BY <2>3, <2>4
    <2>8. TodoType'
      BY <2>1, <2>7, <2>a, MoreType, Zenon
    <2>. QED
      BY <2>2, <2>8
  <1>3. ASSUME RestoreReplicas(a) PROVE TypeInv'
    <2>1. Doing(a, "restore") /\ a = Main /\ Task(a) \in DepTasks({<<"restore">>})
      BY <1>3, PlainStage DEF RestoreReplicas
    <2>2. Task(a).dep \in Deps /\ Task(a).n \in 0..MaxReplicas /\ Task(a).t \in Specs
          /\ 0 \in 0..MaxReplicas
      BY <2>1 DEF DepTasks
    <2>3. StateType'
      BY <1>3 DEF RestoreReplicas, StateType, store, host, history
    <2>4. PICK ps :
            /\ ps = Range_(Task(a).dep, 0, Task(a).n)
            /\ Continue(a, <<>>,
                 [i \in 1..Len(ps) |-> PodTask(<<"sync", "regen">>, ps[i], Task(a).t, TRUE)])
      BY <1>3, Zenon DEF RestoreReplicas
    <2>5. ps \in Seq(Pods)
      BY <2>2, <2>4, RangeIs, Zenon
    <2>6. [i \in 1..Len(ps) |-> PodTask(<<"sync", "regen">>, ps[i], Task(a).t, TRUE)]
            \in Seq(PodTasks({<<"sync", "regen">>}))
      BY <2>2, <2>5, RestoresIs, Zenon
    <2>7. PodTasks({<<"sync", "regen">>}) \subseteq TasksOf(a)
      BY <2>1 DEF TasksOf, MainTasks, PodTasks, Mains, Heals
    <2>8. [i \in 1..Len(ps) |-> PodTask(<<"sync", "regen">>, ps[i], Task(a).t, TRUE)]
            \in Seq(TasksOf(a))
      <3>1. Seq(PodTasks({<<"sync", "regen">>})) \subseteq Seq(TasksOf(a))
        BY <2>7, SeqWiden
      <3>. QED
        BY <2>6, <3>1
    <2>. QED
      BY <2>1, <2>3, <2>4, <2>8, MoreType, Zenon
  <1>4. ASSUME BootPods(a) PROVE TypeInv'
    <2>1. Doing(a, "bootPods") /\ a = Main
      BY <1>4, PlainStage DEF BootPods
    <2>2. StateType'
      BY <1>4 DEF BootPods, StateType, store, host, history
    <2>3. PICK ps \in Orders({p \in Pods : Stored(p)}) :
            Continue(a, <<>>, [j \in 1..Len(ps) |->
              PodTask(<<"regen">>, ps[j], pods[ps[j]].t, pods[ps[j]].owned)])
      BY <1>4 DEF BootPods
    <2>4. [j \in 1..Len(ps) |-> PodTask(<<"regen">>, ps[j], pods[ps[j]].t, pods[ps[j]].owned)]
            \in Seq(PodTasks({<<"regen">>}))
      BY RegensIs, Zenon
    <2>5. PodTasks({<<"regen">>}) \subseteq TasksOf(a)
      BY <2>1 DEF TasksOf, MainTasks, PodTasks, Mains, Heals
    <2>6. [j \in 1..Len(ps) |-> PodTask(<<"regen">>, ps[j], pods[ps[j]].t, pods[ps[j]].owned)]
            \in Seq(TasksOf(a))
      BY <2>4, <2>5, SeqWiden, ZenonT(40)
    <2>. QED
      BY <2>1, <2>2, <2>3, <2>6, MoreType, Zenon
  <1>5. ASSUME PruneCandidates(a) PROVE TypeInv'
    <2>1. Doing(a, "allPods") /\ a = Main
      BY <1>5, PlainStage DEF PruneCandidates
    <2>2. StateType'
      BY <1>5 DEF PruneCandidates, StateType, store, host, history
    <2>3. PICK ps \in Orders({p \in Pods \ Task(a).seen : Stored(p) /\ pods[p].owned}) :
            Continue(a, <<>>, Each(<<"known", "prune">>, ps))
      BY <1>5 DEF PruneCandidates
    <2>4. ps \in Seq(Pods)
      <3>1. PICK Y \in SUBSET Pods : Y = {p \in Pods \ Task(a).seen : Stored(p) /\ pods[p].owned}
        OBVIOUS
      <3>2. ps \in Orders(Y)
        BY <3>1
      <3>. QED
        BY <3>2, PodOrders
    <2>5. PodTasks({<<"known", "prune">>}) \subseteq TasksOf(a)
      BY <2>1 DEF TasksOf, MainTasks, PodTasks, Mains, Prunes
    <2>6. Each(<<"known", "prune">>, ps) \in Seq(TasksOf(a))
      <3>1. Seq(PodTasks({<<"known", "prune">>})) \subseteq Seq(TasksOf(a))
        BY <2>5, SeqWiden
      <3>2. Each(<<"known", "prune">>, ps) \in Seq(PodTasks({<<"known", "prune">>}))
        BY <2>4, EachIs
      <3>. QED
        BY <3>1, <3>2
    <2>. QED
      BY <2>1, <2>2, <2>3, <2>6, MoreType, Zenon
  <1>. QED
    BY <1>1, <1>2, <1>3, <1>4, <1>5

(* A request begins with a list of its own. *)
LEMMA AcceptType ==
  ASSUME TodoType, NEW c \in Clients, NEW tasks, Accept(c, tasks)
  PROVE  /\ c \in Actors /\ c # Main /\ todo[c] = <<>> /\ up
         /\ tasks \in Seq(TasksOf(c)) =>
              TodoType' /\ todo'[c] = tasks /\ \A b \in Actors \ {c} : todo'[b] = todo[b]
  <1>1. c \in Actors /\ c # Main
    BY DEF Actors
  <1>2. todo' = [todo EXCEPT ![c] = tasks] /\ todo[c] = <<>> /\ up
    BY DEF Accept
  <1>. QED
    BY <1>1, <1>2, NewList, Zenon

LEMMA RequestTypes ==
  ASSUME TypeInv, NEW c \in Clients, Request(c)
  PROVE  TypeInv'
  <1> USE TypeParts, TypePartsNext
  <1>0. c \in Actors /\ c # Main
    BY DEF Actors
  <1>1. ASSUME NEW p \in Standalone, NEW t \in Templates, PostPod(c, p, t) PROVE TypeInv'
    <2>1. p \in Pods /\ t \in Specs
      BY DEF Pods, Specs
    <2>2. PICK v \in [t : Specs, owned : BOOLEAN] : v = [t |-> t, owned |-> FALSE]
      BY <2>1
    <2>3. StateType'
      BY <1>1, <2>1, <2>2 DEF PostPod, StateType, host
    <2>4. <<"write", "start">> \in Deploys
      BY DEF Deploys, Writes, Replaces
    <2>5. PodTask(<<"write", "start">>, p, t, FALSE) \in TasksOf(c)
      BY <1>0, <2>1, <2>4 DEF TasksOf, ClientTasks, PodTask, PodTasks
    <2>6. <<PodTask(<<"write", "start">>, p, t, FALSE)>> \in Seq(TasksOf(c))
      BY <2>5, OneElement, Zenon
    <2>. QED
      BY <1>1, <2>3, <2>6, AcceptType, Zenon DEF PostPod
  <1>2. ASSUME NEW p \in Pods, NEW t \in Templates, PatchPod(c, p, t) PROVE TypeInv'
    <2>1. t \in Specs
      BY DEF Specs
    <2>2. pods[p] \in [t : Specs, owned : BOOLEAN]
      BY <1>2 DEF PatchPod, Stored, StateType
    <2>3. PICK v \in [t : Specs, owned : BOOLEAN] : v = [pods[p] EXCEPT !.t = t]
      BY <2>1, <2>2
    <2>4. pods' = [pods EXCEPT ![p] = v]
      BY <1>2, <2>3, Zenon DEF PatchPod
    <2>5. StateType'
      BY <1>2, <2>4 DEF PatchPod, StateType, host, history
    <2>6. <<"write", "restart">> \in Deploys
      BY DEF Deploys, Writes, Replaces
    <2>7. PodTask(<<"write", "restart">>, p, t, FALSE) \in TasksOf(c)
      BY <1>0, <2>1, <2>6 DEF TasksOf, ClientTasks, PodTask, PodTasks
    <2>8. <<PodTask(<<"write", "restart">>, p, t, FALSE)>> \in Seq(TasksOf(c))
      BY <2>7, OneElement, Zenon
    <2>. QED
      BY <1>2, <2>5, <2>8, AcceptType, Zenon DEF PatchPod
  <1>3. ASSUME NEW p \in Pods, DeletePod(c, p) PROVE TypeInv'
    <2>1. StateType'
      BY <1>3 DEF DeletePod, StateType, store, host
    <2>2. <<p>> \in Seq(Pods)
      BY OneElement, Zenon
    <2>3. <<"stop", "unlink", "drop">> \in Goes
      BY DEF Goes, Stops
    <2>4. Each(<<"stop", "unlink", "drop">>, <<p>>) \in Seq(TasksOf(c))
      BY <1>0, <2>2, <2>3, EachIs, ClientParts, Zenon
    <2>. QED
      BY <1>3, <2>1, <2>4, AcceptType, Zenon DEF DeletePod
  <1>4. ASSUME NEW d \in Deps, NEW n \in 0..MaxReplicas, NEW t \in Templates, PostDeployment(c, d, n, t)
        PROVE  TypeInv'
    <2>1. t \in Specs /\ 0 \in 0..MaxReplicas
      BY DEF Specs
    <2>2. PICK v \in [n : 0..MaxReplicas, t : Specs] : v = [n |-> n, t |-> t]
      BY <2>1
    <2>3. deps' = [deps EXCEPT ![d] = v]
      BY <1>4, <2>2, Zenon DEF PostDeployment
    <2>4. StateType'
      BY <1>4, <2>3 DEF PostDeployment, StateType, host, history
    <2>5. DeployInstances(d, t, 0, n, "start") \in Seq(TasksOf(c))
      BY <1>0, <2>1, NewLists, Zenon
    <2>6. Accept(c, DeployInstances(d, t, 0, n, "start"))
      BY <1>4, Zenon DEF PostDeployment
    <2>7. TodoType'
      BY <2>5, <2>6, AcceptType, Zenon
    <2>. QED
      BY <2>4, <2>7
  <1>5. ASSUME NEW d \in Deps, NEW n \in 0..MaxReplicas, NEW t \in Specs, NEW scale \in BOOLEAN,
               ChangeDeployment(c, d, n, t, scale)
        PROVE  TypeInv'
    <2>1. deps[d] \in [n : 0..MaxReplicas, t : Specs]
      BY <1>5 DEF ChangeDeployment, StateType
    <2>2. StateType'
      BY <1>5 DEF ChangeDeployment, StateType, store, host, history
    <2>3. PICK u \in Updates : u = [do |-> <<"update">>, dep |-> d, n |-> n, t |-> t,
                                   old |-> deps[d].n, scale |-> scale]
      BY <2>1 DEF Updates
    <2>4. u \in TasksOf(c)
      BY <1>0 DEF TasksOf, ClientTasks
    <2>5. <<u>> \in Seq(TasksOf(c)) /\ Accept(c, <<u>>)
      BY <1>5, <2>3, <2>4, OneElement, Zenon DEF ChangeDeployment
    <2>. QED
      BY <2>2, <2>5, AcceptType, Zenon
  <1>6. ASSUME NEW d \in Deps, DeleteDeployment(c, d) PROVE TypeInv'
    <2>1. deps[d] \in [n : 0..MaxReplicas, t : Specs]
      BY <1>6 DEF DeleteDeployment, StateType
    <2>2. StateType'
      BY <1>6 DEF DeleteDeployment, StateType, store, host, history
    <2>3. deps[d].n \in 0..MaxReplicas /\ 0 \in 0..MaxReplicas
      BY <2>1
    <2>4. PICK ps :
            /\ ps = Range_(d, 0, deps[d].n)
            /\ Accept(c, Each(<<"stop">>, ps) \o Each(<<"unlink">>, ps) \o Each(<<"drop">>, ps)
                           \o <<[do |-> <<"dropDep">>, dep |-> d]>>)
      BY <1>6, Zenon DEF DeleteDeployment
    <2>5. ps \in Seq(Pods)
      BY <2>3, <2>4, RangeIs, Zenon
    <2>6. [do |-> <<"dropDep">>, dep |-> d] \in TasksOf(c)
      BY <1>0 DEF TasksOf, ClientTasks
    <2>7. <<[do |-> <<"dropDep">>, dep |-> d]>> \in Seq(TasksOf(c))
      BY <2>6, OneElement, Zenon
    <2>8. Each(<<"stop">>, ps) \o Each(<<"unlink">>, ps) \o Each(<<"drop">>, ps)
            \o <<[do |-> <<"dropDep">>, dep |-> d]>> \in Seq(TasksOf(c))
      BY <1>0, <2>5, <2>7, TwoRounds, Joined, Zenon
    <2>. QED
      BY <2>2, <2>4, <2>8, AcceptType, Zenon
  <1>7. ASSUME PostNamespace(c) PROVE TypeInv'
    <2>1. StateType' /\ <<>> \in Seq(TasksOf(c))
      BY <1>7 DEF PostNamespace, StateType, host, history
    <2>. QED
      BY <1>7, <2>1, AcceptType, Zenon DEF PostNamespace
  <1>8. ASSUME DeleteNamespace(c) PROVE TypeInv'
    <2>1. StateType'
      BY <1>8 DEF DeleteNamespace, StateType, store, host, history
    <2>2. PICK ps \in Orders({p \in Pods : Stored(p)}) :
            Accept(c, Each(<<"stop", "unlink">>, ps)
                        \o <<[do |-> <<"purgeDeps", "purge", "dropNs">>]>>)
      BY <1>8, Zenon DEF DeleteNamespace
    <2>3. ps \in Seq(Pods)
      <3>1. PICK Y \in SUBSET Pods : Y = {p \in Pods : Stored(p)}
        OBVIOUS
      <3>2. ps \in Orders(Y)
        BY <3>1
      <3>. QED
        BY <3>2, PodOrders
    <2>4. <<"stop", "unlink">> \in Goes
      BY DEF Goes, Stops
    <2>5. Each(<<"stop", "unlink">>, ps) \in Seq(TasksOf(c))
      BY <1>0, <2>3, <2>4, EachIs, ClientParts, Zenon
    <2>6. [do |-> <<"purgeDeps", "purge", "dropNs">>] \in TasksOf(c)
      BY <1>0 DEF TasksOf, ClientTasks, Purges, PurgeAll
    <2>7. <<[do |-> <<"purgeDeps", "purge", "dropNs">>]>> \in Seq(TasksOf(c))
      BY <2>6, OneElement, Zenon
    <2>8. Each(<<"stop", "unlink">>, ps) \o <<[do |-> <<"purgeDeps", "purge", "dropNs">>]>>
            \in Seq(TasksOf(c))
      BY <2>5, <2>7, Joined, Zenon
    <2>. QED
      BY <2>1, <2>2, <2>8, AcceptType, Zenon
  <1>. QED
    BY <1>1, <1>2, <1>3, <1>4, <1>5, <1>6, <1>7, <1>8 DEF Request

LEMMA ListOwnedType ==
  ASSUME TypeInv, ListOwned
  PROVE  TypeInv'
  <1> USE TypeParts, TypePartsNext
  <1>1. StateType'
    BY DEF ListOwned, StateType, store, host, history
  <1>9. PICK seen \in SUBSET Pods :
          \E ps \in Orders(seen) :
            todo' = [todo EXCEPT ![Main] =
                       Each(<<"ns", "dep", "pod">>, ps) \o <<[do |-> <<"allPods">>, seen |-> seen]>>]
    BY DEF ListOwned
  <1>2. PICK ps \in Orders(seen) :
          todo' = [todo EXCEPT ![Main] =
                     Each(<<"ns", "dep", "pod">>, ps) \o <<[do |-> <<"allPods">>, seen |-> seen]>>]
    BY <1>9
  <1>3. ps \in Seq(Pods) /\ Main \in Actors
    BY PodOrders DEF Actors
  <1>4. PodTasks({<<"ns", "dep", "pod">>}) \subseteq TasksOf(Main)
    BY DEF TasksOf, MainTasks, PodTasks, Mains, Imports
  <1>5. Each(<<"ns", "dep", "pod">>, ps) \in Seq(TasksOf(Main))
    <2>1. Seq(PodTasks({<<"ns", "dep", "pod">>})) \subseteq Seq(TasksOf(Main))
      BY <1>4, SeqWiden
    <2>2. Each(<<"ns", "dep", "pod">>, ps) \in Seq(PodTasks({<<"ns", "dep", "pod">>}))
      BY <1>3, EachIs
    <2>. QED
      BY <2>1, <2>2
  <1>6. [do |-> <<"allPods">>, seen |-> seen] \in TasksOf(Main)
    BY DEF TasksOf, MainTasks
  <1>7. <<[do |-> <<"allPods">>, seen |-> seen]>> \in Seq(TasksOf(Main))
    BY <1>6, OneElement, Zenon
  <1>8. Each(<<"ns", "dep", "pod">>, ps) \o <<[do |-> <<"allPods">>, seen |-> seen]>>
          \in Seq(TasksOf(Main))
    BY <1>5, <1>7, Joined, Zenon
  <1>. QED
    BY <1>1, <1>2, <1>3, <1>8, NewList, Zenon

LEMMA BootType == Boot \in Seq(TasksOf(Main))
  <1>1. [do |-> <<"bootDeps">>] \in TasksOf(Main) /\ [do |-> <<"bootPods">>] \in TasksOf(Main)
    BY DEF TasksOf, MainTasks
  <1>2. PICK S : S = TasksOf(Main)
    OBVIOUS
  <1>3. PICK x \in S, y \in S : x = [do |-> <<"bootDeps">>] /\ y = [do |-> <<"bootPods">>]
    BY <1>1, <1>2
  <1>4. <<x, y>> \in Seq(S)
    BY <1>3
  <1>. QED
    BY <1>2, <1>3, <1>4, Zenon DEF Boot

LEMMA CrashType ==
  ASSUME TypeInv, Crash \/ Restart
  PROVE  TypeInv'
  <1> USE TypeParts, TypePartsNext
  <1>1. StateType'
    BY DEF Crash, Restart, StateType, store, host, history
  <1>2. ASSUME Crash PROVE TodoType'
    BY <1>2 DEF Crash, TodoType
  <1>3. ASSUME Restart PROVE TodoType'
    <2>1. Main \in Actors /\ todo' = [todo EXCEPT ![Main] = Boot]
      BY <1>3 DEF Restart, Actors
    <2>. QED
      BY <2>1, BootType, NewList, Zenon
  <1>. QED
    BY <1>1, <1>2, <1>3

LEMMA TypeInit ==
  ASSUME Init
  PROVE  TypeInv
  <1>1. StateType
    BY DEF Init, StateType
  <1>2. todo = [a \in Actors |-> IF a = Main /\ CanCrash THEN Boot ELSE <<>>]
    BY DEF Init
  <1>3. \A a \in Actors : todo[a] \in Seq(TasksOf(a)) /\ TasksOf(a) \subseteq ClientTasks \cup MainTasks
    BY <1>2, BootType, TasksOfActors
  <1>4. \A a \in Actors : todo[a] \in Seq(ClientTasks \cup MainTasks)
    BY <1>3, SeqWiden
  <1>5. todo \in [Actors -> Seq(ClientTasks \cup MainTasks)]
    BY <1>2, <1>4
  <1>. QED
    BY <1>1, <1>3, <1>5, TypeParts DEF TodoType

LEMMA StepTypes ==
  ASSUME TypeInv, NEW a \in Actors, Step(a) \/ Fails(a)
  PROVE  TypeInv'
  BY PodStepTypes, WriteType, RewriteType, DepStepTypes, ListStepTypes DEF Step, Fails

LEMMA TypeNext ==
  ASSUME TypeInv, [Next]_vars
  PROVE  TypeInv'
  <1>1. ASSUME Next PROVE TypeInv'
    BY <1>1, RequestTypes, StepTypes, ListOwnedType, CrashType DEF Next
  <1>2. ASSUME UNCHANGED vars PROVE TypeInv'
    BY <1>2, TypeParts, TypePartsNext
       DEF vars, store, host, history, StateType, TodoType
  <1>. QED
    BY <1>1, <1>2

(* Every task is of its actor and of its kind: requests deploy, change or  *)
(* take away, startup heals, a pass imports and prunes.  A stage is never  *)
(* left without the pod, Deployment or template it works on.               *)
THEOREM WorkloadsTypeInv == Spec => []TypeInv
  <1>1. Init => TypeInv
    BY TypeInit
  <1>2. TypeInv /\ [Next]_vars => TypeInv'
    BY TypeNext
  <1>. QED
    BY <1>1, <1>2, PTL DEF Spec

LEMMA DosAreStages ==
  ASSUME NEW a \in Actors, NEW x \in TasksOf(a)
  PROVE  x.do # <<>> /\ ToSet(x.do) \subseteq Stages
  <1>1. /\ \A u : ToSet(<<u>>) = {u}
        /\ \A u, v : ToSet(<<u, v>>) = {u, v}
        /\ \A u, v, w : ToSet(<<u, v, w>>) = {u, v, w}
    BY DEF ToSet
  <1>2. \A do \in AllDos : do # <<>> /\ ToSet(do) \subseteq Stages
    BY <1>1 DEF AllDos, Stages, Deploys, Goes, Writes, Written, Synced, Created, Starts, Restarts,
           Syncs, Replaces, Stops, Unlinks, Drops, Mains, Heals, Imports, Prunes
  <1>3. \A do \in {<<"update">>, <<"dropDep">>, <<"remove">>, <<"restore">>, <<"bootDeps">>,
                   <<"bootPods">>, <<"allPods">>} \cup Purges \cup {<<"dropNs">>} :
          do # <<>> /\ ToSet(do) \subseteq Stages
    BY <1>1, SMTT(30) DEF Stages, Purges, PurgeAll
  <1>4. x \in ClientTasks \/ x \in MainTasks
    BY DEF TasksOf
  <1>5. x \in ClientTasks => x.do \in AllDos \cup {<<"update">>, <<"dropDep">>, <<"remove">>}
                                  \cup Purges \cup {<<"dropNs">>}
    BY DEF ClientTasks, PodTasks, DepTasks, Updates, AllDos
  <1>6. x \in MainTasks => x.do \in AllDos \cup {<<"restore">>, <<"bootDeps">>, <<"bootPods">>, <<"allPods">>}
    BY DEF MainTasks, PodTasks, DepTasks, AllDos
  <1>. QED
    BY <1>2, <1>3, <1>4, <1>5, <1>6

(* TypeOK holds however many clients call at once, in any order, whatever  *)
(* fails, and wherever q8s dies.                                           *)
THEOREM WorkloadsTypeCorrect == Spec => []TypeOK
  <1>1. TypeInv => TypeOK
    <2> SUFFICES ASSUME TypeInv PROVE TypeOK
      OBVIOUS
    <2>1. TodoType /\ StateType
      BY TypeParts
    <2>2. DOMAIN todo = Actors
      BY <2>1 DEF TodoType
    <2>3. ASSUME NEW a \in Actors, NEW j \in DOMAIN todo[a]
          PROVE  todo[a][j].do # <<>> /\ ToSet(todo[a][j].do) \subseteq Stages
      <3>1. todo[a][j] \in TasksOf(a)
        BY <2>1, <2>3 DEF TodoType
      <3>. QED
        BY <3>1, DosAreStages
    <2>. QED
      BY <2>1, <2>2, <2>3 DEF TypeOK, StateType
  <1>. QED
    BY <1>1, WorkloadsTypeInv, PTL

---------------------------------------------------------------------------
(* What a step leaves of a list                                            *)

HIDE NamesAssumption

LaterWork(a, dos, p) == \E j \in 2..Len(todo[a]) : Does(a, j, dos) /\ todo[a][j].pod = p
LaterOn(a, dos, d) == \E j \in 2..Len(todo[a]) : Does(a, j, dos) /\ todo[a][j].dep = d
LaterBusy(a, dos) == \E j \in 2..Len(todo[a]) : Does(a, j, dos)

LEMMA WorkIs ==
  ASSUME TodoType, NEW a \in Actors, NEW s, Doing(a, s), NEW dos
  PROVE  /\ \A p : Work(a, dos, p) <=>
                     (Task(a).do \in dos /\ Task(a).pod = p) \/ LaterWork(a, dos, p)
         /\ \A d : WorkOn(a, dos, d) <=>
                     (Task(a).do \in dos /\ Task(a).dep = d) \/ LaterOn(a, dos, d)
         /\ Busy(a, dos) <=> Task(a).do \in dos \/ LaterBusy(a, dos)
  <1>1. /\ DOMAIN todo[a] = 1..Len(todo[a]) /\ Len(todo[a]) \in Nat \ {0}
        /\ Task(a) = todo[a][1]
    BY FirstTask
  <1>2. \A j : j \in DOMAIN todo[a] <=> j = 1 \/ j \in 2..Len(todo[a])
    BY <1>1
  <1>3. Does(a, 1, dos) <=> Task(a).do \in dos
    BY <1>1 DEF Does
  <1>. QED
    BY <1>1, <1>2, <1>3, Zenon DEF Work, WorkOn, Busy, LaterWork, LaterOn, LaterBusy

(* A pod goes on with the stages do, or is done with when there are none. *)
LEMMA ContinueAt ==
  ASSUME TodoType, NEW a \in Actors, NEW s \in PodStages, Doing(a, s),
         NEW do \in DosOf(a) \cup {<<>>}, Continue(a, do, <<>>)
  PROVE  /\ \A b \in Actors \ {a} : todo'[b] = todo[b]
         /\ do # <<>> => /\ Len(todo'[a]) = Len(todo[a])
                         /\ todo'[a][1].do = do /\ todo'[a][1].pod = Task(a).pod
                         /\ todo'[a][1].t = Task(a).t
                         /\ \A j \in 2..Len(todo[a]) : todo'[a][j] = todo[a][j]
         /\ do = <<>> => /\ Len(todo'[a]) = Len(todo[a]) - 1
                         /\ \A j \in 1..(Len(todo[a]) - 1) : todo'[a][j] = todo[a][j + 1]
         /\ DOMAIN todo'[a] = 1..Len(todo'[a])
  <1>1. todo' = [todo EXCEPT ![a] = Rest(todo[a], do, <<>>)]
    BY ContinueIs, Zenon
  <1>2. todo[a] \in Seq(TasksOf(a)) /\ todo[a] # <<>> /\ Task(a) = Head(todo[a]) /\ Task(a) = todo[a][1]
    BY FirstTask DEF Task
  <1>3. CASE do = <<>>
    <2>1. Rest(todo[a], <<>>, <<>>) \in Seq(TasksOf(a))
          /\ Len(Rest(todo[a], <<>>, <<>>)) = Len(todo[a]) - 1
          /\ \A j \in 1..(Len(todo[a]) - 1) : Rest(todo[a], <<>>, <<>>)[j] = todo[a][j + 1]
      BY <1>2, RestTail, Zenon
    <2>2. todo'[a] = Rest(todo[a], <<>>, <<>>) /\ \A b \in Actors \ {a} : todo'[b] = todo[b]
      BY <1>1, <1>3, <2>1, NewList, Zenon
    <2>3. todo'[a] \in Seq(TasksOf(a))
      BY <2>1, <2>2
    <2>4. DOMAIN todo'[a] = 1..Len(todo'[a])
      BY <2>3
    <2>. QED
      BY <1>3, <2>1, <2>2, <2>4, Zenon
  <1>4. CASE do # <<>>
    <2>1. PICK x \in TasksOf(a) : x = [Task(a) EXCEPT !.do = do]
      BY <1>4, PodStage
    <2>2. Rest(todo[a], do, <<>>) \in Seq(TasksOf(a))
          /\ Len(Rest(todo[a], do, <<>>)) = Len(todo[a])
          /\ Rest(todo[a], do, <<>>)[1] = x
          /\ \A j \in 2..Len(todo[a]) : Rest(todo[a], do, <<>>)[j] = todo[a][j]
      <3>1. [Head(todo[a]) EXCEPT !.do = do] \in TasksOf(a)
        BY <1>2, <2>1
      <3>2. [todo[a][1] EXCEPT !.do = do] = x
        BY <1>2, <2>1, Zenon
      <3>3. Rest(todo[a], do, <<>>) \in Seq(TasksOf(a))
            /\ Len(Rest(todo[a], do, <<>>)) = Len(todo[a])
            /\ Rest(todo[a], do, <<>>)[1] = [todo[a][1] EXCEPT !.do = do]
            /\ \A j \in 2..Len(todo[a]) : Rest(todo[a], do, <<>>)[j] = todo[a][j]
        <4>1. todo[a] \in Seq(TasksOf(a)) /\ todo[a] # <<>>
          BY <1>2
        <4>4. PICK S : S = TasksOf(a)
          OBVIOUS
        <4>2. PICK q \in Seq(S) : q = todo[a]
          BY <4>1, <4>4, Zenon
        <4>3. [Head(q) EXCEPT !.do = do] \in S /\ q # <<>>
          BY <3>1, <4>1, <4>2, <4>4, Zenon
        <4>5. /\ Rest(q, do, <<>>) \in Seq(S) /\ Len(Rest(q, do, <<>>)) = Len(q)
              /\ Rest(q, do, <<>>)[1] = [q[1] EXCEPT !.do = do]
              /\ \A j \in 2..Len(q) : Rest(q, do, <<>>)[j] = q[j]
          BY <1>4, <4>2, <4>3, RestOn
        <4>. QED
          BY <4>2, <4>4, <4>5, Zenon
      <3>. QED
        BY <3>2, <3>3, Zenon
    <2>3. todo'[a] = Rest(todo[a], do, <<>>) /\ \A b \in Actors \ {a} : todo'[b] = todo[b]
      BY <1>1, <2>2, NewList, Zenon
    <2>4. Task(a) \in PodTasks(DosOf(a))
      BY PodStage
    <2>5. x.do = do /\ x.pod = Task(a).pod /\ x.t = Task(a).t
      BY <2>1, <2>4 DEF PodTasks
    <2>6. todo'[a] \in Seq(TasksOf(a))
      BY <2>2, <2>3
    <2>7. DOMAIN todo'[a] = 1..Len(todo'[a])
      BY <2>6
    <2>. QED
      BY <1>4, <2>2, <2>3, <2>5, <2>7, Zenon
  <1>. QED
    BY <1>3, <1>4

LEMMA WorkGoesOn ==
  ASSUME TodoType, NEW a \in Actors, NEW s \in PodStages, Doing(a, s),
         NEW do \in DosOf(a) \cup {<<>>}, Continue(a, do, <<>>),
         NEW dos, <<>> \notin dos
  PROVE  /\ \A p : Work(a, dos, p)' <=>
                     (do \in dos /\ Task(a).pod = p) \/ LaterWork(a, dos, p)
         /\ do \notin dos => \A d : WorkOn(a, dos, d)' <=> LaterOn(a, dos, d)
         /\ Busy(a, dos)' <=> do \in dos \/ LaterBusy(a, dos)
  <1> DEFINE q == todo[a]
             r == todo'[a]
  <1>1. Len(q) \in Nat \ {0}
    BY FirstTask
  <1>2. /\ do # <<>> => /\ Len(r) = Len(q) /\ r[1].do = do /\ r[1].pod = Task(a).pod
                        /\ \A j \in 2..Len(q) : r[j] = q[j]
        /\ do = <<>> => Len(r) = Len(q) - 1 /\ \A j \in 1..(Len(q) - 1) : r[j] = q[j + 1]
        /\ DOMAIN r = 1..Len(r)
    BY ContinueAt, Zenon
  <1> HIDE DEF q, r
  <1>3. CASE do = <<>>
    <2>1. \A j \in 1..(Len(q) - 1) : j + 1 \in 2..Len(q) /\ r[j] = q[j + 1]
      BY <1>1, <1>2, <1>3
    <2>2. \A j \in 2..Len(q) : j - 1 \in 1..(Len(q) - 1) /\ r[j - 1] = q[j]
      <3> SUFFICES ASSUME NEW j \in 2..Len(q) PROVE j - 1 \in 1..(Len(q) - 1) /\ r[j - 1] = q[j]
        OBVIOUS
      <3>1. j - 1 \in 1..(Len(q) - 1) /\ (j - 1) + 1 = j
        BY <1>1
      <3>. QED
        BY <2>1, <3>1
    <2>7. DOMAIN r = 1..(Len(q) - 1)
      BY <1>2, <1>3
    <2>3. /\ \A j \in DOMAIN r : \E i \in 2..Len(q) : r[j] = q[i]
          /\ \A i \in 2..Len(q) : \E j \in DOMAIN r : r[j] = q[i]
      BY <2>1, <2>2, <2>7, Zenon
    <2>4. \A p : (\E j \in DOMAIN r : r[j].do \in dos /\ r[j].pod = p)
                   <=> \E j \in 2..Len(q) : q[j].do \in dos /\ q[j].pod = p
      <3> TAKE p
      <3>1. ASSUME NEW j \in DOMAIN r, r[j].do \in dos /\ r[j].pod = p
            PROVE  \E i \in 2..Len(q) : q[i].do \in dos /\ q[i].pod = p
        BY <2>3, <3>1
      <3>2. ASSUME NEW i \in 2..Len(q), q[i].do \in dos /\ q[i].pod = p
            PROVE  \E j \in DOMAIN r : r[j].do \in dos /\ r[j].pod = p
        BY <2>3, <3>2
      <3>. QED
        BY <3>1, <3>2, Zenon
    <2>5. \A d : (\E j \in DOMAIN r : r[j].do \in dos /\ r[j].dep = d)
                   <=> \E j \in 2..Len(q) : q[j].do \in dos /\ q[j].dep = d
      <3> TAKE d
      <3>1. ASSUME NEW j \in DOMAIN r, r[j].do \in dos /\ r[j].dep = d
            PROVE  \E i \in 2..Len(q) : q[i].do \in dos /\ q[i].dep = d
        BY <2>3, <3>1
      <3>2. ASSUME NEW i \in 2..Len(q), q[i].do \in dos /\ q[i].dep = d
            PROVE  \E j \in DOMAIN r : r[j].do \in dos /\ r[j].dep = d
        BY <2>3, <3>2
      <3>. QED
        BY <3>1, <3>2, Zenon
    <2>6. (\E j \in DOMAIN r : r[j].do \in dos) <=> \E j \in 2..Len(q) : q[j].do \in dos
      BY <2>3, Zenon
    <2>. QED
      BY <1>3, <2>4, <2>5, <2>6, Zenon
         DEF Work, WorkOn, Busy, LaterWork, LaterOn, LaterBusy, Does, q, r
  <1>4. CASE do # <<>>
    <2>3. DOMAIN r = 1..Len(q)
      BY <1>2, <1>4, ZenonT(40)
    <2>1. \A j : j \in DOMAIN r <=> j = 1 \/ j \in 2..Len(q)
      BY <1>1, <2>3, SMTT(30)
    <2>2. r[1].do = do /\ r[1].pod = Task(a).pod /\ \A j \in 2..Len(q) : r[j] = q[j]
      BY <1>2, <1>4
    <2>4. \A p : (\E j \in DOMAIN r : r[j].do \in dos /\ r[j].pod = p)
                   <=> (do \in dos /\ Task(a).pod = p)
                       \/ \E j \in 2..Len(q) : q[j].do \in dos /\ q[j].pod = p
      BY <2>1, <2>2, Zenon
    <2>5. do \notin dos => \A d : (\E j \in DOMAIN r : r[j].do \in dos /\ r[j].dep = d)
                   <=> \E j \in 2..Len(q) : q[j].do \in dos /\ q[j].dep = d
      BY <2>1, <2>2, Zenon
    <2>6. (\E j \in DOMAIN r : r[j].do \in dos)
            <=> do \in dos \/ \E j \in 2..Len(q) : q[j].do \in dos
      BY <2>1, <2>2, Zenon
    <2>. QED
      BY <2>4, <2>5, <2>6, Zenon
         DEF Work, WorkOn, Busy, LaterWork, LaterOn, LaterBusy, Does, q, r
  <1>. QED
    BY <1>3, <1>4

---------------------------------------------------------------------------
(* How a client's pod goes from one stage to the next                      *)

SyncDos == Syncs \cup Synced \cup Created

LEMMA Kinds ==
  /\ <<>> \notin AllDos /\ <<>> \notin Finals \cup {<<"remove">>, <<"update">>, <<"bootDeps">>, <<"bootPods">>, <<"restore">>}
  /\ \A do \in Deploys : do \notin Goes
  /\ \A do \in Writes : do \notin Written
  /\ \A do \in Deploys \cup Goes : do \notin Heals \cup Imports \cup Prunes
  /\ \A do \in AllDos : do \notin Finals \cup {<<"remove">>, <<"update">>, <<"restore">>, <<"bootDeps">>,
                                               <<"bootPods">>, <<"allPods">>}
  <1>1. \A x, y : <<x>> # <<>> /\ <<x, y>> # <<>>
    OBVIOUS
  <1>2. <<>> \notin AllDos
    BY DEF AllDos, Deploys, Writes, Written, Synced, Created, Starts, Restarts, Syncs, Replaces,
           Goes, Stops, Unlinks, Drops, Mains, Heals, Imports, Prunes
  <1>3. <<>> \notin Finals \cup {<<"remove">>, <<"update">>, <<"bootDeps">>, <<"bootPods">>, <<"restore">>}
    BY DEF Finals, Purges, PurgeAll
  <1>4. \A do \in Deploys : do \notin Goes
    BY DEF Deploys, Writes, Written, Synced, Created, Starts, Restarts, Syncs, Replaces,
           Goes, Stops, Unlinks, Drops
  <1>5. \A do \in Writes : do \notin Written
    BY DEF Writes, Written, Synced, Created, Starts, Restarts, Syncs, Replaces
  <1>6. \A do \in Deploys \cup Goes : do \notin Heals \cup Imports \cup Prunes
    BY NotAClients
  <1>7. ASSUME NEW do \in AllDos
        PROVE  do \notin Finals \cup {<<"remove">>, <<"update">>, <<"restore">>, <<"bootDeps">>,
                                      <<"bootPods">>, <<"allPods">>}
    <2>1. Head(do) \notin {"update", "dropDep", "purgeDeps", "remove", "purge", "dropNs",
                           "bootDeps", "restore", "bootPods", "allPods"}
      BY Heads
    <2>. QED
      BY <2>1, PlainHeads DEF Finals
  <1>. QED
    BY <1>2, <1>3, <1>4, <1>5, <1>6, <1>7

(* What the stages left of a pod tell of those left before. *)
StepsTo(do, e) ==
  /\ do \in Deploys => e \in Deploys \cup {<<>>}
  /\ do \in Goes => e \in Goes \cup {<<>>}
  /\ e \in SyncDos => do \in SyncDos
  /\ e \in Drops => do \in Drops
  /\ e \in Stops \cup Unlinks => do \in Stops \cup Unlinks
  /\ e \in Unlinks => do \in Unlinks
  /\ e \in Stops \cup Unlinks /\ do \in Drops => e \in Drops
  /\ e \notin Writes /\ e \notin Stops /\ e \notin Fresh

LEMMA EndSteps == \A do : StepsTo(do, <<>>)
  BY Kinds DEF StepsTo, AllDos, Goes, Deploys, SyncDos, Writes, Written, Fresh, Syncs, Replaces

LEMMA NotFirst ==
  /\ \A y : \A x \in {"sync", "create", "start", "restart", "unlink", "drop"} :
       <<x>> \notin Writes \cup Stops \cup Fresh /\ <<x, y>> \notin Writes \cup Stops \cup Fresh
  /\ \A x \in {"start", "restart", "unlink", "drop"} : <<x>> \notin SyncDos
  /\ \A x \in {"start", "restart", "drop"} : <<x>> \notin Stops \cup Unlinks
  /\ <<"unlink", "drop">> \notin SyncDos
  /\ \A x \in {"start", "restart", "sync", "create", "unlink", "stop"} : <<x>> \notin Drops
  /\ \A y : \A x \in {"sync", "create"} : <<x, y>> \notin Drops \cup Stops \cup Unlinks
  /\ <<"sync">> \notin Stops \cup Unlinks /\ <<"create">> \notin Stops \cup Unlinks
  BY DEF Writes, Fresh, Syncs, Replaces, Stops, Unlinks, Drops, SyncDos, Synced, Created

LEMMA DeploySteps ==
  ASSUME NEW do \in Deploys, NEW e,
         \/ e = Tail(do)
         \/ do \in Writes /\ \E ch \in BOOLEAN : e = AfterWrite(do, ch)
         \/ do \in Synced /\ e = <<"create">> \o Tail(do)
  PROVE  StepsTo(do, e) /\ e \in Written \cup {<<>>}
  <1>1. CASE e = <<>>
    BY <1>1, EndSteps
  <1>2. ASSUME e \in Written PROVE e \in Deploys /\ e \notin Goes
    BY <1>2, Kinds DEF Deploys
  <1>3. do \notin Goes
    BY Kinds
  <1>4. \A x \in Written : x \notin Writes /\ x \notin Stops /\ x \notin Fresh /\ x \notin Drops /\ x \notin Unlinks
    BY Kinds DEF Deploys, Goes, Fresh, Writes, Syncs, Replaces
  <1>5. do \in Writes \/ do \in Synced \/ do \in Created \/ do \in Starts \/ do \in Restarts
    BY DEF Deploys, Written
  <1>6. CASE e \in Written /\ do \in SyncDos
    BY <1>2, <1>3, <1>4, <1>6 DEF StepsTo
  <1>7. CASE e \in {<<"start">>, <<"restart">>}
    <2>1. e \in Written /\ e \notin SyncDos
      BY <1>7, NotFirst DEF Written, Starts, Restarts
    <2>. QED
      BY <1>2, <1>3, <1>4, <2>1 DEF StepsTo
  <1>8. /\ Tail(<<"write", "sync", "start">>) = <<"sync", "start">>
        /\ Tail(<<"write", "sync", "restart">>) = <<"sync", "restart">>
        /\ Tail(<<"write", "start">>) = <<"start">>
        /\ Tail(<<"write", "restart">>) = <<"restart">>
        /\ Tail(<<"sync", "start">>) = <<"start">>
        /\ Tail(<<"create", "start">>) = <<"start">>
        /\ Tail(<<"sync", "restart">>) = <<"restart">>
        /\ Tail(<<"create", "restart">>) = <<"restart">>
        /\ \A x : Tail(<<x>>) = <<>>
    BY ShortTails
  <1>9. do \in Syncs \cup Synced \cup Created => do \in SyncDos
    BY DEF SyncDos
  <1>10. CASE e = Tail(do)
    <2>1. do \in Syncs => e \in Written
      BY <1>8, <1>10, Zenon DEF Syncs, Written, Starts, Restarts
    <2>2. do \in Replaces => e \in {<<"start">>, <<"restart">>}
      BY <1>8, <1>10, Zenon DEF Replaces
    <2>3. do \in Synced \cup Created => e \in {<<"start">>, <<"restart">>, <<>>}
      BY <1>8, <1>10, Zenon DEF Synced, Created
    <2>4. do \in Starts \cup Restarts => do \in Synced \cup Created \/ e = <<>>
      BY <1>8, <1>10, Zenon DEF Synced, Created, Starts, Restarts
    <2>. QED
      BY <1>1, <1>5, <1>6, <1>7, <1>9, <2>1, <2>2, <2>3, <2>4, Zenon DEF Writes
  <1>11. ASSUME do \in Writes, NEW ch \in BOOLEAN, e = AfterWrite(do, ch)
         PROVE  StepsTo(do, e) /\ e \in Written \cup {<<>>}
    <2>1. do \in Syncs => e \in Written
      BY <1>11, AfterWrites, Zenon DEF Syncs, Written, Starts, Restarts, Synced
    <2>2. do \in Replaces => e \in {<<"start">>, <<"restart">>, <<>>}
      BY <1>11, AfterWrites, Zenon DEF Replaces
    <2>. QED
      BY <1>1, <1>6, <1>7, <1>9, <1>11, <2>1, <2>2, Zenon DEF Writes
  <1>12. CASE do \in Synced /\ e = <<"create">> \o Tail(do)
    <2>1. /\ <<"create">> \o <<"start">> = <<"create", "start">>
          /\ <<"create">> \o <<"restart">> = <<"create", "restart">>
          /\ <<"create">> \o <<>> = <<"create">>
      BY SecondStage, Zenon
    <2>2. e \in Created
      <3>1. do = <<"sync", "start">> => e = <<"create", "start">>
        BY <1>8, <1>12, <2>1, Zenon
      <3>2. do = <<"sync", "restart">> => e = <<"create", "restart">>
        BY <1>8, <1>12, <2>1, Zenon
      <3>3. do = <<"sync">> => e = <<"create">>
        BY <1>8, <1>12, <2>1, Zenon
      <3>. QED
        BY <1>12, <3>1, <3>2, <3>3, Zenon DEF Synced, Created
    <2>. QED
      BY <1>6, <1>9, <1>12, <2>2 DEF Written
  <1>. QED
    BY <1>10, <1>11, <1>12

LEMMA GoSteps ==
  ASSUME NEW do \in Goes
  PROVE  StepsTo(do, Tail(do)) /\ Tail(do) \notin Written
  <1>1. /\ Tail(<<"stop", "unlink", "drop">>) = <<"unlink", "drop">>
        /\ Tail(<<"stop", "unlink">>) = <<"unlink">>
        /\ Tail(<<"unlink", "drop">>) = <<"drop">>
        /\ \A x : Tail(<<x>>) = <<>>
    BY ShortTails
  <1>2. PICK e : e = Tail(do)
    OBVIOUS
  <1>3. do \notin Deploys /\ (e \in Goes => e \notin Deploys)
    BY Kinds
  <1>4. CASE do = <<"stop", "unlink", "drop">>
    <2>1. e = <<"unlink", "drop">>
      BY <1>1, <1>2, <1>4
    <2>2. e \in Drops /\ do \in Drops /\ e \in Unlinks /\ do \in Unlinks /\ e \notin SyncDos
          /\ e \notin Writes /\ e \notin Stops /\ e \notin Fresh
      BY <1>4, <2>1, NotFirst, Zenon DEF Drops, Unlinks
    <2>. QED
      BY <1>2, <1>3, <2>2 DEF StepsTo, Goes, Deploys
  <1>5. CASE do = <<"stop", "unlink">>
    <2>1. e = <<"unlink">>
      BY <1>1, <1>2, <1>5
    <2>2. e \notin Drops /\ e \in Unlinks /\ do \in Unlinks /\ e \notin SyncDos
          /\ e \notin Writes /\ e \notin Stops /\ e \notin Fresh
      BY <1>5, <2>1, NotFirst, Zenon DEF Unlinks
    <2>3. do \notin Drops
      BY <1>5 DEF Drops
    <2>. QED
      BY <1>2, <1>3, <2>2, <2>3 DEF StepsTo, Goes, Deploys
  <1>6. CASE do = <<"unlink", "drop">>
    <2>1. e = <<"drop">>
      BY <1>1, <1>2, <1>6
    <2>2. e \in Drops /\ do \in Drops /\ e \notin Stops \cup Unlinks /\ e \notin SyncDos
          /\ e \notin Writes /\ e \notin Stops /\ e \notin Fresh
      BY <1>6, <2>1, NotFirst, Zenon DEF Drops
    <2>. QED
      BY <1>2, <1>3, <2>2 DEF StepsTo, Goes, Deploys
  <1>7. CASE \E x : do = <<x>>
    <2>1. e = <<>>
      BY <1>1, <1>2, <1>7
    <2>. QED
      <3>1. <<>> \notin Written
        BY Kinds DEF AllDos, Deploys
      <3>2. StepsTo(do, <<>>)
        BY EndSteps
      <3>. QED
        BY <1>2, <2>1, <3>1, <3>2
  <1>. QED
    BY <1>4, <1>5, <1>6, <1>7, Zenon DEF Goes, Stops, Unlinks, Drops

(* Every task of the list a step leaves comes from one of the list before. *)
LEMMA Origins ==
  ASSUME TodoType, NEW a \in Actors, NEW s \in PodStages, Doing(a, s),
         NEW e \in DosOf(a) \cup {<<>>}, Continue(a, e, <<>>)
  PROVE  \E h \in [DOMAIN todo'[a] -> DOMAIN todo[a]] :
           /\ \A i, j \in DOMAIN todo'[a] : i < j => h[i] < h[j]
           /\ \A j \in DOMAIN todo'[a] : h[j] = Len(todo[a]) => j = Len(todo'[a])
           /\ \A j \in DOMAIN todo'[a] :
                \/ todo'[a][j] = todo[a][h[j]]
                \/ /\ h[j] = 1 /\ todo'[a][j].do = e
                   /\ todo'[a][j].pod = Task(a).pod /\ todo'[a][j].t = Task(a).t
  <1> DEFINE q == todo[a]
             r == todo'[a]
  <1>1. Len(q) \in Nat \ {0} /\ DOMAIN q = 1..Len(q)
    BY FirstTask
  <1>2. /\ e # <<>> => /\ Len(r) = Len(q) /\ r[1].do = e /\ r[1].pod = Task(a).pod
                       /\ r[1].t = Task(a).t /\ \A j \in 2..Len(q) : r[j] = q[j]
        /\ e = <<>> => Len(r) = Len(q) - 1 /\ \A j \in 1..(Len(q) - 1) : r[j] = q[j + 1]
        /\ DOMAIN r = 1..Len(r)
    BY ContinueAt, Zenon
  <1> DEFINE Came(h) == /\ \A i, j \in DOMAIN r : i < j => h[i] < h[j]
                        /\ \A j \in DOMAIN r : h[j] = Len(q) => j = Len(r)
                        /\ \A j \in DOMAIN r :
                             \/ r[j] = q[h[j]]
                             \/ /\ h[j] = 1 /\ r[j].do = e
                                /\ r[j].pod = Task(a).pod /\ r[j].t = Task(a).t
  <1> HIDE DEF q, r
  <1>3. CASE e = <<>>
    <2>1. DOMAIN r = 1..(Len(q) - 1) /\ Len(r) = Len(q) - 1
      BY <1>2, <1>3
    <2>2. PICK h : h = [j \in DOMAIN r |-> j + 1]
      OBVIOUS
    <2>3. h \in [DOMAIN r -> DOMAIN q] /\ \A j \in DOMAIN r : h[j] = j + 1
      BY <1>1, <2>1, <2>2
    <2>4. \A j \in DOMAIN r : r[j] = q[h[j]]
      BY <1>2, <1>3, <2>1, <2>3
    <2>5. Came(h)
      BY <1>1, <2>1, <2>3, <2>4, SMTT(30)
    <2>. QED
      BY <2>3, <2>5 DEF q, r
  <1>4. CASE e # <<>>
    <2>1. DOMAIN r = 1..Len(q) /\ Len(r) = Len(q) /\ DOMAIN r = DOMAIN q
      BY <1>1, <1>2, <1>4
    <2>2. PICK h : h = [j \in DOMAIN r |-> j]
      OBVIOUS
    <2>3. h \in [DOMAIN r -> DOMAIN q] /\ \A j \in DOMAIN r : h[j] = j
      BY <2>1, <2>2
    <2>4. \A j \in DOMAIN r : j = 1 \/ j \in 2..Len(q)
      BY <1>1, <2>1, SMTT(30)
    <2>5. Came(h)
      BY <1>2, <1>4, <2>1, <2>3, <2>4
    <2>. QED
      BY <2>3, <2>5, SMTT(30) DEF q, r
  <1>. QED
    BY <1>3, <1>4

LEMMA ListGoesOn ==
  ASSUME TypeInv, NEW c \in Actors, c # Main, ListInv(c), deps' = deps,
         NEW s \in PodStages, Doing(c, s),
         NEW e \in DosOf(c) \cup {<<>>}, Continue(c, e, <<>>), StepsTo(Task(c).do, e)
  PROVE  ListInv(c)'
  <1> DEFINE q == todo[c]
             r == todo'[c]
             x == Task(c)
  <1>1. TodoType
    BY TypeParts
  <1>2. /\ q # <<>> /\ Len(q) \in Nat \ {0} /\ DOMAIN q = 1..Len(q) /\ x = q[1]
        /\ x.do \in Deploys \cup Goes
    BY <1>1, FirstTask, PodStage DEF DosOf, PodTasks
  <1>3. PICK h \in [DOMAIN r -> DOMAIN q] :
           /\ \A i, j \in DOMAIN r : i < j => h[i] < h[j]
           /\ \A j \in DOMAIN r : h[j] = Len(q) => j = Len(r)
           /\ \A j \in DOMAIN r :
                \/ r[j] = q[h[j]]
                \/ /\ h[j] = 1 /\ r[j].do = e /\ r[j].pod = x.pod /\ r[j].t = x.t
    BY <1>1, Origins
  <1>4. /\ e # <<>> => Len(r) = Len(q) 
        /\ e = <<>> => Len(r) = Len(q) - 1
        /\ DOMAIN r = 1..Len(r)
    BY <1>1, ContinueAt, Zenon
  <1>5. \A j \in DOMAIN r : r[j].do # <<>>
    <2>1. TodoType' /\ \A y \in TasksOf(c) : y.do # <<>>
      <3>1. TodoType'
        BY <1>1, ContinueType
      <3>. QED
        BY <3>1, DosAreStages
    <2>. QED
      BY <2>1 DEF TodoType
  <1>6. ~UpdateList(c)
    <2>1. x.do # <<"update">>
      BY <1>2, Kinds DEF AllDos
    <2>. QED
      BY <1>2, <2>1 DEF UpdateList
  <1>7. ASSUME DeployList(c) PROVE DeployList(c)'
    <2>1. /\ \A j \in DOMAIN q : q[j].do \in Deploys
          /\ \A i, j \in DOMAIN q : q[i].pod = q[j].pod => i = j
          /\ \A j \in DOMAIN q : q[j].do \in SyncDos => q[j].pod \in Instances
      BY <1>7 DEF DeployList, Does, SyncDos
    <2> HIDE DEF q, r, x
    <2>2. x.do \in Deploys /\ x = q[1] /\ 1 \in DOMAIN q
      BY <1>2, <2>1
    <2>3. \A j \in DOMAIN r : r[j].do \in Deploys
      BY <1>3, <1>5, <2>1, <2>2 DEF StepsTo, x
    <2>4. \A j \in DOMAIN r : r[j].pod = q[h[j]].pod
      BY <1>3, <2>2
    <2>5. ASSUME NEW i \in DOMAIN r, NEW j \in DOMAIN r, r[i].pod = r[j].pod PROVE i = j
      <3>1. h[i] = h[j]
        BY <1>3, <2>1, <2>4, <2>5
      <3>3. h[i] \in DOMAIN q /\ h[j] \in DOMAIN q /\ DOMAIN q = 1..Len(q) /\ DOMAIN r = 1..Len(r)
        BY <1>2, <1>3, <1>4, Zenon
      <3>2. i \in Int /\ j \in Int /\ h[i] \in Int /\ h[j] \in Int
        BY <3>3
      <3>. QED
        BY <1>3, <3>1, <3>2
    <2>6. \A j \in DOMAIN r : r[j].do \in SyncDos => r[j].pod \in Instances
      BY <1>3, <2>1, <2>2, <2>4 DEF StepsTo, x
    <2>. QED
      BY <2>3, <2>5, <2>6, Zenon DEF DeployList, Does, SyncDos, r
  <1>8. ASSUME GoList(c) PROVE GoList(c)'
    <2>1. /\ \A j \in DOMAIN q :
               /\ q[j].do \in Goes \cup Finals \cup {<<"remove">>}
               /\ q[j].do \in Finals => j = Len(q)
               /\ q[j].do = <<"remove">> => Busy(c, Purges)
          /\ \A i, j \in DOMAIN q :
               q[i].do \in Drops /\ q[j].do \in Stops \cup Unlinks /\ i < j => q[i].pod # q[j].pod
          /\ \A p \in Pods : Work(c, Stops \cup Unlinks, p) => Work(c, Drops, p) \/ Busy(c, Purges)
      BY <1>8 DEF GoList, Does
    <2>2. x.do \in Goes /\ x = q[1] /\ 1 \in DOMAIN q
      <3>1. x.do \in Goes \cup Finals \cup {<<"remove">>}
        BY <1>2, <2>1
      <3>2. x.do \in AllDos
        BY <1>2 DEF AllDos
      <3>. QED
        BY <1>2, <3>1, <3>2, Kinds
    <2>3. e \in Goes \cup {<<>>} /\ e \notin Finals /\ e # <<"remove">> /\ e \notin Purges
      <3>1. e \in Goes \cup {<<>>}
        BY <2>2 DEF StepsTo
      <3>2. \A y \in Goes \cup {<<>>} : y \notin Finals /\ y # <<"remove">>
        BY Kinds DEF AllDos
      <3>3. Purges \subseteq Finals
        BY DEF Finals
      <3>. QED
        BY <3>1, <3>2, <3>3
    <2>4. <<>> \notin Purges /\ <<>> \notin Drops /\ <<>> \notin Stops \cup Unlinks
      BY Kinds DEF Finals, AllDos, Goes
    <2>5. x.do \notin Purges
      BY <2>2, Kinds DEF AllDos, Finals
    <2>6. Busy(c, Purges)' <=> Busy(c, Purges)
      <3>1. Busy(c, Purges)' <=> LaterBusy(c, Purges)
        BY <1>1, <2>3, <2>4, WorkGoesOn
      <3>2. Busy(c, Purges) <=> LaterBusy(c, Purges)
        BY <1>1, <2>5, WorkIs
      <3>. QED
        BY <3>1, <3>2
    <2>7. \A j \in DOMAIN r : r[j].pod = q[h[j]].pod
      BY <1>3, <2>2
    <2>8. ASSUME NEW j \in DOMAIN r
          PROVE  /\ r[j].do \in Goes \cup Finals \cup {<<"remove">>}
                 /\ r[j].do \in Finals => j = Len(r)
                 /\ r[j].do \in {<<"remove">>} => Busy(c, Purges)'
      <3>1. CASE r[j] = q[h[j]]
        BY <1>3, <2>1, <2>6, <3>1
      <3>2. CASE r[j].do = e
        BY <1>5, <2>3, <3>2
      <3>. QED
        BY <1>3, <3>1, <3>2
    <2>9. ASSUME NEW i \in DOMAIN r, NEW j \in DOMAIN r, i < j,
                 r[i].do \in Drops, r[j].do \in Stops \cup Unlinks
          PROVE  r[i].pod # r[j].pod
      <3>1. h[i] < h[j] /\ h[i] \in DOMAIN q /\ h[j] \in DOMAIN q
        BY <1>3, <2>9
      <3>2. q[h[i]].do \in Drops /\ q[h[j]].do \in Stops \cup Unlinks
        BY <1>3, <2>2, <2>9 DEF StepsTo
      <3>. QED
        BY <2>1, <2>7, <3>1, <3>2
    <2>10. ASSUME NEW p \in Pods, Work(c, Stops \cup Unlinks, p)'
           PROVE  Work(c, Drops, p)' \/ Busy(c, Purges)'
      <3>1. (e \in Stops \cup Unlinks /\ x.pod = p) \/ LaterWork(c, Stops \cup Unlinks, p)
        BY <1>1, <2>4, <2>10, WorkGoesOn
      <3>2. Work(c, Drops, p)' <=> (e \in Drops /\ x.pod = p) \/ LaterWork(c, Drops, p)
        BY <1>1, <2>4, WorkGoesOn
      <3>3. Work(c, Stops \cup Unlinks, p)
        BY <1>1, <3>1, WorkIs DEF StepsTo
      <3>4. CASE Busy(c, Purges)
        BY <2>6, <3>4
      <3>5. CASE Work(c, Drops, p)
        <4>1. (x.do \in Drops /\ x.pod = p) \/ LaterWork(c, Drops, p)
          BY <1>1, <3>5, WorkIs
        <4>2. CASE LaterWork(c, Drops, p)
          BY <3>2, <4>2
        <4>3. CASE x.do \in Drops /\ x.pod = p
          <5>1. ~LaterWork(c, Stops \cup Unlinks, p)
            <6> SUFFICES ASSUME NEW j \in 2..Len(q), q[j].do \in Stops \cup Unlinks, q[j].pod = p
                         PROVE  FALSE
              BY Zenon DEF LaterWork, Does
            <6>1. 1 < j /\ j \in DOMAIN q /\ 1 \in DOMAIN q
              BY <1>2
            <6>. QED
              BY <1>2, <2>1, <4>3, <6>1
          <5>2. e \in Drops
            BY <3>1, <4>3, <5>1 DEF StepsTo
          <5>. QED
            BY <3>2, <4>3, <5>2
        <4>. QED
          BY <4>1, <4>2, <4>3
      <3>. QED
        BY <2>1, <3>3, <3>4, <3>5
    <2>. QED
      BY <2>8, <2>9, <2>10, Zenon DEF GoList, Does
  <1>. QED
    BY <1>6, <1>7, <1>8 DEF ListInv

LEMMA ListFrame ==
  ASSUME TypeInv, NEW c \in Actors, c # Main, ListInv(c), todo'[c] = todo[c],
         \A d \in Deps : deps[d] # Absent => deps'[d] = deps[d]
  PROVE  ListInv(c)'
  <1>1. DeployList(c) => DeployList(c)'
    BY Zenon DEF DeployList, Does
  <1>2. GoList(c) => GoList(c)'
    BY ZenonT(40) DEF GoList, Does, Work, Busy
  <1>3. ASSUME UpdateList(c) PROVE UpdateList(c)'
    <2>1. todo[c] \in Seq(TasksOf(c)) /\ Len(todo[c]) = 1 /\ todo[c][1].do = <<"update">>
      BY <1>3, TodoTypeOf DEF UpdateList, TodoType
    <2>2. todo[c][1] \in ClientTasks
      BY <2>1 DEF TasksOf
    <2>3. todo[c][1] \in Updates
      BY <2>1, <2>2, Kinds
         DEF ClientTasks, PodTasks, DepTasks, AllDos, Purges, PurgeAll
    <2>4. todo[c][1].dep \in Deps
      BY <2>3 DEF Updates
    <2>. QED
      BY <1>3, <2>4 DEF UpdateList
  <1>. QED
    BY <1>1, <1>2, <1>3 DEF ListInv

(* The stages a pod goes by. *)
LEMMA GoDos ==
  /\ <<"stop", "unlink", "drop">> \in Stops \cap Unlinks \cap Drops \cap Goes
  /\ <<"stop", "unlink">> \in Stops \cap Unlinks \cap Goes /\ <<"stop", "unlink">> \notin Drops
  /\ <<"stop">> \in Stops \cap Goes /\ <<"stop">> \notin Drops \cup Unlinks
  /\ <<"unlink">> \in Unlinks \cap Goes /\ <<"unlink">> \notin Drops \cup Stops
  /\ <<"drop">> \in Drops \cap Goes /\ <<"drop">> \notin Stops \cup Unlinks
  BY DEF Stops, Unlinks, Drops, Goes

LEMMA FinalDos ==
  /\ <<"dropDep">> \in Finals /\ <<"dropNs">> \in Finals /\ <<"purge", "dropNs">> \in Finals \cap Purges
  /\ <<"purgeDeps", "purge", "dropNs">> \in Finals \cap Purges \cap PurgeAll
  /\ <<"dropDep">> \notin Purges /\ <<"dropNs">> \notin Purges /\ <<"remove">> \notin Purges
  /\ <<"purge", "dropNs">> \notin PurgeAll /\ PurgeAll \subseteq Purges /\ Purges \subseteq Finals
  /\ <<"remove">> \notin Finals /\ <<"dropDep">> # <<"remove">> /\ <<"dropNs">> # <<"remove">>
  /\ <<"dropDep">> \notin PurgeAll /\ <<"remove">> \notin PurgeAll
  /\ <<"dropDep">> # <<"dropNs">>
  /\ \A do \in Purges : do # <<"dropDep">>
  /\ \A do \in Finals \cup {<<"remove">>} : do \notin AllDos
  BY Kinds DEF Finals, Purges, PurgeAll

(* A list that deploys replicas from scratch. *)
LEMMA DeploysIs ==
  ASSUME NEW c \in Actors, NEW d \in Deps, NEW from \in 0..MaxReplicas, NEW to \in 0..MaxReplicas,
         NEW t \in Specs, NEW how \in {"start", "restart"},
         todo'[c] = DeployInstances(d, t, from, to, how)
  PROVE  /\ DeployList(c)'
         /\ \A j \in DOMAIN todo'[c] :
              /\ todo'[c][j].do = <<"write", "sync", how>> /\ todo'[c][j].do \in Syncs
              /\ todo'[c][j].t = t
              /\ \E i \in from..(to - 1) : todo'[c][j].pod = Inst[d][i]
         /\ \A i \in from..(to - 1) : Work(c, Writes, Inst[d][i])'
  <1> DEFINE r == todo'[c]
             ps == Range_(d, from, to)
  <1>1. /\ ps \in Seq(Pods) /\ Len(ps) \in Nat
        /\ \A j \in 1..Len(ps) : from + j - 1 \in from..(to - 1) /\ ps[j] = Inst[d][from + j - 1]
        /\ \A i \in from..(to - 1) : \E j \in 1..Len(ps) : ps[j] = Inst[d][i]
    <2>1. /\ ps \in Seq(Pods)
          /\ \A j \in 1..Len(ps) : from + j - 1 \in from..(to - 1) /\ ps[j] = Inst[d][from + j - 1]
          /\ \A i \in from..(to - 1) : \E j \in 1..Len(ps) : ps[j] = Inst[d][i]
      BY RangeIs, Zenon
    <2>. QED
      BY <2>1, LenProperties
  <1>2. /\ r \in Seq(PodTasks(Syncs)) /\ Len(r) = Len(ps)
        /\ \A j \in 1..Len(ps) :
             r[j].do = <<"write", "sync", how>> /\ r[j].pod = ps[j] /\ r[j].t = t
    <2> DEFINE x == DeployInstances(d, t, from, to, how)
    <2>1. /\ x \in Seq(PodTasks(Syncs)) /\ Len(x) = Len(ps)
          /\ \A j \in 1..Len(ps) :
               x[j].do = <<"write", "sync", how>> /\ x[j].pod = ps[j] /\ x[j].t = t
      BY DeployInstancesIs
    <2>2. r = x
      OBVIOUS
    <2> HIDE DEF x, r, ps
    <2>. QED
      BY <2>1, <2>2
  <1>3. DOMAIN r = 1..Len(ps)
    BY <1>2
  <1>4. <<"write", "sync", how>> \in Syncs /\ <<"write", "sync", how>> \in Deploys
        /\ <<"write", "sync", how>> \in Writes
    BY DEF Syncs, Deploys, Writes
  <1> HIDE DEF r, ps
  <1>5. ASSUME NEW j \in DOMAIN r
        PROVE  r[j].pod = Inst[d][from + j - 1] /\ from + j - 1 \in 0..(MaxReplicas - 1)
    <2>1. j \in 1..Len(ps) /\ r[j].pod = ps[j] /\ ps[j] = Inst[d][from + j - 1]
          /\ from + j - 1 \in from..(to - 1)
      BY <1>1, <1>2, <1>3, Zenon
    <2>2. from..(to - 1) \subseteq 0..(MaxReplicas - 1)
      BY NamesAssumption
    <2>. QED
      BY <2>1, <2>2, Zenon
  <1>6. \A j \in DOMAIN r : r[j].pod \in Instances
    BY <1>5, Replicas
  <1>7. ASSUME NEW i \in DOMAIN r, NEW j \in DOMAIN r, r[i].pod = r[j].pod PROVE i = j
    <2>1. from + i - 1 = from + j - 1
      BY <1>5, <1>7, Replicas
    <2>. QED
      BY <1>3, <2>1
  <1>8. \A i \in from..(to - 1) : \E j \in DOMAIN r : r[j].do \in Writes /\ r[j].pod = Inst[d][i]
    <2> SUFFICES ASSUME NEW i \in from..(to - 1)
                 PROVE  \E j \in DOMAIN r : r[j].do \in Writes /\ r[j].pod = Inst[d][i]
      OBVIOUS
    <2>1. PICK j \in 1..Len(ps) : ps[j] = Inst[d][i]
      BY <1>1, Zenon
    <2>2. j \in DOMAIN r /\ r[j].do \in Writes /\ r[j].pod = Inst[d][i]
      BY <1>2, <1>3, <1>4, <2>1, Zenon
    <2>. QED
      BY <2>2, Zenon
  <1>9. \A j \in DOMAIN r : \E i \in from..(to - 1) : r[j].pod = Inst[d][i]
    <2> TAKE j \in DOMAIN r
    <2>1. j \in 1..Len(ps) /\ r[j].pod = ps[j] /\ ps[j] = Inst[d][from + j - 1]
          /\ from + j - 1 \in from..(to - 1)
      BY <1>1, <1>2, <1>3, Zenon
    <2>. QED
      BY <2>1, Zenon
  <1>10. \A j \in DOMAIN r : r[j].do = <<"write", "sync", how>> /\ r[j].t = t
    BY <1>2, <1>3
  <1>11. DeployList(c)'
    BY <1>4, <1>6, <1>7, <1>10 DEF DeployList, Does, r
  <1>12. \A i \in from..(to - 1) : Work(c, Writes, Inst[d][i])'
    BY <1>8, Zenon DEF Work, Does, r
  <1>. QED
    BY <1>4, <1>9, <1>10, <1>11, <1>12, Zenon DEF r

(* A list that takes different pods away one by one. *)
LEMMA GoesIs ==
  ASSUME NEW c \in Actors, NEW ps \in Seq(Pods),
         Once(ps),
         todo'[c] = Each(<<"stop", "unlink", "drop">>, ps)
  PROVE  /\ GoList(c)'
         /\ \A j \in DOMAIN todo'[c] :
              todo'[c][j].do \in Goes /\ j \in 1..Len(ps) /\ todo'[c][j].pod = ps[j]
         /\ \A j \in 1..Len(ps) :
              Work(c, Stops, ps[j])' /\ Work(c, Unlinks, ps[j])' /\ Work(c, Drops, ps[j])'
  <1> DEFINE r == todo'[c]
             go == <<"stop", "unlink", "drop">>
  <1>1. r \in Seq(PodTasks({go})) /\ Len(r) = Len(ps)
        /\ \A j \in 1..Len(ps) : r[j].do = go /\ r[j].pod = ps[j]
    <2> DEFINE x == Each(go, ps)
    <2>2. r = x
      OBVIOUS
    <2> HIDE DEF go, r
    <2> HIDE DEF x
    <2>1. x \in Seq(PodTasks({go})) /\ IsEach(x, go, ps)
      BY EachAre, Zenon DEF x
    <2>. QED
      BY <2>1, <2>2 DEF IsEach
  <1>2. DOMAIN r = 1..Len(ps) /\ Len(ps) \in Nat
    BY <1>1
  <1>3. go \in Stops /\ go \in Unlinks /\ go \in Drops /\ go \in Goes /\ go \notin Finals /\ go # <<"remove">>
    BY GoDos, Kinds DEF AllDos
  <1> HIDE DEF r, go
  <1>4. \A j \in DOMAIN r : r[j].do = go /\ r[j].pod = ps[j]
    BY <1>1, <1>2
  <1>5. \A i, j \in DOMAIN r : i < j => r[i].pod # r[j].pod
    BY <1>2, <1>4 DEF Once
  <1>6. \A p : (\E j \in DOMAIN r : r[j].do \in Stops \cup Unlinks /\ r[j].pod = p) =>
               (\E j \in DOMAIN r : r[j].do \in Drops /\ r[j].pod = p)
    BY <1>3, <1>4
  <1>7. GoList(c)'
    BY <1>3, <1>4, <1>5, <1>6 DEF GoList, Does, Work, r
  <1>8. \A j \in 1..Len(ps) :
          Work(c, Stops, ps[j])' /\ Work(c, Unlinks, ps[j])' /\ Work(c, Drops, ps[j])'
    BY <1>2, <1>3, <1>4 DEF Work, Does, r
  <1>. QED
    BY <1>2, <1>3, <1>4, <1>7, <1>8, Zenon DEF r

LEMMA RangeOnce ==
  ASSUME NEW d \in Deps, NEW from \in 0..MaxReplicas, NEW to \in 0..MaxReplicas
  PROVE  Once(Range_(d, from, to))
  <1>1. PICK ps : ps = Range_(d, from, to)
    OBVIOUS
  <1>2. /\ ps \in Seq(Pods)
        /\ \A j \in 1..Len(ps) : from + j - 1 \in from..(to - 1) /\ ps[j] = Inst[d][from + j - 1]
    BY <1>1, RangeIs, Zenon
  <1>3. Len(ps) \in Nat
    BY <1>2, LenProperties
  <1>4. ASSUME NEW i \in 1..Len(ps), NEW j \in 1..Len(ps), ps[i] = ps[j] PROVE i = j
    <2>1. /\ from + i - 1 \in 0..(MaxReplicas - 1) /\ from + j - 1 \in 0..(MaxReplicas - 1)
          /\ Inst[d][from + i - 1] = Inst[d][from + j - 1]
      <3>1. /\ from + i - 1 \in from..(to - 1) /\ from + j - 1 \in from..(to - 1)
            /\ Inst[d][from + i - 1] = Inst[d][from + j - 1]
        BY <1>2, <1>4, Zenon
      <3>2. from..(to - 1) \subseteq 0..(MaxReplicas - 1)
        BY NamesAssumption
      <3>. QED
        BY <3>1, <3>2, Zenon
    <2>2. from + i - 1 = from + j - 1
      BY <2>1, Replicas
    <2>. QED
      BY <1>3, <2>2
  <1>. QED
    BY <1>1, <1>4, Zenon DEF Once

---------------------------------------------------------------------------
(* What a step on one pod leaves alone                                     *)

PlainDos == Finals \cup {<<"remove">>, <<"restore">>, <<"bootDeps">>, <<"bootPods">>, <<"allPods">>}

LEMMA PlainAreNotPods == \A do \in PlainDos : do \notin AllDos /\ do # <<>>
  BY Kinds DEF PlainDos

LEMMA PodStepView ==
  ASSUME TodoType, NEW a \in Actors, NEW s \in PodStages, Doing(a, s),
         NEW e \in DosOf(a) \cup {<<>>}, Continue(a, e, <<>>)
  PROVE  /\ \A b \in Actors \ {a} : todo'[b] = todo[b]
         /\ \A p, dos : p # Task(a).pod /\ dos \subseteq AllDos =>
              (Work(a, dos, p)' <=> Work(a, dos, p))
         /\ \A dos : dos \subseteq AllDos =>
              /\ Work(a, dos, Task(a).pod) <=> Task(a).do \in dos \/ LaterWork(a, dos, Task(a).pod)
              /\ \A p : p = Task(a).pod => (Work(a, dos, p)' <=> e \in dos \/ LaterWork(a, dos, p))
         /\ \A dos : dos \subseteq PlainDos =>
              /\ Busy(a, dos)' <=> Busy(a, dos)
              /\ \A d : WorkOn(a, dos, d)' <=> WorkOn(a, dos, d)
         /\ \A j \in DOMAIN todo[a] : todo[a][j].do \in PlainDos =>
              \E k \in DOMAIN todo'[a] : todo'[a][k] = todo[a][j]
  <1>1. \A b \in Actors \ {a} : todo'[b] = todo[b]
    BY ContinueAt
  <1>2. Task(a).do \in AllDos /\ e \in AllDos \cup {<<>>} /\ <<>> \notin AllDos
    BY PodStage, Kinds DEF DosOf, AllDos
  <1>3. ASSUME NEW dos, dos \subseteq AllDos
        PROVE  /\ \A p : Work(a, dos, p)' <=>
                           (e \in dos /\ Task(a).pod = p) \/ LaterWork(a, dos, p)
               /\ \A p : Work(a, dos, p) <=>
                           (Task(a).do \in dos /\ Task(a).pod = p) \/ LaterWork(a, dos, p)
    <2>1. <<>> \notin dos
      BY <1>2, <1>3
    <2>. QED
      BY <2>1, WorkGoesOn, WorkIs, Zenon
  <1>4. ASSUME NEW dos, dos \subseteq PlainDos
        PROVE  /\ Busy(a, dos)' <=> Busy(a, dos)
               /\ \A d : WorkOn(a, dos, d)' <=> WorkOn(a, dos, d)
    <2>1. <<>> \notin dos /\ e \notin dos /\ Task(a).do \notin dos
      BY <1>2, <1>4, PlainAreNotPods
    <2>2. (\A d : WorkOn(a, dos, d)' <=> LaterOn(a, dos, d)) /\ (Busy(a, dos)' <=> LaterBusy(a, dos))
      BY <2>1, WorkGoesOn, Zenon
    <2>3. (\A d : WorkOn(a, dos, d) <=> LaterOn(a, dos, d)) /\ (Busy(a, dos) <=> LaterBusy(a, dos))
      BY <2>1, WorkIs, Zenon
    <2>. QED
      BY <2>2, <2>3, Zenon
  <1>5. ASSUME NEW j \in DOMAIN todo[a], todo[a][j].do \in PlainDos
        PROVE  \E k \in DOMAIN todo'[a] : todo'[a][k] = todo[a][j]
    <2>1. DOMAIN todo[a] = 1..Len(todo[a]) /\ Len(todo[a]) \in Nat \ {0} /\ Task(a) = todo[a][1]
      BY FirstTask
    <2>2. j # 1
      BY <1>2, <1>5, <2>1, PlainAreNotPods
    <2>3. j \in 2..Len(todo[a]) /\ j - 1 \in 1..(Len(todo[a]) - 1) /\ (j - 1) + 1 = j
      BY <2>1, <2>2
    <2>4. CASE e = <<>>
      <3>1. DOMAIN todo'[a] = 1..(Len(todo[a]) - 1) /\ todo'[a][j - 1] = todo[a][(j - 1) + 1]
        BY <2>3, <2>4, ContinueAt
      <3>. QED
        BY <2>3, <3>1
    <2>5. CASE e # <<>>
      <3>1. DOMAIN todo'[a] = 1..Len(todo[a]) /\ todo'[a][j] = todo[a][j]
        BY <2>3, <2>5, ContinueAt
      <3>. QED
        BY <2>1, <3>1
    <2>. QED
      BY <2>4, <2>5
  <1>6. ASSUME NEW p, NEW dos, p # Task(a).pod /\ dos \subseteq AllDos
        PROVE  Work(a, dos, p)' <=> Work(a, dos, p)
    BY <1>3, <1>6, Zenon
  <1>7. ASSUME NEW dos, dos \subseteq AllDos
        PROVE  /\ Work(a, dos, Task(a).pod) <=> Task(a).do \in dos \/ LaterWork(a, dos, Task(a).pod)
               /\ \A p : p = Task(a).pod => (Work(a, dos, p)' <=> e \in dos \/ LaterWork(a, dos, p))
    BY <1>3, <1>7, Zenon
  <1>. QED
    BY <1>1, <1>4, <1>5, <1>6, <1>7, Zenon

LEMMA FamiliesOfPods ==
  /\ Writes \subseteq AllDos /\ Written \subseteq AllDos /\ Drops \subseteq AllDos
  /\ Unlinks \subseteq AllDos /\ Stops \subseteq AllDos /\ Heals \subseteq AllDos
  /\ Starts \cup Restarts \subseteq AllDos /\ Synced \subseteq AllDos /\ Replaces \subseteq AllDos
  /\ Stops \cup Unlinks \subseteq AllDos
  /\ Purges \subseteq PlainDos /\ PurgeAll \subseteq PlainDos /\ {<<"dropDep">>} \subseteq PlainDos
  /\ {<<"remove">>} \subseteq PlainDos /\ {<<"restore">>} \subseteq PlainDos
  /\ {<<"bootDeps">>} \subseteq PlainDos /\ {<<"bootPods">>} \subseteq PlainDos
  BY DEF AllDos, Deploys, Writes, Written, Goes, Mains, PlainDos, Finals, Purges

(* What a client asks for, and what main is about to heal, do not change   *)
(* by a step on one pod.                                                   *)
LEMMA PodStepFrame ==
  ASSUME TodoType, NEW c \in Actors, c # Main, Actors = {c, Main}, NEW a \in Actors,
         NEW s \in PodStages, Doing(a, s),
         NEW e \in DosOf(a) \cup {<<>>}, Continue(a, e, <<>>), deps' = deps
  PROVE  /\ \A p : Asked(c, p)' <=> Asked(c, p)
         /\ Busy(c, Purges)' <=> Busy(c, Purges)
         /\ Busy(c, PurgeAll)' <=> Busy(c, PurgeAll)
         /\ \A p, dos : (p # Task(a).pod \/ a # c) /\ dos \subseteq AllDos =>
              (Work(c, dos, p)' <=> Work(c, dos, p))
         /\ \A p, dos : (p # Task(a).pod \/ a # Main) /\ dos \subseteq AllDos =>
              (Work(Main, dos, p)' <=> Work(Main, dos, p))
         /\ Busy(Main, {<<"bootDeps">>})' <=> Busy(Main, {<<"bootDeps">>})
         /\ Busy(Main, {<<"bootPods">>})' <=> Busy(Main, {<<"bootPods">>})
         /\ \A d, p : Restored(d, p) => Restored(d, p)'
  <1>1. \A b \in Actors : b # a => todo'[b] = todo[b]
    BY PodStepView, Zenon
  <1>2. ASSUME NEW b \in Actors
        PROVE  /\ \A dos : dos \subseteq PlainDos =>
                    /\ Busy(b, dos)' <=> Busy(b, dos)
                    /\ \A d : WorkOn(b, dos, d)' <=> WorkOn(b, dos, d)
               /\ \A p, dos : (p # Task(a).pod \/ a # b) /\ dos \subseteq AllDos =>
                    (Work(b, dos, p)' <=> Work(b, dos, p))
    <2>1. CASE b = a
      BY <2>1, PodStepView, Zenon
    <2>2. CASE b # a
      <3>1. todo'[b] = todo[b]
        BY <1>1, <2>2
      <3>. QED
        BY <3>1, Zenon DEF Busy, WorkOn, Work, Does
    <2>. QED
      BY <2>1, <2>2
  <1>3. ASSUME NEW p PROVE Asked(c, p)' <=> Asked(c, p)
    <2>1. /\ Busy(c, Purges)' <=> Busy(c, Purges)
          /\ \A d : WorkOn(c, {<<"dropDep">>}, d)' <=> WorkOn(c, {<<"dropDep">>}, d)
      BY <1>2, FamiliesOfPods, Zenon
    <2>2. \A d : Desired(d)' = Desired(d)
      BY DEF Desired
    <2>. QED
      BY <2>1, <2>2, Zenon DEF Asked
  <1>4. ASSUME NEW d, NEW p, Restored(d, p) PROVE Restored(d, p)'
    <2>1. PICK j \in DOMAIN todo[Main] :
            /\ todo[Main][j].do = <<"restore">> /\ todo[Main][j].dep = d
            /\ \E i \in 0..(todo[Main][j].n - 1) : p = Inst[d][i]
      BY <1>4 DEF Restored, Does
    <2>2. PICK k \in DOMAIN todo'[Main] : todo'[Main][k] = todo[Main][j]
      <3>1. CASE a = Main
        BY <2>1, <3>1, PodStepView, FamiliesOfPods
      <3>2. CASE a # Main
        BY <1>1, <3>2
      <3>. QED
        BY <3>1, <3>2
    <2>3. /\ todo'[Main][k].do = <<"restore">> /\ todo'[Main][k].dep = d
          /\ \E i \in 0..(todo'[Main][k].n - 1) : p = Inst[d][i]
      BY <2>1, <2>2
    <2>. QED
      BY <2>3 DEF Restored, Does
  <1>5. Main \in Actors
    BY DEF Actors
  <1>6. /\ Busy(c, Purges)' <=> Busy(c, Purges)
        /\ Busy(c, PurgeAll)' <=> Busy(c, PurgeAll)
        /\ Busy(Main, {<<"bootDeps">>})' <=> Busy(Main, {<<"bootDeps">>})
        /\ Busy(Main, {<<"bootPods">>})' <=> Busy(Main, {<<"bootPods">>})
    BY <1>2, <1>5, FamiliesOfPods, Zenon
  <1>7. /\ \A p, dos : (p # Task(a).pod \/ a # c) /\ dos \subseteq AllDos =>
              (Work(c, dos, p)' <=> Work(c, dos, p))
        /\ \A p, dos : (p # Task(a).pod \/ a # Main) /\ dos \subseteq AllDos =>
              (Work(Main, dos, p)' <=> Work(Main, dos, p))
    BY <1>2, <1>5, Zenon
  <1>. QED
    BY <1>3, <1>4, <1>6, <1>7, Zenon

---------------------------------------------------------------------------
(* What the store asks for is deployed                                     *)

PodDeployed(c, p) ==
  /\ ReplicaIsDeployed(c, p) /\ StoredIsDeployed(c, p)
  /\ Work(c, Written, p) => file[p] # Absent
  /\ Work(c, Unlinks, p) => p \in missing \/ ~Asked(c, p)

(* Who is about to write the file of a replica, or of a stored pod. *)
HealsReplica(p) ==
  Busy(Main, {<<"bootDeps">>}) \/ Work(Main, Heals, p) \/ \E d \in Deps : Restored(d, p)
HealsPod(p) == Busy(Main, {<<"bootPods">>}) \/ Work(Main, Heals, p)

LEMMA DeployParts ==
  ASSUME NEW c
  PROVE  /\ DeployInv(c) <=> ListInv(c) /\ \A p \in Pods \ failed : PodDeployed(c, p)
         /\ DeployInv(c)' <=> ListInv(c)' /\ \A p \in Pods \ failed' : PodDeployed(c, p)'
         /\ \A p : ReplicaIsDeployed(c, p) <=>
              (up /\ Asked(c, p) /\ p \notin missing /\ file[p] = Absent =>
                 Work(c, Writes, p) \/ HealsReplica(p))
         /\ \A p : StoredIsDeployed(c, p) <=>
              (up /\ Stored(p) /\ pods[p].t # Stub /\ file[p] = Absent =>
                 Work(c, Writes, p) \/ Work(c, Drops, p) \/ Busy(c, Purges) \/ HealsPod(p))
         /\ \A p : ReplicaIsDeployed(c, p)' <=>
              (up' /\ Asked(c, p)' /\ p \notin missing' /\ file'[p] = Absent =>
                 Work(c, Writes, p)' \/ HealsReplica(p)')
         /\ \A p : StoredIsDeployed(c, p)' <=>
              (up' /\ Stored(p)' /\ pods'[p].t # Stub /\ file'[p] = Absent =>
                 Work(c, Writes, p)' \/ Work(c, Drops, p)' \/ Busy(c, Purges)' \/ HealsPod(p)')
  BY Zenon DEF DeployInv, PodDeployed, ReplicaIsDeployed, StoredIsDeployed, HealsReplica, HealsPod

LEMMA DeployFrame ==
  ASSUME NEW c, NEW p, PodDeployed(c, p), up' = up, pods'[p] = pods[p], file'[p] = file[p],
         p \in missing => p \in missing',
         Asked(c, p)' => Asked(c, p) \/ p \in missing',
         Work(c, Writes, p) => Work(c, Writes, p)',
         Work(c, Drops, p) \/ Busy(c, Purges) => Work(c, Drops, p)' \/ Busy(c, Purges)',
         HealsReplica(p) => HealsReplica(p)', HealsPod(p) => HealsPod(p)',
         Work(c, Written, p)' => Work(c, Written, p),
         Work(c, Unlinks, p)' => Work(c, Unlinks, p)
  PROVE  PodDeployed(c, p)'
  BY DeployParts DEF PodDeployed, Stored

LEMMA DeployOthers ==
  ASSUME TodoType, NEW c \in Actors, c # Main, Actors = {c, Main}, NEW a \in Actors,
         NEW s \in PodStages, Doing(a, s),
         NEW e \in DosOf(a) \cup {<<>>}, Continue(a, e, <<>>), deps' = deps,
         NEW p, p # Task(a).pod, PodDeployed(c, p), up' = up,
         pods'[p] = pods[p], file'[p] = file[p], p \in missing => p \in missing'
  PROVE  PodDeployed(c, p)'
  <1>1. /\ Asked(c, p)' <=> Asked(c, p)
        /\ Busy(c, Purges)' <=> Busy(c, Purges)
        /\ \A dos : dos \subseteq AllDos =>
             /\ Work(c, dos, p)' <=> Work(c, dos, p)
             /\ Work(Main, dos, p)' <=> Work(Main, dos, p)
        /\ Busy(Main, {<<"bootDeps">>})' <=> Busy(Main, {<<"bootDeps">>})
        /\ Busy(Main, {<<"bootPods">>})' <=> Busy(Main, {<<"bootPods">>})
        /\ \A d : Restored(d, p) => Restored(d, p)'
    BY PodStepFrame, Zenon
  <1>2. /\ Work(c, Writes, p)' <=> Work(c, Writes, p)
        /\ Work(c, Drops, p)' <=> Work(c, Drops, p)
        /\ Work(c, Written, p)' <=> Work(c, Written, p)
        /\ Work(c, Unlinks, p)' <=> Work(c, Unlinks, p)
        /\ Work(Main, Heals, p)' <=> Work(Main, Heals, p)
    BY <1>1, FamiliesOfPods, Zenon
  <1>3. /\ HealsReplica(p) => HealsReplica(p)'
        /\ HealsPod(p) => HealsPod(p)'
    BY <1>1, <1>2, Zenon DEF HealsReplica, HealsPod
  <1>. QED
    BY <1>1, <1>2, <1>3, DeployFrame, Zenon

LEMMA ClientHead ==
  ASSUME TodoType, NEW c \in Actors, c # Main, NEW s \in PodStages, Doing(c, s)
  PROVE  /\ Task(c).do \in DosOf(c) /\ DosOf(c) = Deploys \cup Goes
         /\ s = "write" => Task(c).do \in Writes
         /\ s = "sync" => Task(c).do \in Synced
         /\ s = "create" => Task(c).do \in Created
         /\ s = "start" => Task(c).do = <<"start">>
         /\ s = "restart" => Task(c).do = <<"restart">>
         /\ s = "stop" => Task(c).do \in Stops
         /\ s = "unlink" => Task(c).do \in {<<"unlink", "drop">>, <<"unlink">>}
         /\ s = "drop" => Task(c).do = <<"drop">>
         /\ s \notin {"regen", "rewrite", "ns", "dep", "pod", "known", "prune"}
  <1>1. Task(c).do \in Deploys \cup Goes /\ DosOf(c) = Deploys \cup Goes /\ Task(c).do \in AllDos
    BY PodStage DEF DosOf, PodTasks
  <1>2. Head(Task(c).do) = s
    BY FirstTask
  <1>3. Task(c).do \notin Heals \cup Imports \cup Prunes
    BY <1>1, Kinds
  <1>4. <<"sync", "regen">> \in Heals /\ <<"create", "regen">> \in Heals /\ <<"regen">> \in Heals
        /\ <<"rewrite">> \in Heals /\ <<"ns", "dep", "pod">> \in Imports /\ <<"dep", "pod">> \in Imports
        /\ <<"pod">> \in Imports /\ <<"known", "prune">> \in Prunes /\ <<"prune">> \in Prunes
    BY DEF Heals, Imports, Prunes
  <1>5. PICK do \in AllDos : do = Task(c).do
    BY <1>1
  <1>6. s = "sync" => do \in Synced
    BY <1>2, <1>3, <1>4, <1>5, Heads DEF Synced
  <1>7. s = "create" => do \in Created
    BY <1>2, <1>3, <1>4, <1>5, Heads DEF Created
  <1>8. s \notin {"regen", "rewrite", "ns", "dep", "pod", "known", "prune"}
    BY <1>2, <1>3, <1>4, <1>5, Heads
  <1>. QED
    BY <1>1, <1>2, <1>5, <1>6, <1>7, <1>8, Heads

LEMMA MainHead ==
  ASSUME TodoType, Main \in Actors, NEW s \in PodStages, Doing(Main, s)
  PROVE  /\ Task(Main).do \in Mains /\ DosOf(Main) = Mains
         /\ s = "sync" => Task(Main).do = <<"sync", "regen">>
         /\ s = "create" => Task(Main).do = <<"create", "regen">>
         /\ s = "start" => Task(Main).do = <<"start">>
         /\ s = "regen" => Task(Main).do = <<"regen">>
         /\ s = "rewrite" => Task(Main).do = <<"rewrite">>
         /\ s = "prune" => Task(Main).do = <<"prune">>
         /\ s = "pod" => Task(Main).do = <<"pod">>
         /\ s \notin {"write", "restart", "stop", "unlink", "drop"}
  <1>1. Task(Main).do \in Mains /\ DosOf(Main) = Mains /\ Task(Main).do \in AllDos
    BY PodStage DEF DosOf, PodTasks
  <1>2. Head(Task(Main).do) = s
    BY FirstTask
  <1>3. \A do \in Mains : do \notin Goes /\ do \notin Writes
    BY NotAClients
  <1>4. <<"restart">> \notin Mains /\ <<"sync", "start">> \notin Mains /\ <<"sync", "restart">> \notin Mains
        /\ <<"sync">> \notin Mains /\ <<"create", "start">> \notin Mains
        /\ <<"create", "restart">> \notin Mains /\ <<"create">> \notin Mains
    BY DEF Mains, Heals, Imports, Prunes
  <1>5. <<"unlink", "drop">> \in Goes /\ <<"unlink">> \in Goes /\ <<"drop">> \in Goes /\ Stops \subseteq Goes
    BY DEF Goes, Unlinks, Drops
  <1>6. PICK do \in AllDos : do = Task(Main).do
    BY <1>1
  <1>7. s \notin {"write", "restart", "stop", "unlink", "drop"}
    BY <1>1, <1>2, <1>3, <1>4, <1>5, <1>6, Heads
  <1>8. /\ s = "sync" => do = <<"sync", "regen">>
        /\ s = "create" => do = <<"create", "regen">>
    BY <1>1, <1>2, <1>4, <1>6, Heads
  <1>. QED
    BY <1>1, <1>2, <1>6, <1>7, <1>8, Heads

(* A request that deploys takes nothing away, and the other way round. *)
LEMMA OneKind ==
  ASSUME NEW c
  PROVE  /\ DeployList(c) => /\ \A p, dos : dos \subseteq Goes => ~Work(c, dos, p)
                             /\ \A dos : dos \subseteq PlainDos => ~Busy(c, dos)
         /\ GoList(c) => \A p, dos : dos \subseteq Deploys => ~Work(c, dos, p)
         /\ DeployList(c)' => /\ \A p, dos : dos \subseteq Goes => ~Work(c, dos, p)'
                              /\ \A dos : dos \subseteq PlainDos => ~Busy(c, dos)'
         /\ GoList(c)' => \A p, dos : dos \subseteq Deploys => ~Work(c, dos, p)'
  <1>1. \A do \in Deploys : do \notin Goes /\ do \notin PlainDos
    BY Kinds, PlainAreNotPods DEF AllDos
  <1>2. \A do \in Goes \cup Finals \cup {<<"remove">>} : do \notin Deploys
    BY Kinds DEF AllDos
  <1>3. DeployList(c) => /\ \A p, dos : dos \subseteq Goes => ~Work(c, dos, p)
                         /\ \A dos : dos \subseteq PlainDos => ~Busy(c, dos)
    BY <1>1 DEF DeployList, Work, Busy, Does
  <1>4. DeployList(c)' => /\ \A p, dos : dos \subseteq Goes => ~Work(c, dos, p)'
                          /\ \A dos : dos \subseteq PlainDos => ~Busy(c, dos)'
    BY <1>1 DEF DeployList, Work, Busy, Does
  <1>5. GoList(c) => \A p, dos : dos \subseteq Deploys => ~Work(c, dos, p)
    BY <1>2 DEF GoList, Work, Does
  <1>6. GoList(c)' => \A p, dos : dos \subseteq Deploys => ~Work(c, dos, p)'
    BY <1>2 DEF GoList, Work, Does
  <1>. QED
    BY <1>3, <1>4, <1>5, <1>6, Zenon

LEMMA KindOfList ==
  ASSUME TodoType, NEW c \in Actors, c # Main, ListInv(c), NEW s, Doing(c, s)
  PROVE  /\ Task(c).do \in Deploys => DeployList(c)
         /\ Task(c).do \in Goes \cup Finals \cup {<<"remove">>} => GoList(c)
         /\ Task(c).do = <<"update">> => UpdateList(c)
         /\ Task(c).do \in Finals => Len(todo[c]) = 1
  <1>1. /\ Len(todo[c]) \in Nat \ {0} /\ DOMAIN todo[c] = 1..Len(todo[c]) /\ Task(c) = todo[c][1]
        /\ 1 \in DOMAIN todo[c]
    BY FirstTask
  <1>2. /\ DeployList(c) => Task(c).do \in Deploys
        /\ GoList(c) => /\ Task(c).do \in Goes \cup Finals \cup {<<"remove">>}
                        /\ Task(c).do \in Finals => Len(todo[c]) = 1
        /\ UpdateList(c) => Task(c).do = <<"update">>
    BY <1>1 DEF DeployList, GoList, UpdateList, Does
  <1>3. \A do \in Deploys : do \notin Goes \cup Finals \cup {<<"remove">>, <<"update">>}
    BY Kinds DEF AllDos
  <1>4. <<"update">> \notin Goes \cup Finals \cup {<<"remove">>}
    BY Kinds, PlainHeads DEF AllDos, Finals
  <1>. QED
    BY <1>2, <1>3, <1>4 DEF ListInv

LEMMA DeployByClient ==
  ASSUME TypeInv, NEW c \in Actors, c # Main, Actors = {c, Main}, DeployInv(c),
         NEW s \in PodStages, Doing(c, s), NEW e \in DosOf(c) \cup {<<>>}, Continue(c, e, <<>>),
         StepsTo(Task(c).do, e), deps' = deps, up' = up, failed \subseteq failed',
         NEW x \in Pods, x = Task(c).pod,
         \A p \in Pods : p # x => /\ pods'[p] = pods[p] /\ file'[p] = file[p]
                                  /\ p \in missing => p \in missing',
         x \notin failed' => PodDeployed(c, x)'
  PROVE  DeployInv(c)'
  <1>1. TodoType
    BY TypeParts
  <1>2. ListInv(c)'
    BY DeployParts, ListGoesOn
  <1>3. ASSUME NEW p \in Pods \ failed' PROVE PodDeployed(c, p)'
    <2>1. CASE p = x
      BY <2>1
    <2>2. CASE p # x
      <3>1. PodDeployed(c, p)
        BY <1>3, DeployParts
      <3>. QED
        BY <1>1, <2>2, <3>1, DeployOthers, Zenon
    <2>. QED
      BY <2>1, <2>2
  <1>. QED
    BY <1>2, <1>3, DeployParts, Zenon

LEMMA DeployByMain ==
  ASSUME TypeInv, NEW c \in Actors, c # Main, Actors = {c, Main}, DeployInv(c),
         NEW s \in PodStages, Doing(Main, s), NEW e \in DosOf(Main) \cup {<<>>}, Continue(Main, e, <<>>),
         deps' = deps, up' = up, failed \subseteq failed',
         NEW x \in Pods, x = Task(Main).pod,
         \A p \in Pods : p # x => /\ pods'[p] = pods[p] /\ file'[p] = file[p]
                                  /\ p \in missing => p \in missing',
         x \notin failed' => PodDeployed(c, x)'
  PROVE  DeployInv(c)'
  <1>1. TodoType /\ Main \in Actors
    BY TypeParts DEF Actors
  <1>2. ListInv(c)'
    <2>1. todo'[c] = todo[c]
      BY <1>1, PodStepView
    <2>. QED
      BY <2>1, DeployParts, ListFrame, Zenon
  <1>3. ASSUME NEW p \in Pods \ failed' PROVE PodDeployed(c, p)'
    <2>1. CASE p = x
      BY <2>1
    <2>2. CASE p # x
      <3>1. PodDeployed(c, p)
        BY <1>3, DeployParts
      <3>. QED
        BY <1>1, <2>2, <3>1, DeployOthers, Zenon
    <2>. QED
      BY <2>1, <2>2
  <1>. QED
    BY <1>2, <1>3, DeployParts, Zenon

LEMMA AtClientPod ==
  ASSUME TodoType, NEW c \in Actors, c # Main, Actors = {c, Main}, NEW s \in PodStages, Doing(c, s),
         NEW e \in DosOf(c) \cup {<<>>}, Continue(c, e, <<>>), deps' = deps,
         NEW x, x = Task(c).pod
  PROVE  /\ Asked(c, x)' <=> Asked(c, x)
         /\ Busy(c, Purges)' <=> Busy(c, Purges)
         /\ HealsReplica(x) => HealsReplica(x)'
         /\ HealsPod(x) => HealsPod(x)'
         /\ \A dos : dos \subseteq AllDos =>
              /\ Work(c, dos, x) <=> Task(c).do \in dos \/ LaterWork(c, dos, x)
              /\ Work(c, dos, x)' <=> e \in dos \/ LaterWork(c, dos, x)
  <1>1. /\ Asked(c, x)' <=> Asked(c, x)
        /\ Busy(c, Purges)' <=> Busy(c, Purges)
        /\ \A dos : dos \subseteq AllDos => (Work(Main, dos, x)' <=> Work(Main, dos, x))
        /\ Busy(Main, {<<"bootDeps">>})' <=> Busy(Main, {<<"bootDeps">>})
        /\ Busy(Main, {<<"bootPods">>})' <=> Busy(Main, {<<"bootPods">>})
        /\ \A d : Restored(d, x) => Restored(d, x)'
    BY PodStepFrame, Zenon
  <1>2. Work(Main, Heals, x)' <=> Work(Main, Heals, x)
    BY <1>1, FamiliesOfPods, Zenon
  <1>3. /\ HealsReplica(x) => HealsReplica(x)'
        /\ HealsPod(x) => HealsPod(x)'
    BY <1>1, <1>2, Zenon DEF HealsReplica, HealsPod
  <1>4. ASSUME NEW dos, dos \subseteq AllDos
        PROVE  /\ Work(c, dos, x) <=> Task(c).do \in dos \/ LaterWork(c, dos, x)
               /\ Work(c, dos, x)' <=> e \in dos \/ LaterWork(c, dos, x)
    BY <1>4, PodStepView, Zenon
  <1>. QED
    BY <1>1, <1>3, <1>4, Zenon

(* A pod that is being deployed has its file from the write on. *)
LEMMA DeployedNow ==
  ASSUME TodoType, NEW c \in Actors, c # Main, Actors = {c, Main}, NEW s \in PodStages, Doing(c, s),
         NEW e \in DosOf(c) \cup {<<>>}, Continue(c, e, <<>>), deps' = deps,
         NEW x, x = Task(c).pod, DeployList(c), StepsTo(Task(c).do, e), file'[x] # Absent
  PROVE  PodDeployed(c, x)'
  <1>1. ~Work(c, Unlinks, x)
    BY OneKind DEF Goes
  <1>2. Work(c, Unlinks, x)' => Work(c, Unlinks, x)
    BY AtClientPod, FamiliesOfPods DEF StepsTo
  <1>3. ReplicaIsDeployed(c, x)' /\ StoredIsDeployed(c, x)'
    BY DeployParts
  <1>. QED
    BY <1>1, <1>2, <1>3 DEF PodDeployed

LEMMA DeployDeploySteps ==
  ASSUME TypeInv, NEW c \in Actors, c # Main, Actors = {c, Main}, DeployInv(c)
  PROVE  /\ Write(c) => DeployInv(c)'
         /\ Sync(c) => DeployInv(c)'
         /\ CreateInstance(c) => DeployInv(c)'
         /\ Run(c) => DeployInv(c)'
  <1>0. TodoType /\ StateType /\ ListInv(c)
    BY TypeParts, DeployParts
  <1>a. \A y \in Written : y \in Deploys
    BY DEF Deploys
  <1>1. ASSUME Write(c) PROVE DeployInv(c)'
    <2>1. Doing(c, "write") /\ "write" \in PodStages
      BY <1>1 DEF Write, PodStages
    <2>2. Task(c).do \in Writes /\ Task(c).do \in Deploys /\ DosOf(c) = Deploys \cup Goes
      BY <1>0, <2>1, ClientHead DEF Deploys
    <2>3. PICK x \in Pods : x = Task(c).pod
      BY <1>0, <2>1, PodStage
    <2>4. PICK ch \in BOOLEAN : ch = (file[x] # Task(c).t)
      OBVIOUS
    <2>5. PICK e : e = AfterWrite(Task(c).do, ch)
      OBVIOUS
    <2>6. StepsTo(Task(c).do, e) /\ e \in Written \cup {<<>>}
      BY <2>2, <2>5, DeploySteps
    <2>7. Continue(c, e, <<>>) /\ e \in DosOf(c) \cup {<<>>}
      BY <1>1, <2>2, <2>3, <2>4, <2>5, <2>6, <1>a DEF Write
    <2>8. DeployList(c)
      BY <1>0, <2>1, <2>2, KindOfList
    <2>9. file' = [file EXCEPT ![x] = Task(c).t] /\ Task(c).t \in Specs /\ missing' = missing \ {x}
          /\ UNCHANGED <<deps, pods, up, failed>>
      BY <1>0, <1>1, <2>1, <2>3, PodStage DEF Write, store
    <2>10. file'[x] # Absent /\ \A p \in Pods : p # x => file'[p] = file[p]
      BY <1>0, <2>9, NamesAssumption DEF StateType
    <2>11. PodDeployed(c, x)'
      BY <1>0, <2>1, <2>3, <2>6, <2>7, <2>8, <2>9, <2>10, DeployedNow
    <2>. QED
      BY <2>1, <2>3, <2>6, <2>7, <2>9, <2>10, <2>11, DeployByClient
  <1>2. ASSUME NEW s \in {"sync", "create", "start", "restart"}, Doing(c, s),
               NEW e, \/ e = Tail(Task(c).do)
                      \/ Task(c).do \in Synced /\ e = <<"create">> \o Tail(Task(c).do),
               Continue(c, e, <<>>), UNCHANGED <<deps, file, up, failed, missing>>,
               \A p \in Pods : p # Task(c).pod => pods'[p] = pods[p]
        PROVE  DeployInv(c)'
    <2>1. s \in PodStages
      BY DEF PodStages
    <2>2. Task(c).do \in Written
      BY <1>0, <1>2, <2>1, ClientHead DEF Written, Starts, Restarts
    <2>3. Task(c).do \in Deploys /\ DosOf(c) = Deploys \cup Goes
      BY <1>0, <1>2, <1>a, <2>1, <2>2, ClientHead
    <2>4. PICK x \in Pods : x = Task(c).pod
      BY <1>0, <1>2, <2>1, PodStage
    <2>5. StepsTo(Task(c).do, e) /\ e \in DosOf(c) \cup {<<>>}
      BY <1>2, <1>a, <2>3, DeploySteps
    <2>6. DeployList(c)
      BY <1>0, <1>2, <2>3, KindOfList
    <2>7. ASSUME x \notin failed PROVE PodDeployed(c, x)'
      <3>1. Work(c, Written, x)
        BY <1>0, <1>2, <2>2, <2>4, WorkIs
      <3>2. file'[x] # Absent
        BY <1>2, <2>7, <3>1, DeployParts DEF PodDeployed
      <3>. QED
        BY <1>0, <1>2, <2>1, <2>4, <2>5, <2>6, <3>2, DeployedNow
    <2>8. /\ \A p \in Pods : p # x => /\ pods'[p] = pods[p] /\ file'[p] = file[p]
                                      /\ p \in missing => p \in missing'
          /\ failed' = failed
      BY <1>2, <2>4
    <2>. QED
      BY <1>2, <2>1, <2>4, <2>5, <2>7, <2>8, DeployByClient
  <1>3. ASSUME Sync(c) PROVE DeployInv(c)'
    <2>1. Doing(c, "sync") /\ Task(c).do \in Synced
      BY <1>0, <1>3, ClientHead DEF Sync, PodStages
    <2>2. \A p \in Pods : p # Task(c).pod => pods'[p] = pods[p]
      BY <1>0, <1>3 DEF Sync, StateType
    <2>3. PICK e : /\ e = Tail(Task(c).do) \/ e = <<"create">> \o Tail(Task(c).do)
                   /\ Continue(c, e, <<>>)
      BY <1>3 DEF Sync, Advance
    <2>. QED
      BY <1>2, <1>3, <2>1, <2>2, <2>3 DEF Sync, host, history
  <1>4. ASSUME CreateInstance(c) PROVE DeployInv(c)'
    <2>1. \A p \in Pods : p # Task(c).pod => pods'[p] = pods[p]
      BY <1>0, <1>4 DEF CreateInstance, StateType
    <2>. QED
      BY <1>2, <1>4, <2>1 DEF CreateInstance, Advance, host, history
  <1>5. ASSUME Run(c) PROVE DeployInv(c)'
    BY <1>2, <1>5 DEF Run, Advance, store, history
  <1>. QED
    BY <1>1, <1>3, <1>4, <1>5

(* What is to be dropped is dropped after it is stopped and unlinked. *)
LEMMA DropSteps ==
  ASSUME NEW do \in Drops, do \in Stops \/ do \in {<<"unlink", "drop">>, <<"unlink">>}
  PROVE  Tail(do) \in Drops
  <1>1. do \in {<<"stop", "unlink", "drop">>, <<"unlink", "drop">>}
    <2>1. <<"drop">> \notin Stops /\ <<"drop">> # <<"unlink">>
      BY DEF Stops
    <2>2. <<"drop">> # <<"unlink", "drop">>
      OBVIOUS
    <2>. QED
      BY <2>1, <2>2, Zenon DEF Drops
  <1>2. /\ Tail(<<"stop", "unlink", "drop">>) = <<"unlink", "drop">>
        /\ Tail(<<"unlink", "drop">>) = <<"drop">>
    BY ShortTails
  <1>. QED
    BY <1>1, <1>2, Zenon DEF Drops

LEMMA DeployGoSteps ==
  ASSUME TypeInv, NEW c \in Actors, c # Main, Actors = {c, Main}, DeployInv(c)
  PROVE  /\ StopUnit(c) => DeployInv(c)'
         /\ Unlink(c) => DeployInv(c)'
         /\ DropPod(c) => DeployInv(c)'
  <1>0. TodoType /\ StateType /\ ListInv(c)
    BY TypeParts, DeployParts
  <1>a. Stops \subseteq Goes /\ Unlinks \subseteq Goes /\ Drops \subseteq Goes
    BY DEF Goes
  <1>b. Writes \subseteq Deploys /\ Written \subseteq Deploys
    BY DEF Deploys
  <1>1. ASSUME NEW s \in {"stop", "unlink", "drop"}, Doing(c, s), Advance(c),
               UNCHANGED <<deps, up, failed, missing>>,
               \A p \in Pods : p # Task(c).pod => pods'[p] = pods[p] /\ file'[p] = file[p],
               NEW x \in Pods, x = Task(c).pod,
               \/ pods'[x] = Absent /\ file'[x] = file[x]
               \/ /\ s \in {"stop", "unlink"} /\ pods'[x] = pods[x]
                  /\ file'[x] = file[x] \/ s = "unlink"
        PROVE  DeployInv(c)'
    <2>1. s \in PodStages
      BY DEF PodStages
    <2>2. /\ Task(c).do \in Goes /\ DosOf(c) = Deploys \cup Goes
          /\ s = "unlink" => Task(c).do \in Unlinks
          /\ s = "stop" => Task(c).do \in Stops
      BY <1>0, <1>1, <1>a, <2>1, ClientHead DEF Unlinks, Drops
    <2>3. PICK e : e = Tail(Task(c).do)
      OBVIOUS
    <2>4. StepsTo(Task(c).do, e) /\ e \in DosOf(c) \cup {<<>>} /\ e \notin Written /\ Continue(c, e, <<>>)
      BY <1>1, <2>2, <2>3, GoSteps DEF StepsTo, Advance
    <2>5. GoList(c)
      BY <1>0, <1>1, <2>2, KindOfList
    <2>6. ASSUME x \notin failed PROVE PodDeployed(c, x)'
      <3>1. PodDeployed(c, x)
        BY <2>6, DeployParts
      <3>2. /\ Asked(c, x)' <=> Asked(c, x)
            /\ Busy(c, Purges)' <=> Busy(c, Purges)
            /\ HealsReplica(x) => HealsReplica(x)'
            /\ HealsPod(x) => HealsPod(x)'
            /\ \A dos : dos \subseteq AllDos =>
                 /\ Work(c, dos, x) <=> Task(c).do \in dos \/ LaterWork(c, dos, x)
                 /\ Work(c, dos, x)' <=> e \in dos \/ LaterWork(c, dos, x)
        BY <1>0, <1>1, <2>1, <2>4, AtClientPod
      <3>3. ~Work(c, Writes, x) /\ ~Work(c, Written, x) /\ ~Work(c, Written, x)'
        BY <1>b, <2>4, <2>5, <3>2, OneKind, FamiliesOfPods
      <3>4. Work(c, Unlinks, x)' => Work(c, Unlinks, x)
        BY <2>4, <3>2, FamiliesOfPods DEF StepsTo
      <3>5. s \in {"stop", "unlink"} /\ (Work(c, Drops, x) \/ Busy(c, Purges))
              => Work(c, Drops, x)' \/ Busy(c, Purges)'
        <4>1. s \in {"stop", "unlink"} /\ Task(c).do \in Drops => e \in Drops
          BY <1>0, <1>1, <2>1, <2>3, ClientHead, DropSteps
        <4>. QED
          BY <3>2, <4>1, FamiliesOfPods
      <3>6. s = "unlink" => Work(c, Unlinks, x)
        BY <2>2, <3>2, FamiliesOfPods
      <3>7. ReplicaIsDeployed(c, x)'
        <4>1. CASE file'[x] = file[x]
          BY <1>1, <3>1, <3>2, <3>3, <4>1, DeployParts DEF PodDeployed
        <4>2. CASE s = "unlink"
          BY <1>1, <3>1, <3>2, <3>6, <4>2, DeployParts DEF PodDeployed
        <4>. QED
          BY <1>1, <4>1, <4>2
      <3>8. StoredIsDeployed(c, x)'
        <4>1. CASE pods'[x] = Absent
          BY <4>1, DeployParts DEF Stored
        <4>2. CASE pods'[x] = pods[x] /\ file'[x] = file[x] /\ s \in {"stop", "unlink"}
          BY <1>1, <3>1, <3>2, <3>3, <3>5, <4>2, DeployParts DEF PodDeployed, Stored
        <4>3. CASE s = "unlink"
          <5>1. Work(c, Stops \cup Unlinks, x)
            BY <2>2, <3>2, <4>3, FamiliesOfPods
          <5>2. Work(c, Drops, x) \/ Busy(c, Purges)
            BY <2>5, <5>1 DEF GoList
          <5>. QED
            BY <3>5, <4>3, <5>2, DeployParts
        <4>. QED
          BY <1>1, <4>1, <4>2, <4>3
      <3>9. Work(c, Unlinks, x)' => x \in missing' \/ ~Asked(c, x)'
        BY <1>1, <3>1, <3>2, <3>4 DEF PodDeployed
      <3>. QED
        BY <3>3, <3>7, <3>8, <3>9 DEF PodDeployed
    <2>7. /\ \A p \in Pods : p # x => /\ pods'[p] = pods[p] /\ file'[p] = file[p]
                                      /\ p \in missing => p \in missing'
          /\ failed' = failed
      BY <1>1
    <2>. QED
      BY <1>1, <2>1, <2>4, <2>6, <2>7, DeployByClient
  <1>2. ASSUME NEW s \in {"stop", "unlink", "drop"}, Doing(c, s) PROVE \E x \in Pods : x = Task(c).pod
    BY <1>0, <1>2, PodStage DEF PodStages
  <1>3. ASSUME StopUnit(c) PROVE DeployInv(c)'
    BY <1>1, <1>2, <1>3 DEF StopUnit, store, history
  <1>4. ASSUME Unlink(c) PROVE DeployInv(c)'
    <2>1. PICK x \in Pods : x = Task(c).pod
      BY <1>2, <1>4 DEF Unlink
    <2>2. \A p \in Pods : p # x => file'[p] = file[p]
      BY <1>0, <1>4, <2>1 DEF Unlink, StateType
    <2>. QED
      BY <1>1, <1>4, <2>1, <2>2 DEF Unlink, store, history
  <1>5. ASSUME DropPod(c) PROVE DeployInv(c)'
    <2>1. PICK x \in Pods : x = Task(c).pod
      BY <1>2, <1>5 DEF DropPod
    <2>2. pods'[x] = Absent /\ \A p \in Pods : p # x => pods'[p] = pods[p]
      BY <1>0, <1>5, <2>1 DEF DropPod, StateType
    <2>. QED
      BY <1>1, <1>5, <2>1, <2>2 DEF DropPod, host
  <1>. QED
    BY <1>3, <1>4, <1>5

LEMMA DeployFailSteps ==
  ASSUME TypeInv, NEW c \in Actors, c # Main, Actors = {c, Main}, DeployInv(c), NEW a \in Actors
  PROVE  Fails(a) => DeployInv(c)'
  <1>0. TodoType /\ StateType /\ ListInv(c) /\ Main \in Actors
    BY TypeParts, DeployParts DEF Actors
  <1>1. ASSUME NEW s \in {"write", "rewrite", "start", "restart", "stop", "unlink"}, Doing(a, s),
               NEW e, e = Tail(Task(a).do) \/ e = <<>>, Continue(a, e, <<>>),
               UNCHANGED <<deps, pods, file, up, missing>>, failed' = failed \cup {Task(a).pod}
        PROVE  DeployInv(c)'
    <2>1. s \in PodStages
      BY DEF PodStages
    <2>2. PICK x \in Pods : x = Task(a).pod
      BY <1>0, <1>1, <2>1, PodStage
    <2>3. Task(a).do \in DosOf(a) /\ Task(a).do \in AllDos
      BY <1>0, <1>1, <2>1, PodStage DEF PodTasks
    <2>4. e \in DosOf(a) \cup {<<>>}
      BY <1>1, <2>3, Tails DEF DosOf
    <2>5. x \in failed' /\ failed \subseteq failed'
      BY <1>1, <2>2
    <2>6. CASE a = Main
      BY <1>0, <1>1, <2>1, <2>2, <2>4, <2>5, <2>6, DeployByMain
    <2>7. CASE a = c
      <3>1. StepsTo(Task(c).do, e)
        BY <1>1, <2>3, <2>7, DeploySteps, GoSteps, EndSteps DEF DosOf
      <3>. QED
        BY <1>0, <1>1, <2>1, <2>2, <2>4, <2>5, <2>7, <3>1, DeployByClient
    <2>. QED
      BY <2>6, <2>7
  <1>2. ASSUME WriteFails(a) PROVE DeployInv(c)'
    <2>1. PICK s \in {"write", "rewrite"} : Doing(a, s)
      BY <1>2 DEF WriteFails
    <2>. QED
      BY <1>1, <1>2, <2>1 DEF WriteFails, Skip, store, host
  <1>3. ASSUME RunFails(a) PROVE DeployInv(c)'
    <2>1. PICK s \in {"start", "restart"} : Doing(a, s)
      BY <1>3 DEF RunFails
    <2>. QED
      BY <1>1, <1>3, <2>1 DEF RunFails, Advance, store
  <1>4. ASSUME TeardownFails(a) PROVE DeployInv(c)'
    <2>1. PICK s \in {"stop", "unlink"} : Doing(a, s)
      BY <1>4 DEF TeardownFails
    <2>. QED
      BY <1>1, <1>4, <2>1 DEF TeardownFails, Advance, store, host
  <1>. QED
    BY <1>2, <1>3, <1>4 DEF Fails

(* Main's steps on one pod change what a client is doing to no pod. *)
LEMMA AtMainPod ==
  ASSUME TodoType, NEW c \in Actors, c # Main, Actors = {c, Main}, NEW s \in PodStages, Doing(Main, s),
         NEW e \in DosOf(Main) \cup {<<>>}, Continue(Main, e, <<>>), deps' = deps,
         NEW x, x = Task(Main).pod
  PROVE  /\ Asked(c, x)' <=> Asked(c, x)
         /\ Busy(c, Purges)' <=> Busy(c, Purges)
         /\ \A dos : dos \subseteq AllDos => (Work(c, dos, x)' <=> Work(c, dos, x))
         /\ e \in Heals => HealsReplica(x)' /\ HealsPod(x)'
         /\ Task(Main).do \notin Heals => /\ HealsReplica(x) => HealsReplica(x)'
                                          /\ HealsPod(x) => HealsPod(x)'
  <1>0. Main \in Actors
    BY DEF Actors
  <1>1. /\ Asked(c, x)' <=> Asked(c, x)
        /\ Busy(c, Purges)' <=> Busy(c, Purges)
        /\ \A dos : dos \subseteq AllDos => (Work(c, dos, x)' <=> Work(c, dos, x))
        /\ Busy(Main, {<<"bootDeps">>})' <=> Busy(Main, {<<"bootDeps">>})
        /\ Busy(Main, {<<"bootPods">>})' <=> Busy(Main, {<<"bootPods">>})
        /\ \A d : Restored(d, x) => Restored(d, x)'
    BY <1>0, PodStepFrame, Zenon
  <1>2. /\ Work(Main, Heals, x) <=> Task(Main).do \in Heals \/ LaterWork(Main, Heals, x)
        /\ Work(Main, Heals, x)' <=> e \in Heals \/ LaterWork(Main, Heals, x)
    BY <1>0, PodStepView, FamiliesOfPods, Zenon
  <1>. QED
    BY <1>1, <1>2, Zenon DEF HealsReplica, HealsPod

LEMMA AtMainDeployed ==
  ASSUME TodoType, NEW c \in Actors, c # Main, Actors = {c, Main}, NEW s \in PodStages, Doing(Main, s),
         NEW e \in DosOf(Main) \cup {<<>>}, Continue(Main, e, <<>>), deps' = deps,
         NEW x, x = Task(Main).pod, PodDeployed(c, x), up' = up,
         x \in missing => x \in missing', file'[x] = file[x],
         Task(Main).do \notin Heals \/ e \in Heals \/ file[x] # Absent,
         pods'[x] \in {pods[x], Absent} \/ pods'[x].t = Stub \/ e \in Heals
  PROVE  PodDeployed(c, x)'
  <1>1. /\ Asked(c, x)' <=> Asked(c, x)
        /\ Busy(c, Purges)' <=> Busy(c, Purges)
        /\ \A dos : dos \subseteq AllDos => (Work(c, dos, x)' <=> Work(c, dos, x))
        /\ e \in Heals => HealsReplica(x)' /\ HealsPod(x)'
        /\ Task(Main).do \notin Heals => /\ HealsReplica(x) => HealsReplica(x)'
                                         /\ HealsPod(x) => HealsPod(x)'
    BY AtMainPod
  <1>2. /\ Work(c, Writes, x)' <=> Work(c, Writes, x)
        /\ Work(c, Written, x)' <=> Work(c, Written, x)
        /\ Work(c, Unlinks, x)' <=> Work(c, Unlinks, x)
        /\ Work(c, Drops, x)' <=> Work(c, Drops, x)
    BY <1>1, FamiliesOfPods, Zenon
  <1>3. ReplicaIsDeployed(c, x)'
    BY <1>1, <1>2, DeployParts DEF PodDeployed
  <1>4. StoredIsDeployed(c, x)'
    BY <1>1, <1>2, DeployParts DEF PodDeployed, Stored
  <1>. QED
    BY <1>1, <1>2, <1>3, <1>4 DEF PodDeployed

LEMMA MainDos ==
  /\ <<"regen">> \in Heals /\ <<"create", "regen">> \in Heals /\ <<"rewrite">> \in Heals
  /\ <<"start">> \notin Heals /\ <<"prune">> \notin Heals /\ <<"pod">> \notin Heals
  /\ \A do \in Imports \cup Prunes : do \notin Heals
  /\ Heals \subseteq Mains
  /\ Tail(<<"sync", "regen">>) = <<"regen">> /\ Tail(<<"create", "regen">>) = <<"regen">>
  /\ <<"create">> \o Tail(<<"sync", "regen">>) = <<"create", "regen">>
  <1>1. Tail(<<"sync", "regen">>) = <<"regen">> /\ Tail(<<"create", "regen">>) = <<"regen">>
    BY ShortTails
  <1>2. <<"create">> \o <<"regen">> = <<"create", "regen">>
    BY SecondStage, Zenon
  <1>3. \A do \in Imports \cup Prunes : do \notin Heals
    BY DEF Imports, Prunes, Heals
  <1>4. <<"start">> \notin Heals /\ <<"prune">> \notin Heals /\ <<"pod">> \notin Heals
    BY DEF Heals
  <1>. QED
    BY <1>1, <1>2, <1>3, <1>4, Zenon DEF Heals, Mains

LEMMA MainHealHead ==
  ASSUME TodoType, Main \in Actors, NEW s \in PodStages, Doing(Main, s)
  PROVE  Task(Main).do \in Heals => s \in {"sync", "create", "regen", "rewrite"}
  BY FirstTask DEF Heals

LEMMA DeployMainSteps ==
  ASSUME TypeInv, NEW c \in Actors, c # Main, Actors = {c, Main}, DeployInv(c)
  PROVE  /\ Sync(Main) => DeployInv(c)'
         /\ CreateInstance(Main) => DeployInv(c)'
         /\ Run(Main) => DeployInv(c)'
         /\ Regenerate(Main) => DeployInv(c)'
         /\ ImportIntoNamespace(Main) => DeployInv(c)'
         /\ ImportPod(Main) => DeployInv(c)'
         /\ CheckUnit(Main) => DeployInv(c)'
         /\ PrunePod(Main) => DeployInv(c)'
  <1>0. TodoType /\ StateType /\ Main \in Actors
    BY TypeParts DEF Actors
  <1>1. ASSUME NEW s \in PodStages, Doing(Main, s),
               NEW e \in Heals \cup {<<>>, Tail(Task(Main).do)}, Continue(Main, e, <<>>),
               UNCHANGED <<deps, file, up, failed, missing>>,
               \A p \in Pods : p # Task(Main).pod => pods'[p] = pods[p],
               NEW x \in Pods, x = Task(Main).pod,
               Task(Main).do \notin Heals \/ e \in Heals \/ file[x] # Absent,
               pods'[x] \in {pods[x], Absent} \/ pods'[x].t = Stub \/ e \in Heals
        PROVE  DeployInv(c)'
    <2>1. Task(Main).do \in Mains /\ DosOf(Main) = Mains /\ Task(Main).do \in AllDos
      BY <1>0, <1>1, MainHead DEF AllDos
    <2>2. e \in DosOf(Main) \cup {<<>>}
      BY <1>1, <2>1, Tails, MainDos
    <2>3. ASSUME x \notin failed PROVE PodDeployed(c, x)'
      <3>1. PodDeployed(c, x) /\ file'[x] = file[x]
        BY <1>1, <2>3, DeployParts
      <3>. QED
        BY <1>0, <1>1, <2>2, <3>1, AtMainDeployed
    <2>4. /\ failed' = failed
          /\ \A p \in Pods : p # x => /\ pods'[p] = pods[p] /\ file'[p] = file[p]
                                      /\ p \in missing => p \in missing'
      BY <1>1
    <2>. QED
      BY <1>0, <1>1, <2>2, <2>3, <2>4, DeployByMain
  <1>2. ASSUME NEW s \in PodStages, Doing(Main, s) PROVE \E x \in Pods : x = Task(Main).pod
    BY <1>0, <1>2, PodStage
  <1>3. ASSUME Sync(Main) PROVE DeployInv(c)'
    <2>1. Doing(Main, "sync") /\ "sync" \in PodStages /\ Task(Main).do = <<"sync", "regen">>
      BY <1>0, <1>3, MainHead DEF Sync, PodStages
    <2>2. PICK x \in Pods : x = Task(Main).pod
      BY <1>2, <2>1
    <2>3. \A p \in Pods : p # Task(Main).pod => pods'[p] = pods[p]
      BY <1>0, <1>3 DEF Sync, StateType
    <2>4. PICK e : e \in {<<"regen">>, <<"create", "regen">>} /\ Continue(Main, e, <<>>)
      <3>1. Continue(Main, Tail(Task(Main).do), <<>>) \/ Continue(Main, <<"create">> \o Tail(Task(Main).do), <<>>)
        BY <1>3 DEF Sync, Advance
      <3>. QED
        BY <2>1, <3>1, MainDos
    <2>5. e \in Heals
      BY <2>4, MainDos
    <2>. QED
      BY <1>1, <1>3, <2>1, <2>2, <2>3, <2>4, <2>5 DEF Sync, host, history
  <1>4. ASSUME CreateInstance(Main) PROVE DeployInv(c)'
    <2>1. Doing(Main, "create") /\ "create" \in PodStages /\ Task(Main).do = <<"create", "regen">>
      BY <1>0, <1>4, MainHead DEF CreateInstance, PodStages
    <2>2. PICK x \in Pods : x = Task(Main).pod
      BY <1>2, <2>1
    <2>3. \A p \in Pods : p # Task(Main).pod => pods'[p] = pods[p]
      BY <1>0, <1>4 DEF CreateInstance, StateType
    <2>4. PICK e : e = <<"regen">> /\ Continue(Main, e, <<>>)
      BY <1>4, <2>1, MainDos DEF CreateInstance, Advance
    <2>5. e \in Heals
      BY <2>4, MainDos
    <2>. QED
      BY <1>1, <1>4, <2>1, <2>2, <2>3, <2>4, <2>5 DEF CreateInstance, host, history
  <1>5. ASSUME Run(Main) PROVE DeployInv(c)'
    <2>1. PICK s \in {"start", "restart"} : Doing(Main, s)
      BY <1>5 DEF Run
    <2>2. s \in PodStages
      BY DEF PodStages
    <2>3. Task(Main).do \notin Heals
      BY <1>0, <2>1, <2>2, MainHealHead
    <2>4. PICK x \in Pods : x = Task(Main).pod
      BY <1>2, <2>1, <2>2
    <2>5. Continue(Main, Tail(Task(Main).do), <<>>) /\ UNCHANGED <<deps, pods, file, up, failed, missing>>
      BY <1>5 DEF Run, Advance, store, history
    <2>. QED
      BY <1>1, <2>1, <2>2, <2>3, <2>4, <2>5
  <1>6. ASSUME Regenerate(Main) PROVE DeployInv(c)'
    <2>1. Doing(Main, "regen") /\ "regen" \in PodStages
      BY <1>6 DEF Regenerate, PodStages
    <2>2. PICK x \in Pods : x = Task(Main).pod
      BY <1>2, <2>1
    <2>3. UNCHANGED <<deps, pods, file, up, failed, missing>>
      BY <1>6 DEF Regenerate, store, host, history
    <2>4. CASE file[x] # Absent
      <3>1. Continue(Main, Tail(Task(Main).do), <<>>)
        BY <1>6, <2>2, <2>4 DEF Regenerate, Advance
      <3>. QED
        BY <1>1, <2>1, <2>2, <2>3, <2>4, <3>1
    <2>5. CASE file[x] = Absent
      <3>1. Continue(Main, <<"rewrite">>, <<>>) /\ <<"rewrite">> \in Heals
        BY <1>6, <2>2, <2>5, MainDos DEF Regenerate
      <3>. QED
        BY <1>1, <2>1, <2>2, <2>3, <3>1
    <2>. QED
      BY <2>4, <2>5
  <1>7. ASSUME NEW s \in {"ns", "pod", "known", "prune"}, Doing(Main, s),
               Advance(Main) \/ Skip(Main), UNCHANGED <<deps, file, up, failed, missing>>,
               \A p \in Pods : p # Task(Main).pod => pods'[p] = pods[p],
               \A x \in Pods : x = Task(Main).pod =>
                 pods'[x] \in {pods[x], Absent} \/ pods'[x].t = Stub
        PROVE  DeployInv(c)'
    <2>1. s \in PodStages
      BY DEF PodStages
    <2>2. Task(Main).do \notin Heals
      BY <1>0, <1>7, <2>1, MainHealHead
    <2>3. PICK x \in Pods : x = Task(Main).pod
      BY <1>2, <1>7, <2>1
    <2>4. PICK e \in {<<>>, Tail(Task(Main).do)} : Continue(Main, e, <<>>)
      BY <1>7 DEF Advance, Skip
    <2>. QED
      BY <1>1, <1>7, <2>1, <2>2, <2>3, <2>4
  <1>8. ASSUME ImportIntoNamespace(Main) PROVE DeployInv(c)'
    BY <1>7, <1>8 DEF ImportIntoNamespace, store, host, history
  <1>9. ASSUME ImportPod(Main) PROVE DeployInv(c)'
    <2>1. PICK x \in Pods : x = Task(Main).pod
      BY <1>2, <1>9 DEF ImportPod, PodStages
    <2>5. PICK o : o = (x \in Instances)
      OBVIOUS
    <2>6. PICK v : v = [t |-> Stub, owned |-> o]
      OBVIOUS
    <2>2. v.t = Stub
      BY <2>6
    <2>3. pods' = pods \/ pods' = [pods EXCEPT ![x] = v]
      BY <1>9, <2>1, <2>5, <2>6, Zenon DEF ImportPod
    <2>4. /\ \A p \in Pods : p # x => pods'[p] = pods[p]
          /\ pods'[x] = pods[x] \/ pods'[x].t = Stub
      BY <1>0, <2>2, <2>3 DEF StateType
    <2>. QED
      BY <1>7, <1>9, <2>1, <2>4 DEF ImportPod, host
  <1>10. ASSUME CheckUnit(Main) PROVE DeployInv(c)'
    BY <1>7, <1>10 DEF CheckUnit, store, host, history
  <1>11. ASSUME PrunePod(Main) PROVE DeployInv(c)'
    <2>1. PICK x \in Pods : x = Task(Main).pod
      BY <1>2, <1>11 DEF PrunePod, PodStages
    <2>2. pods'[x] = Absent /\ \A p \in Pods : p # x => pods'[p] = pods[p]
      BY <1>0, <1>11, <2>1 DEF PrunePod, StateType
    <2>. QED
      BY <1>7, <1>11, <2>1, <2>2 DEF PrunePod, host
  <1>. QED
    BY <1>3, <1>4, <1>5, <1>6, <1>8, <1>9, <1>10, <1>11

(* What a list still holds after its first task is done with. *)
GoesOn(a) ==
  \A j \in 2..Len(todo[a]) : \E k \in DOMAIN todo'[a] : todo'[a][k] = todo[a][j]

LEMMA MoreStays ==
  ASSUME TodoType, NEW a \in Actors, NEW s, Doing(a, s), NEW more \in Seq(TasksOf(a)),
         Continue(a, <<>>, more)
  PROVE  /\ \A b \in Actors \ {a} : todo'[b] = todo[b]
         /\ DOMAIN todo'[a] = 1..Len(todo'[a]) /\ Len(todo'[a]) = Len(more) + Len(todo[a]) - 1
         /\ \A j \in 1..Len(more) : j \in DOMAIN todo'[a] /\ todo'[a][j] = more[j]
         /\ \A j \in DOMAIN todo'[a] : j > Len(more) =>
              /\ j - Len(more) + 1 \in 2..Len(todo[a])
              /\ todo'[a][j] = todo[a][j - Len(more) + 1]
         /\ GoesOn(a)
  <1>1. todo' = [todo EXCEPT ![a] = Rest(todo[a], <<>>, more)]
    BY ContinueIs, Zenon
  <1>2. todo[a] \in Seq(TasksOf(a)) /\ todo[a] # <<>> /\ Len(todo[a]) \in Nat \ {0}
    BY FirstTask
  <1>3. PICK r : r = Rest(todo[a], <<>>, more)
    OBVIOUS
  <1>4. /\ r \in Seq(TasksOf(a)) /\ Len(r) = Len(more) + Len(todo[a]) - 1
        /\ \A j \in 1..Len(more) : r[j] = more[j]
        /\ \A j \in (Len(more) + 1)..(Len(more) + Len(todo[a]) - 1) :
             r[j] = todo[a][j - Len(more) + 1]
    <2> DEFINE q == todo[a]
               S == TasksOf(a)
    <2>1. q \in Seq(S) /\ q # <<>> /\ more \in Seq(S)
      BY <1>2
    <2> HIDE DEF q, S
    <2>2. /\ Rest(q, <<>>, more) \in Seq(S)
          /\ Len(Rest(q, <<>>, more)) = Len(more) + Len(q) - 1
          /\ \A j \in 1..Len(more) : Rest(q, <<>>, more)[j] = more[j]
          /\ \A j \in (Len(more) + 1)..(Len(more) + Len(q) - 1) :
               Rest(q, <<>>, more)[j] = q[j - Len(more) + 1]
      BY <2>1, RestMore, Zenon
    <2>. QED
      BY <1>3, <2>2, Zenon DEF q, S
  <1>5. todo'[a] = r /\ \A b \in Actors \ {a} : todo'[b] = todo[b]
    BY <1>1, <1>3, <1>4, NewList, Zenon
  <1>6. Len(more) \in Nat /\ DOMAIN r = 1..Len(r)
    BY <1>4
  <1>7. \A j \in 1..Len(more) : j \in DOMAIN r
    BY <1>2, <1>4, <1>6
  <1>8. \A j \in DOMAIN r : j > Len(more) =>
          /\ j - Len(more) + 1 \in 2..Len(todo[a])
          /\ r[j] = todo[a][j - Len(more) + 1]
    BY <1>2, <1>4, <1>6, SMTT(30)
  <1>9. ASSUME NEW j \in 2..Len(todo[a]) PROVE \E k \in DOMAIN r : r[k] = todo[a][j]
    <2>1. /\ j + Len(more) - 1 \in DOMAIN r /\ j + Len(more) - 1 > Len(more)
          /\ (j + Len(more) - 1) - Len(more) + 1 = j
      BY <1>2, <1>4, <1>6
    <2>. QED
      BY <1>8, <2>1
  <1>. QED
    BY <1>4, <1>5, <1>6, <1>7, <1>8, <1>9, Zenon DEF GoesOn

LEMMA PodGoesOn ==
  ASSUME TodoType, NEW a \in Actors, NEW s \in PodStages, Doing(a, s), Advance(a)
  PROVE  GoesOn(a) /\ \A b \in Actors \ {a} : todo'[b] = todo[b]
  <1> DEFINE e == Tail(Task(a).do)
  <1>1. e \in DosOf(a) \cup {<<>>} /\ Continue(a, e, <<>>)
    BY PodStage, Tails DEF PodTasks, Advance, DosOf
  <1> HIDE DEF e
  <1>2. Len(todo[a]) \in Nat \ {0} /\ DOMAIN todo'[a] = 1..Len(todo'[a])
    BY <1>1, FirstTask, ContinueAt
  <1>3. ASSUME NEW j \in 2..Len(todo[a]) PROVE \E k \in DOMAIN todo'[a] : todo'[a][k] = todo[a][j]
    <2>1. CASE e = <<>>
      <3>1. Len(todo'[a]) = Len(todo[a]) - 1
            /\ \A i \in 1..(Len(todo[a]) - 1) : todo'[a][i] = todo[a][i + 1]
        BY <1>1, <2>1, ContinueAt
      <3>2. j - 1 \in 1..(Len(todo[a]) - 1) /\ (j - 1) + 1 = j
        BY <1>2
      <3>. QED
        BY <1>2, <3>1, <3>2
    <2>2. CASE e # <<>>
      <3>1. Len(todo'[a]) = Len(todo[a]) /\ todo'[a][j] = todo[a][j]
        BY <1>1, <2>2, ContinueAt
      <3>. QED
        BY <1>2, <3>1
    <2>. QED
      BY <2>1, <2>2
  <1>. QED
    BY <1>1, <1>3, ContinueAt DEF GoesOn

LEMMA HealsGoOn ==
  ASSUME TodoType, Main \in Actors, NEW s, Doing(Main, s), GoesOn(Main), NEW p
  PROVE  /\ HealsReplica(p) =>
              \/ HealsReplica(p)' \/ s = "bootDeps"
              \/ Task(Main).do \in Heals /\ Task(Main).pod = p
              \/ s = "restore" /\ \E i \in 0..(Task(Main).n - 1) : p = Inst[Task(Main).dep][i]
         /\ HealsPod(p) =>
              HealsPod(p)' \/ s = "bootPods" \/ (Task(Main).do \in Heals /\ Task(Main).pod = p)
  <1>1. /\ \A j \in DOMAIN todo[Main] : j = 1 \/ j \in 2..Len(todo[Main])
        /\ todo[Main][1] = Task(Main) /\ Head(Task(Main).do) = s
    BY FirstTask
  <1>2. \A dos : Busy(Main, dos) => Busy(Main, dos)' \/ Task(Main).do \in dos
    BY <1>1, Zenon DEF Busy, Does, GoesOn
  <1>3. Work(Main, Heals, p) =>
          Work(Main, Heals, p)' \/ (Task(Main).do \in Heals /\ Task(Main).pod = p)
    BY <1>1, Zenon DEF Work, Does, GoesOn
  <1>4. ASSUME NEW d \in Deps, Restored(d, p)
        PROVE  \/ Restored(d, p)'
               \/ s = "restore" /\ \E i \in 0..(Task(Main).n - 1) : p = Inst[Task(Main).dep][i]
    <2>1. PICK j \in DOMAIN todo[Main] :
            /\ todo[Main][j].do = <<"restore">> /\ todo[Main][j].dep = d
            /\ \E i \in 0..(todo[Main][j].n - 1) : p = Inst[d][i]
      BY <1>4 DEF Restored, Does
    <2>2. CASE j = 1
      BY <1>1, <2>1, <2>2, PlainHeads
    <2>3. CASE j \in 2..Len(todo[Main])
      <3>1. PICK k \in DOMAIN todo'[Main] : todo'[Main][k] = todo[Main][j]
        BY <2>3 DEF GoesOn
      <3>2. /\ todo'[Main][k].do = <<"restore">> /\ todo'[Main][k].dep = d
            /\ \E i \in 0..(todo'[Main][k].n - 1) : p = Inst[d][i]
        BY <2>1, <3>1
      <3>. QED
        BY <3>2 DEF Restored, Does
    <2>. QED
      BY <1>1, <2>2, <2>3
  <1>5. /\ Busy(Main, {<<"bootDeps">>}) => Busy(Main, {<<"bootDeps">>})' \/ s = "bootDeps"
        /\ Busy(Main, {<<"bootPods">>}) => Busy(Main, {<<"bootPods">>})' \/ s = "bootPods"
    BY <1>1, <1>2, PlainHeads
  <1>. QED
    BY <1>3, <1>4, <1>5, Zenon DEF HealsReplica, HealsPod

LEMMA DeployByPass ==
  ASSUME TypeInv, NEW c \in Actors, c # Main, DeployInv(c), todo'[c] = todo[c],
         UNCHANGED <<pods, up, failed>>, missing \subseteq missing',
         \A d \in Deps : deps[d] # Absent => deps'[d] = deps[d],
         \A p \in Pods :
           /\ Asked(c, p)' => Asked(c, p) \/ p \in missing'
           /\ file'[p] = file[p] \/ file'[p] # Absent
           /\ HealsReplica(p) /\ Asked(c, p) /\ file'[p] = Absent => HealsReplica(p)'
           /\ HealsPod(p) /\ Stored(p) /\ file'[p] = Absent => HealsPod(p)'
  PROVE  DeployInv(c)'
  <1>1. ListInv(c)'
    BY DeployParts, ListFrame, Zenon
  <1>2. \A dos : (Busy(c, dos)' <=> Busy(c, dos)) /\ \A p : Work(c, dos, p)' <=> Work(c, dos, p)
    BY Zenon DEF Busy, Work, Does
  <1>3. ASSUME NEW p \in Pods \ failed' PROVE PodDeployed(c, p)'
    <2>1. PodDeployed(c, p)
      BY <1>3, DeployParts
    <2>2. /\ Busy(c, Purges)' <=> Busy(c, Purges)
          /\ Work(c, Writes, p)' <=> Work(c, Writes, p)
          /\ Work(c, Written, p)' <=> Work(c, Written, p)
          /\ Work(c, Drops, p)' <=> Work(c, Drops, p)
          /\ Work(c, Unlinks, p)' <=> Work(c, Unlinks, p)
      BY <1>2, Zenon
    <2>3. p \in Pods
      BY <1>3
    <2>4. ReplicaIsDeployed(c, p)'
      BY <2>1, <2>2, <2>3, DeployParts DEF PodDeployed
    <2>5. StoredIsDeployed(c, p)'
      BY <2>1, <2>2, <2>3, DeployParts DEF PodDeployed, Stored
    <2>. QED
      BY <2>1, <2>2, <2>3, <2>4, <2>5 DEF PodDeployed
  <1>. QED
    BY <1>1, <1>3, DeployParts, Zenon

LEMMA AskedSame ==
  ASSUME NEW c, todo'[c] = todo[c], deps' = deps
  PROVE  \A p : Asked(c, p)' <=> Asked(c, p)
  <1>1. /\ \A d : WorkOn(c, {<<"dropDep">>}, d)' <=> WorkOn(c, {<<"dropDep">>}, d)
        /\ Busy(c, Purges)' <=> Busy(c, Purges)
    BY Zenon DEF WorkOn, Busy, Does
  <1>2. \A d : Desired(d)' = Desired(d)
    BY DEF Desired
  <1>. QED
    BY <1>1, <1>2, Zenon DEF Asked

LEMMA DeployRewrite ==
  ASSUME TypeInv, NEW c \in Actors, c # Main, Actors = {c, Main}, DeployInv(c), Rewrite(Main)
  PROVE  DeployInv(c)'
  <1>0. TodoType /\ StateType /\ Main \in Actors
    BY TypeParts DEF Actors
  <1>1. Doing(Main, "rewrite") /\ "rewrite" \in PodStages
    BY DEF Rewrite, PodStages
  <1>2. PICK x \in Pods : x = Task(Main).pod
    BY <1>0, <1>1, PodStage
  <1>3. Task(Main).t \in Specs /\ file' = [file EXCEPT ![x] = Task(Main).t]
    BY <1>0, <1>1, <1>2, PodStage DEF Rewrite
  <1>4. file'[x] # Absent /\ \A p \in Pods : p # x => file'[p] = file[p]
    BY <1>0, <1>3, NamesAssumption DEF StateType
  <1>5. GoesOn(Main) /\ todo'[c] = todo[c]
    <2>1. CASE Advance(Main)
      BY <1>0, <1>1, <2>1, PodGoesOn
    <2>2. CASE todo' = [todo EXCEPT ![Main] = Tail(todo[Main])
                                                \o <<[Head(todo[Main]) EXCEPT !.do = <<"start">>]>>]
      <3>1. PICK y \in TasksOf(Main) : y = [Task(Main) EXCEPT !.do = <<"start">>]
        BY <1>0, <1>1, PodStage DEF DosOf, Mains
      <3>2. PICK q \in Seq(TasksOf(Main)) : q = todo[Main] /\ q # <<>> /\ Len(q) \in Nat \ {0}
        BY <1>0, <1>1, FirstTask
      <3>3. PICK r : r = Tail(q) \o <<y>>
        OBVIOUS
      <3>4. Tail(q) \in Seq(TasksOf(Main)) /\ Len(Tail(q)) = Len(q) - 1
            /\ \A j \in 1..(Len(q) - 1) : Tail(q)[j] = q[j + 1]
        BY <3>2, HeadTailProperties, EmptySeq
      <3>5. <<y>> \in Seq(TasksOf(Main)) /\ Len(<<y>>) = 1
        BY OneElement, SMTT(30)
      <3>6. /\ r \in Seq(TasksOf(Main)) /\ Len(r) = Len(Tail(q)) + Len(<<y>>)
            /\ \A j \in 1..Len(Tail(q)) : r[j] = Tail(q)[j]
        BY <3>3, <3>4, <3>5, Joined
      <3>7. todo'[Main] = r /\ \A b \in Actors \ {Main} : todo'[b] = todo[b]
        <4>1. todo' = [todo EXCEPT ![Main] = r]
          BY <2>2, <3>1, <3>2, <3>3, Zenon DEF Task
        <4>. QED
          BY <1>0, <3>6, <4>1, NewList
      <3>8. ASSUME NEW j \in 2..Len(q) PROVE \E k \in DOMAIN r : r[k] = q[j]
        <4>1. j - 1 \in 1..Len(Tail(q)) /\ (j - 1) + 1 = j /\ j - 1 \in DOMAIN r
          BY <3>2, <3>4, <3>5, <3>6
        <4>. QED
          BY <3>4, <3>6, <4>1
      <3>. QED
        BY <3>2, <3>7, <3>8 DEF GoesOn
    <2>. QED
      BY <2>1, <2>2 DEF Rewrite
  <1>6. UNCHANGED <<deps, pods, up, failed, missing>>
    BY DEF Rewrite, store, history
  <1>7. ASSUME NEW p \in Pods
        PROVE  /\ Asked(c, p)' => Asked(c, p) \/ p \in missing'
               /\ file'[p] = file[p] \/ file'[p] # Absent
               /\ HealsReplica(p) /\ Asked(c, p) /\ file'[p] = Absent => HealsReplica(p)'
               /\ HealsPod(p) /\ Stored(p) /\ file'[p] = Absent => HealsPod(p)'
    <2>1. Asked(c, p)' <=> Asked(c, p)
      BY <1>5, <1>6, AskedSame
    <2>2. /\ HealsReplica(p) => HealsReplica(p)' \/ Task(Main).pod = p
          /\ HealsPod(p) => HealsPod(p)' \/ Task(Main).pod = p
      BY <1>0, <1>1, <1>5, HealsGoOn
    <2>. QED
      BY <1>2, <1>4, <2>1, <2>2
  <1>. QED
    BY <1>5, <1>6, <1>7, DeployByPass

LEMMA DeployImportDeployment ==
  ASSUME TypeInv, NEW c \in Actors, c # Main, Actors = {c, Main}, DeployInv(c), ImportDeployment(Main)
  PROVE  DeployInv(c)'
  <1>0. TodoType /\ StateType /\ Main \in Actors
    BY TypeParts DEF Actors
  <1>1. Doing(Main, "dep") /\ "dep" \in PodStages
    BY DEF ImportDeployment, PodStages
  <1>2. GoesOn(Main) /\ todo'[c] = todo[c]
    BY <1>0, <1>1, PodGoesOn DEF ImportDeployment
  <1>3. UNCHANGED <<pods, file, up, failed>>
    BY DEF ImportDeployment, host
  <1>4. PICK ds : ds = {d \in DepOf(Task(Main).pod) : deps[d] = Absent}
    OBVIOUS
  <1>5. /\ deps' = [d \in Deps |-> IF d \in ds THEN [n |-> 1, t |-> Stub] ELSE deps[d]]
        /\ missing' = missing \cup {Inst[d][i] : d \in ds, i \in 0..(MaxReplicas - 1)}
    BY <1>4 DEF ImportDeployment
  <1>6. ds \subseteq Deps /\ \A d \in ds : deps[d] = Absent
    BY <1>4 DEF DepOf
  <1>7. \A d \in Deps : d \notin ds => deps'[d] = deps[d]
    BY <1>5
  <1>8. missing \subseteq missing' /\ \A d \in ds, i \in 0..(MaxReplicas - 1) : Inst[d][i] \in missing'
    BY <1>5
  <1>9. ASSUME NEW p \in Pods, Asked(c, p)' PROVE Asked(c, p) \/ p \in missing'
    <2>1. PICK d \in Deps : p \in Desired(d)' /\ ~WorkOn(c, {<<"dropDep">>}, d)' /\ ~Busy(c, Purges)'
      BY <1>9 DEF Asked
    <2>2. ~WorkOn(c, {<<"dropDep">>}, d) /\ ~Busy(c, Purges)
      BY <1>2, <2>1, Zenon DEF WorkOn, Busy, Does
    <2>3. CASE d \notin ds
      <3>1. Desired(d)' = Desired(d)
        BY <1>7, <2>3 DEF Desired
      <3>. QED
        BY <2>1, <2>2, <3>1 DEF Asked
    <2>4. CASE d \in ds
      <3>1. PICK v : v = [n |-> 1, t |-> Stub]
        OBVIOUS
      <3>2. v.n = 1
        BY <3>1
      <3>3. deps'[d] = v
        BY <1>5, <2>4, <3>1, Zenon
      <3>4. PICK i \in 0..(deps'[d].n - 1) : p = Inst[d][i]
        BY <2>1 DEF Desired
      <3>5. i = 0
        BY <3>2, <3>3, <3>4
      <3>6. 0 \in 0..(MaxReplicas - 1)
        BY <1>4, <2>4, NamesAssumption DEF DepOf
      <3>. QED
        BY <1>8, <2>4, <3>4, <3>5, <3>6
    <2>. QED
      BY <2>3, <2>4
  <1>10. Task(Main).do \notin Heals
    BY <1>0, <1>1, MainHealHead
  <1>11. ASSUME NEW p \in Pods
         PROVE  (HealsReplica(p) => HealsReplica(p)') /\ (HealsPod(p) => HealsPod(p)')
    BY <1>0, <1>1, <1>2, <1>10, HealsGoOn
  <1>. QED
    BY <1>2, <1>3, <1>6, <1>7, <1>8, <1>9, <1>11, DeployByPass

LEMMA DeployPlainMain ==
  ASSUME TypeInv, NEW c \in Actors, c # Main, Actors = {c, Main}, DeployInv(c),
         NEW s, Doing(Main, s), NEW more \in Seq(TasksOf(Main)), Continue(Main, <<>>, more),
         UNCHANGED <<store, host, up, history>>, Task(Main).do \notin Heals,
         s \in {"bootDeps", "restore"} => \A p \in Pods : HealsReplica(p) /\ Asked(c, p) => HealsReplica(p)',
         s = "bootPods" => \A p \in Pods : Stored(p) => HealsPod(p)'
  PROVE  DeployInv(c)'
  <1>0. TodoType /\ StateType /\ Main \in Actors
    BY TypeParts DEF Actors
  <1>1. GoesOn(Main) /\ todo'[c] = todo[c]
    BY <1>0, MoreStays
  <1>2. UNCHANGED <<deps, pods, file, up, failed, missing>>
    BY DEF store, host, history
  <1>3. ASSUME NEW p \in Pods
        PROVE  /\ HealsReplica(p) /\ Asked(c, p) => HealsReplica(p)'
               /\ HealsPod(p) /\ Stored(p) => HealsPod(p)'
    BY <1>0, <1>1, HealsGoOn
  <1>4. \A p : Asked(c, p)' <=> Asked(c, p)
    BY <1>1, <1>2, AskedSame
  <1>. QED
    BY <1>1, <1>2, <1>3, <1>4, DeployByPass

LEMMA DeployBootSteps ==
  ASSUME TypeInv, NEW c \in Actors, c # Main, Actors = {c, Main}, DeployInv(c)
  PROVE  /\ BootDeps(Main) => DeployInv(c)'
         /\ RestoreReplicas(Main) => DeployInv(c)'
         /\ BootPods(Main) => DeployInv(c)'
         /\ PruneCandidates(Main) => DeployInv(c)'
  <1>0. TodoType /\ StateType /\ Main \in Actors
    BY TypeParts DEF Actors
  <1>a. \A do \in {<<"bootDeps">>, <<"restore">>, <<"bootPods">>, <<"allPods">>} : do \notin Heals
    BY DEF Heals
  <1>b. /\ \A do : Seq(PodTasks({<<"regen">>})) \subseteq Seq(TasksOf(Main))
        /\ Seq(PodTasks({<<"sync", "regen">>})) \subseteq Seq(TasksOf(Main))
        /\ Seq(DepTasks({<<"restore">>})) \subseteq Seq(TasksOf(Main))
        /\ Seq(PodTasks({<<"known", "prune">>})) \subseteq Seq(TasksOf(Main))
    <2>1. /\ PodTasks({<<"regen">>}) \subseteq TasksOf(Main)
          /\ PodTasks({<<"sync", "regen">>}) \subseteq TasksOf(Main)
          /\ DepTasks({<<"restore">>}) \subseteq TasksOf(Main)
          /\ PodTasks({<<"known", "prune">>}) \subseteq TasksOf(Main)
      BY DEF TasksOf, MainTasks, PodTasks, DepTasks, Mains, Heals, Prunes
    <2>2. \A S, T : S \subseteq T => Seq(S) \subseteq Seq(T)
      OBVIOUS
    <2>. QED
      BY <2>1, <2>2, Zenon
  <1>1. ASSUME BootDeps(Main) PROVE DeployInv(c)'
    <2>1. Doing(Main, "bootDeps") /\ UNCHANGED <<store, host, up, history>>
      BY <1>1 DEF BootDeps
    <2>2. PICK ds \in Orders({d \in Deps : deps[d] # Absent}) :
            Continue(Main, <<>>, [j \in 1..Len(ds) |-> DepTask(<<"restore">>, ds[j])])
      BY <1>1 DEF BootDeps
    <2>3. PICK q : q = [j \in 1..Len(ds) |-> DepTask(<<"restore">>, ds[j])]
      OBVIOUS
    <2>4. /\ q \in Seq(DepTasks({<<"restore">>})) /\ Len(q) = Len(ds)
          /\ \A j \in 1..Len(ds) : /\ q[j].do = <<"restore">> /\ q[j].dep = ds[j]
                                   /\ q[j].n = deps[ds[j]].n
          /\ \A d \in Deps : deps[d] # Absent => \E j \in 1..Len(ds) : ds[j] = d
      <3> DEFINE x == [j \in 1..Len(ds) |-> DepTask(<<"restore">>, ds[j])]
      <3>1. /\ ds \in Seq(Deps) /\ x \in Seq(DepTasks({<<"restore">>})) /\ Len(x) = Len(ds)
            /\ \A j \in 1..Len(ds) : x[j].do = <<"restore">> /\ x[j].dep = ds[j]
                                      /\ x[j].n = deps[ds[j]].n /\ deps[ds[j]] # Absent
            /\ \A d \in Deps : deps[d] # Absent => \E j \in 1..Len(ds) : ds[j] = d
        BY <1>0, DepTasksIs
      <3>2. q = x
        BY <2>3
      <3> HIDE DEF x
      <3>. QED
        BY <3>1, <3>2, Zenon
    <2>5. q \in Seq(TasksOf(Main)) /\ Continue(Main, <<>>, q)
      BY <1>b, <2>2, <2>3, <2>4, Zenon
    <2>6. \A j \in 1..Len(q) : j \in DOMAIN todo'[Main] /\ todo'[Main][j] = q[j]
      BY <1>0, <2>1, <2>5, MoreStays
    <2>7. ASSUME NEW p \in Pods, Asked(c, p) PROVE HealsReplica(p)'
      <3>1. PICK d \in Deps : p \in Desired(d)
        BY <2>7 DEF Asked
      <3>2. deps[d] # Absent /\ \E i \in 0..(deps[d].n - 1) : p = Inst[d][i]
        BY <3>1 DEF Desired
      <3>3. PICK j \in 1..Len(ds) : ds[j] = d
        BY <2>4, <3>2
      <3>4. /\ j \in DOMAIN todo'[Main] /\ todo'[Main][j].do = <<"restore">>
            /\ todo'[Main][j].dep = d /\ todo'[Main][j].n = deps[d].n
        BY <2>4, <2>6, <3>3
      <3>5. Restored(d, p)'
        BY <3>2, <3>4 DEF Restored, Does
      <3>. QED
        BY <3>5 DEF HealsReplica
    <2>8. Task(Main).do = <<"bootDeps">>
      BY <1>0, <2>1, PlainStage
    <2>. QED
      BY <1>a, <2>1, <2>5, <2>7, <2>8, DeployPlainMain
  <1>2. ASSUME RestoreReplicas(Main) PROVE DeployInv(c)'
    <2>1. Doing(Main, "restore") /\ UNCHANGED <<store, host, up, history>>
      BY <1>2 DEF RestoreReplicas
    <2>2. Task(Main) \in DepTasks({<<"restore">>})
      BY <1>0, <2>1, PlainStage
    <2>3. /\ Task(Main).do = <<"restore">> /\ Task(Main).dep \in Deps
          /\ Task(Main).n \in 0..MaxReplicas /\ Task(Main).t \in Specs
      BY <2>2 DEF DepTasks
    <2>4. PICK d \in Deps : d = Task(Main).dep
      BY <2>3
    <2>5. PICK n \in 0..MaxReplicas : n = Task(Main).n
      BY <2>3
    <2>6. PICK ps : ps = Range_(d, 0, n)
      OBVIOUS
    <2>7. 0 \in 0..MaxReplicas
      BY NamesAssumption
    <2>8. /\ ps \in Seq(Pods)
          /\ \A i \in 0..(n - 1) : \E j \in 1..Len(ps) : ps[j] = Inst[d][i]
      BY <2>6, <2>7, RangeIs, Zenon
    <2>9. PICK t \in Specs : t = Task(Main).t
      BY <2>3
    <2>10. PICK q : q = [i \in 1..Len(ps) |-> PodTask(<<"sync", "regen">>, ps[i], t, TRUE)]
      OBVIOUS
    <2>11. /\ q \in Seq(PodTasks({<<"sync", "regen">>})) /\ Len(q) = Len(ps)
           /\ \A j \in 1..Len(ps) : q[j].do = <<"sync", "regen">> /\ q[j].pod = ps[j]
      BY <2>8, <2>10, RestoresIs, Zenon
    <2>12. q \in Seq(TasksOf(Main)) /\ Continue(Main, <<>>, q)
      BY <1>2, <1>b, <2>4, <2>5, <2>6, <2>9, <2>10, <2>11, Zenon DEF RestoreReplicas
    <2>13. GoesOn(Main) /\ \A j \in 1..Len(q) : j \in DOMAIN todo'[Main] /\ todo'[Main][j] = q[j]
      BY <1>0, <2>1, <2>12, MoreStays
    <2>14. <<"sync", "regen">> \in Heals
      BY DEF Heals
    <2>15. ASSUME NEW p \in Pods, HealsReplica(p) PROVE HealsReplica(p)'
      <3>1. CASE \E i \in 0..(n - 1) : p = Inst[d][i]
        <4>1. PICK j \in 1..Len(ps) : ps[j] = p
          BY <2>8, <3>1
        <4>2. j \in DOMAIN todo'[Main] /\ todo'[Main][j].do \in Heals /\ todo'[Main][j].pod = p
          BY <2>11, <2>13, <2>14, <4>1
        <4>. QED
          BY <4>2 DEF HealsReplica, Work, Does
      <3>2. CASE ~\E i \in 0..(n - 1) : p = Inst[d][i]
        <4>1. Task(Main).do \notin Heals
          BY <1>a, <2>3
        <4>. QED
          BY <1>0, <2>1, <2>4, <2>5, <2>13, <2>15, <3>2, <4>1, HealsGoOn
      <3>. QED
        BY <3>1, <3>2
    <2>. QED
      BY <1>a, <2>1, <2>3, <2>12, <2>15, DeployPlainMain
  <1>3. ASSUME BootPods(Main) PROVE DeployInv(c)'
    <2>1. Doing(Main, "bootPods") /\ UNCHANGED <<store, host, up, history>>
      BY <1>3 DEF BootPods
    <2>2. PICK ps \in Orders({p \in Pods : Stored(p)}) :
            Continue(Main, <<>>, [j \in 1..Len(ps) |->
              PodTask(<<"regen">>, ps[j], pods[ps[j]].t, pods[ps[j]].owned)])
      BY <1>3 DEF BootPods
    <2>3. PICK q : q = [j \in 1..Len(ps) |->
                          PodTask(<<"regen">>, ps[j], pods[ps[j]].t, pods[ps[j]].owned)]
      OBVIOUS
    <2>4. /\ q \in Seq(PodTasks({<<"regen">>})) /\ Len(q) = Len(ps)
          /\ \A j \in 1..Len(ps) : q[j].do = <<"regen">> /\ q[j].pod = ps[j]
          /\ \A p \in Pods : Stored(p) => \E j \in 1..Len(ps) : ps[j] = p
      BY <1>0, <2>3, RegensIs, Zenon
    <2>5. q \in Seq(TasksOf(Main)) /\ Continue(Main, <<>>, q)
      BY <1>b, <2>2, <2>3, <2>4, Zenon
    <2>6. \A j \in 1..Len(q) : j \in DOMAIN todo'[Main] /\ todo'[Main][j] = q[j]
      BY <1>0, <2>1, <2>5, MoreStays
    <2>7. ASSUME NEW p \in Pods, Stored(p) PROVE HealsPod(p)'
      <3>1. PICK j \in 1..Len(ps) : ps[j] = p
        BY <2>4, <2>7
      <3>2. j \in DOMAIN todo'[Main] /\ todo'[Main][j].do \in Heals /\ todo'[Main][j].pod = p
        BY <2>4, <2>6, <3>1, MainDos
      <3>. QED
        BY <3>2 DEF HealsPod, Work, Does
    <2>8. Task(Main).do = <<"bootPods">>
      BY <1>0, <2>1, PlainStage
    <2>. QED
      BY <1>a, <2>1, <2>5, <2>7, <2>8, DeployPlainMain
  <1>4. ASSUME PruneCandidates(Main) PROVE DeployInv(c)'
    <2>1. Doing(Main, "allPods") /\ UNCHANGED <<store, host, up, history>>
      BY <1>4 DEF PruneCandidates
    <2>2. PICK ps \in Orders({p \in Pods \ Task(Main).seen : Stored(p) /\ pods[p].owned}) :
            Continue(Main, <<>>, Each(<<"known", "prune">>, ps))
      BY <1>4 DEF PruneCandidates
    <2>3. ps \in Seq(Pods)
      BY <2>2, PodOrders
    <2>4. Each(<<"known", "prune">>, ps) \in Seq(TasksOf(Main))
      BY <1>b, <2>3, EachIs, Zenon
    <2>5. Task(Main).do = <<"allPods">>
      BY <1>0, <2>1, PlainStage
    <2>. QED
      BY <1>a, <2>1, <2>2, <2>4, <2>5, DeployPlainMain
  <1>. QED
    BY <1>1, <1>2, <1>3, <1>4

(* A death loses what was under way; startup then makes up for it.         *)
LEMMA DeployOtherSteps ==
  ASSUME TypeInv, NEW c \in Actors, c # Main, Actors = {c, Main}, DeployInv(c)
  PROVE  /\ ListOwned => DeployInv(c)'
         /\ Crash => DeployInv(c)'
         /\ Restart => DeployInv(c)'
         /\ UNCHANGED vars => DeployInv(c)'
  <1>0. TodoType /\ StateType /\ Main \in Actors
    BY TypeParts DEF Actors
  <1>1. ASSUME ListOwned PROVE DeployInv(c)'
    <2>1. todo[Main] = <<>> /\ UNCHANGED <<deps, pods, file, up, failed, missing>>
      BY <1>1 DEF ListOwned, store, host, history
    <2>2. todo'[c] = todo[c]
      <3>1. PICK r : todo' = [todo EXCEPT ![Main] = r]
        BY <1>1 DEF ListOwned
      <3>. QED
        BY <1>0, <3>1 DEF TodoType
    <2>3. ASSUME NEW p PROVE ~HealsReplica(p) /\ ~HealsPod(p)
      BY <2>1 DEF HealsReplica, HealsPod, Restored, Busy, Work
    <2>4. \A p : Asked(c, p)' <=> Asked(c, p)
      BY <2>1, <2>2, AskedSame
    <2>. QED
      BY <2>1, <2>2, <2>3, <2>4, DeployByPass
  <1>2. ASSUME Crash PROVE DeployInv(c)'
    <2>1. todo'[c] = <<>> /\ ~up'
      BY <1>2 DEF Crash
    <2>2. ListInv(c)' /\ \A p, dos : ~Work(c, dos, p)'
      BY <2>1 DEF ListInv, DeployList, Work
    <2>3. \A p : PodDeployed(c, p)'
      BY <2>1, <2>2 DEF PodDeployed, ReplicaIsDeployed, StoredIsDeployed
    <2>. QED
      BY <2>2, <2>3, DeployParts
  <1>3. ASSUME Restart PROVE DeployInv(c)'
    <2>1. UNCHANGED <<deps, pods, file, failed, missing>> /\ todo' = [todo EXCEPT ![Main] = Boot]
      BY <1>3 DEF Restart, store, host, history
    <2>2. todo'[c] = todo[c] /\ todo'[Main] = Boot
      BY <1>0, <2>1 DEF TodoType
    <2>3. Busy(Main, {<<"bootDeps">>})' /\ Busy(Main, {<<"bootPods">>})'
      <3>1. /\ 1 \in DOMAIN Boot /\ Boot[1].do = <<"bootDeps">>
            /\ 2 \in DOMAIN Boot /\ Boot[2].do = <<"bootPods">>
        BY DEF Boot
      <3>. QED
        BY <2>2, <3>1 DEF Busy, Does
    <2>4. ListInv(c)'
      BY <2>1, <2>2, DeployParts, ListFrame, Zenon
    <2>5. /\ \A dos, p : Work(c, dos, p)' <=> Work(c, dos, p)
          /\ \A p : Asked(c, p)' <=> Asked(c, p)
      BY <2>1, <2>2, AskedSame DEF Work, Does
    <2>6. \A p \in Pods \ failed' : PodDeployed(c, p)'
      <3> TAKE p \in Pods \ failed'
      <3>1. PodDeployed(c, p)
        BY <2>1, DeployParts
      <3>2. ReplicaIsDeployed(c, p)' /\ StoredIsDeployed(c, p)'
        BY <2>3, DeployParts DEF HealsReplica, HealsPod
      <3>. QED
        BY <2>1, <2>5, <3>1, <3>2 DEF PodDeployed
    <2>. QED
      BY <2>4, <2>6, DeployParts
  <1>4. ASSUME UNCHANGED vars PROVE DeployInv(c)'
    <2>1. UNCHANGED <<deps, pods, file, todo, up, failed, missing>>
      BY <1>4 DEF vars, store, host, history
    <2>2. /\ todo'[c] = todo[c]
          /\ \A p : HealsReplica(p) => HealsReplica(p)'
          /\ \A p : HealsPod(p) => HealsPod(p)'
      BY <2>1 DEF HealsReplica, HealsPod, Work, Busy, Restored, Does
    <2>4. \A p : Asked(c, p)' <=> Asked(c, p)
      BY <2>1, <2>2, AskedSame
    <2>. QED
      BY <2>1, <2>2, <2>4, DeployByPass
  <1>. QED
    BY <1>1, <1>2, <1>3, <1>4

---------------------------------------------------------------------------
(* The lists requests make                                                 *)

LEMMA NothingToDo ==
  ASSUME NEW c
  PROVE  /\ todo[c] = <<>> => /\ \A dos : ~Busy(c, dos)
                              /\ \A dos, p : ~Work(c, dos, p) /\ ~WorkOn(c, dos, p)
         /\ todo'[c] = <<>> => /\ DeployList(c)' /\ \A dos : ~Busy(c, dos)'
                               /\ \A dos, p : ~Work(c, dos, p)' /\ ~WorkOn(c, dos, p)'
  BY DEF Busy, Work, WorkOn, DeployList

LEMMA OnlyTask ==
  ASSUME NEW c, Len(todo[c]) = 1, DOMAIN todo[c] = 1..Len(todo[c]), NEW x, x = todo[c][1]
  PROVE  /\ \A dos : Busy(c, dos) <=> x.do \in dos
         /\ \A dos, p : Work(c, dos, p) <=> x.do \in dos /\ x.pod = p
         /\ \A dos, d : WorkOn(c, dos, d) <=> x.do \in dos /\ x.dep = d
  BY DEF Busy, Work, WorkOn, Does

LEMMA OnlyTaskNext ==
  ASSUME NEW c, NEW x, todo'[c] = <<x>>
  PROVE  /\ \A dos : Busy(c, dos)' <=> x.do \in dos
         /\ \A dos, p : Work(c, dos, p)' <=> x.do \in dos /\ x.pod = p
         /\ \A dos, d : WorkOn(c, dos, d)' <=> x.do \in dos /\ x.dep = d
         /\ x.do \in Replaces => DeployList(c)'
         /\ x.do \in Finals => GoList(c)'
  <1>1. /\ DOMAIN todo'[c] = {1} /\ todo'[c][1] = x /\ Len(todo'[c]) = 1
    OBVIOUS
  <1>2. /\ \A dos : Busy(c, dos)' <=> x.do \in dos
        /\ \A dos, p : Work(c, dos, p)' <=> x.do \in dos /\ x.pod = p
        /\ \A dos, d : WorkOn(c, dos, d)' <=> x.do \in dos /\ x.dep = d
    BY <1>1 DEF Busy, Work, WorkOn, Does
  <1>3. ASSUME x.do \in Replaces PROVE DeployList(c)'
    <2>1. \A do \in Replaces : do \notin SyncDos /\ do \in Deploys
      BY DEF Replaces, SyncDos, Syncs, Synced, Created, Deploys, Writes
    <2>. QED
      BY <1>1, <1>3, <2>1 DEF DeployList, Does, SyncDos
  <1>4. ASSUME x.do \in Finals PROVE GoList(c)'
    <2>1. \A do \in Finals : do \notin Stops \cup Unlinks \cup Drops /\ do # <<"remove">>
      BY FinalDos, FamiliesOfPods
    <2>2. \A p : ~Work(c, Stops \cup Unlinks, p)'
      BY <1>2, <1>4, <2>1
    <2>. QED
      BY <1>1, <1>4, <2>1, <2>2 DEF GoList, Does
  <1>. QED
    BY <1>2, <1>3, <1>4, Zenon

LEMMA EmptyRange ==
  ASSUME NEW d \in Deps, NEW from \in 0..MaxReplicas, NEW to \in 0..MaxReplicas, to <= from
  PROVE  Range_(d, from, to) = <<>>
  <1>1. PICK ps : ps = Range_(d, from, to)
    OBVIOUS
  <1>2. ps \in Seq(Pods) /\ Len(ps) = IF to > from THEN to - from ELSE 0
    BY <1>1, RangeIs, Zenon
  <1>3. Len(ps) = 0
    BY <1>2, NamesAssumption
  <1>. QED
    BY <1>1, <1>2, <1>3, EmptySeq

(* A scale either adds replicas or takes some away. *)
LEMMA ScaleIs ==
  ASSUME NEW d \in Deps, NEW t \in Specs, NEW old \in 0..MaxReplicas, NEW new \in 0..MaxReplicas
  PROVE  /\ old <= new => ScaleTasks(d, t, old, new) = DeployInstances(d, t, old, new, "start")
         /\ new <= old => ScaleTasks(d, t, old, new)
                            = Each(<<"stop", "unlink", "drop">>, Range_(d, new, old))
  <1>1. PICK go : go = <<"stop", "unlink", "drop">>
    OBVIOUS
  <1>2. ASSUME old <= new PROVE ScaleTasks(d, t, old, new) = DeployInstances(d, t, old, new, "start")
    <2>1. PICK q : q = DeployInstances(d, t, old, new, "start")
      OBVIOUS
    <2>2. q \in Seq(PodTasks(Syncs))
      BY <2>1, DeployInstancesIs, Zenon
    <2>3. Range_(d, new, old) = <<>>
      BY <1>2, EmptyRange
    <2>4. Each(go, <<>>) \in Seq(PodTasks({go})) /\ Len(Each(go, <<>>)) = Len(<<>>)
      <3>1. <<>> \in Seq(Pods)
        OBVIOUS
      <3>. QED
        BY <3>1, EachIs, Zenon
    <2>5. Each(go, <<>>) = <<>>
      BY <2>4, EmptySeq
    <2>6. q \o <<>> = q
      BY <2>2, ConcatEmptySeq
    <2>. QED
      BY <1>1, <2>1, <2>3, <2>5, <2>6, Zenon DEF ScaleTasks
  <1>3. ASSUME new <= old
        PROVE  ScaleTasks(d, t, old, new) = Each(<<"stop", "unlink", "drop">>, Range_(d, new, old))
    <2>1. Range_(d, old, new) = <<>>
      BY <1>3, EmptyRange
    <2>2. DeployInstances(d, t, old, new, "start") \in Seq(PodTasks(Syncs))
          /\ Len(DeployInstances(d, t, old, new, "start")) = Len(Range_(d, old, new))
      BY DeployInstancesIs
    <2>3. DeployInstances(d, t, old, new, "start") = <<>>
      <3>1. PICK q : q = DeployInstances(d, t, old, new, "start")
        OBVIOUS
      <3>2. q \in Seq(PodTasks(Syncs)) /\ Len(q) = 0
        BY <2>1, <2>2, <3>1
      <3>. QED
        BY <3>1, <3>2, EmptySeq
    <2>4. PICK ps : ps = Range_(d, new, old)
      OBVIOUS
    <2>5. ps \in Seq(Pods)
      BY <2>4, RangeIs, Zenon
    <2>6. PICK q : q = Each(go, ps)
      OBVIOUS
    <2>7. q \in Seq(PodTasks({go}))
      BY <2>5, <2>6, EachIs, Zenon
    <2>8. <<>> \o q = q
      BY <2>7, ConcatEmptySeq
    <2>. QED
      BY <1>1, <2>3, <2>4, <2>6, <2>8, Zenon DEF ScaleTasks
  <1>. QED
    BY <1>2, <1>3, Zenon

(* A list that stops all of its pods before it unlinks any. *)
LEMMA StopsAhead ==
  ASSUME NEW c, DOMAIN todo'[c] \subseteq Int, NEW n \in Int,
         \A j \in DOMAIN todo'[c] :
           /\ todo'[c][j].do \in Stops => j <= n
           /\ todo'[c][j].do \in Unlinks => j > n,
         \A i, j \in DOMAIN todo'[c] : i < j /\ todo'[c][i].do = <<"remove">> => todo'[c][j].do \notin Goes,
         \A j \in DOMAIN todo'[c] : todo'[c][j].do \in Stops =>
           \E k \in DOMAIN todo'[c] : todo'[c][k].do \in Unlinks /\ todo'[c][k].pod = todo'[c][j].pod
  PROVE  StopsFirst(c)'
  <1> DEFINE r == todo'[c]
  <1>1. ASSUME NEW i \in DOMAIN r, NEW j \in DOMAIN r, i < j
        PROVE  /\ r[i].do \in Unlinks /\ r[j].do \in Stops => r[i].pod # r[j].pod
               /\ r[i].do \in {<<"remove">>} => ~(r[j].do \in Goes)
    <2>1. ~(r[i].do \in Unlinks /\ r[j].do \in Stops)
      <3>1. i \in Int /\ j \in Int
        OBVIOUS
      <3>2. r[i].do \in Unlinks => i > n
        OBVIOUS
      <3>3. r[j].do \in Stops => j <= n
        OBVIOUS
      <3>. QED
        BY <1>1, <3>1, <3>2, <3>3
    <2>. QED
      BY <1>1, <2>1
  <1>2. ASSUME NEW p, NEW j \in DOMAIN r, r[j].do \in Stops, r[j].pod = p
        PROVE  \E k \in DOMAIN r : r[k].do \in Unlinks /\ r[k].pod = p
    BY <1>2
  <1> HIDE DEF r
  <1>. QED
    BY <1>1, <1>2, Zenon DEF StopsFirst, Does, Work, r

(* A list that ends with the Deployment it is of. *)
LEMMA RoundsIs ==
  ASSUME NEW c \in Actors, c # Main, NEW ps \in Seq(Pods), NEW d \in Deps,
         todo'[c] = Each(<<"stop">>, ps) \o Each(<<"unlink">>, ps) \o Each(<<"drop">>, ps)
                      \o <<[do |-> <<"dropDep">>, dep |-> d]>>
  PROVE  /\ GoList(c)' /\ StopsFirst(c)' /\ ~Busy(c, Purges)' /\ WorkOn(c, {<<"dropDep">>}, d)'
         /\ \A e : WorkOn(c, {<<"dropDep">>}, e)' => e = d
         /\ \A j \in DOMAIN todo'[c] : todo'[c][j].do \in Goes =>
              \E i \in 1..Len(ps) : todo'[c][j].pod = ps[i]
         /\ \A i \in 1..Len(ps) : Work(c, Stops, ps[i])' /\ Work(c, Unlinks, ps[i])' /\ Work(c, Drops, ps[i])'
         /\ \A p : ~Work(c, Deploys, p)'
  <1>0. [do |-> <<"dropDep">>, dep |-> d] \in [do : {<<"dropDep">>}, dep : Deps]
    OBVIOUS
  <1>e. [do : {<<"dropDep">>}, dep : Deps] \subseteq TasksOf(c)
    BY Zenon DEF TasksOf, ClientTasks
  <1>1. PICK x \in TasksOf(c) : x = [do |-> <<"dropDep">>, dep |-> d]
    BY <1>0, <1>e, Zenon
  <1>2. x.do = <<"dropDep">> /\ x.dep = d
    BY <1>1
  <1>a. /\ Each(<<"stop">>, ps) \in Seq(TasksOf(c))
        /\ Each(<<"unlink">>, ps) \in Seq(TasksOf(c))
        /\ Each(<<"drop">>, ps) \in Seq(TasksOf(c))
    BY TwoRounds, Zenon
  <1>3. PICK n \in Nat : n = Len(ps)
    BY LenProperties
  <1>4. PICK A \in Seq(TasksOf(c)) : A = Each(<<"stop">>, ps)
    BY <1>a
  <1>5. PICK B \in Seq(TasksOf(c)) : B = Each(<<"unlink">>, ps)
    BY <1>a
  <1>6. PICK D \in Seq(TasksOf(c)) : D = Each(<<"drop">>, ps)
    BY <1>a
  <1>7. /\ Len(A) = n /\ \A j \in 1..n : A[j].do = <<"stop">> /\ A[j].pod = ps[j]
        /\ Len(B) = n /\ \A j \in 1..n : B[j].do = <<"unlink">> /\ B[j].pod = ps[j]
        /\ Len(D) = n /\ \A j \in 1..n : D[j].do = <<"drop">> /\ D[j].pod = ps[j]
    <2>1. IsEach(A, <<"stop">>, ps) /\ IsEach(B, <<"unlink">>, ps) /\ IsEach(D, <<"drop">>, ps)
      BY <1>4, <1>5, <1>6, EachAre, Zenon
    <2>. QED
      BY <1>3, <2>1 DEF IsEach
  <1>8. PICK r : r = A \o B \o D \o <<x>>
    OBVIOUS
  <1>9. todo'[c] = r
    BY <1>1, <1>4, <1>5, <1>6, <1>8, Zenon
  <1>10. /\ Len(r) = n + n + n + 1 /\ DOMAIN r = 1..(n + n + n + 1)
         /\ \A j \in 1..n : r[j] = A[j] /\ r[n + j] = B[j] /\ r[n + n + j] = D[j]
         /\ r[n + n + n + 1] = x
    <2>1. PICK S : S = TasksOf(c)
      OBVIOUS
    <2>2. A \in Seq(S) /\ B \in Seq(S) /\ D \in Seq(S) /\ x \in S
      BY <2>1
    <2>3. Len(A) = n /\ Len(B) = n /\ Len(D) = n
      BY <1>7
    <2>4. InParts(A \o B \o D \o <<x>>, n, A, B, D, x)
      BY <2>2, <2>3, FourParts, Zenon
    <2>5. InParts(r, n, A, B, D, x)
      BY <1>8, <2>4, Zenon
    <2>. QED
      BY <2>5 DEF InParts
  <1>11. \A j \in 1..n :
           /\ r[j].do = <<"stop">> /\ r[j].pod = ps[j]
           /\ r[n + j].do = <<"unlink">> /\ r[n + j].pod = ps[j]
           /\ r[n + n + j].do = <<"drop">> /\ r[n + n + j].pod = ps[j]
    BY <1>7, <1>10
  <1>12. ASSUME NEW j \in DOMAIN r
         PROVE  \/ r[j].do = <<"stop">> /\ j <= n /\ j <= n + n /\ \E i \in 1..n : r[j].pod = ps[i]
                \/ r[j].do = <<"unlink">> /\ j > n /\ j <= n + n /\ \E i \in 1..n : r[j].pod = ps[i]
                \/ r[j].do = <<"drop">> /\ j > n + n /\ \E i \in 1..n : r[j].pod = ps[i]
                \/ r[j] = x /\ j = Len(r)
    <2>0. j \in 1..(n + n + n + 1)
      BY <1>10
    <2>1. CASE j \in 1..n
      <3>1. j <= n /\ j <= n + n
        BY <2>1
      <3>. QED
        BY <1>11, <2>1, <3>1
    <2>2. CASE j \in (n + 1)..(n + n)
      <3>1. PICK i \in 1..n : j = n + i
        <4>1. j - n \in 1..n /\ j = n + (j - n)
          BY <2>2
        <4>. QED
          BY <4>1
      <3>2. j > n /\ j <= n + n
        BY <2>2
      <3>. QED
        BY <1>11, <3>1, <3>2
    <2>3. CASE j \in (n + n + 1)..(n + n + n)
      <3>1. PICK i \in 1..n : j = n + n + i
        <4>1. j - (n + n) \in 1..n /\ j = n + n + (j - (n + n))
          BY <2>3
        <4>. QED
          BY <4>1
      <3>2. j > n + n
        BY <2>3
      <3>. QED
        BY <1>11, <3>1, <3>2
    <2>4. CASE j = n + n + n + 1
      BY <1>10, <2>4
    <2>5. j \in 1..n \/ j \in (n + 1)..(n + n) \/ j \in (n + n + 1)..(n + n + n) \/ j = n + n + n + 1
      BY <2>0
    <2>. QED
      BY <2>1, <2>2, <2>3, <2>4, <2>5, Zenon
  <1>20. /\ <<"stop">> \in Goes /\ <<"unlink">> \in Goes /\ <<"drop">> \in Goes
         /\ <<"stop">> \notin Drops /\ <<"unlink">> \notin Drops /\ <<"drop">> \notin Stops \cup Unlinks
         /\ <<"stop">> \in Stops /\ <<"unlink">> \in Unlinks /\ <<"drop">> \in Drops
         /\ <<"dropDep">> \in Finals /\ <<"dropDep">> \notin Goes /\ <<"dropDep">> \notin Deploys
         /\ <<"dropDep">> \notin Drops /\ <<"dropDep">> \notin Purges
         /\ <<"dropDep">> # <<"remove">> /\ <<"dropDep">> \notin Stops \cup Unlinks
         /\ \A do \in Goes : do \notin Finals /\ do # <<"remove">> /\ do # <<"dropDep">>
         /\ Purges \subseteq Finals
    BY GoDos, FinalDos, FamiliesOfPods DEF AllDos, Goes
  <1>b2. \A do \in Goes : do \notin Deploys
    BY Kinds
  <1>21. ASSUME NEW i \in 1..n
         PROVE  /\ \E j \in DOMAIN r : r[j].do = <<"stop">> /\ r[j].pod = ps[i]
                /\ \E j \in DOMAIN r : r[j].do = <<"unlink">> /\ r[j].pod = ps[i]
                /\ \E j \in DOMAIN r : r[j].do = <<"drop">> /\ r[j].pod = ps[i]
    <2>1. i \in DOMAIN r /\ n + i \in DOMAIN r /\ n + n + i \in DOMAIN r
      <3>1. i \in 1..(n + n + n + 1) /\ n + i \in 1..(n + n + n + 1) /\ n + n + i \in 1..(n + n + n + 1)
        OBVIOUS
      <3>. QED
        BY <1>10, <3>1
    <2>. QED
      BY <1>11, <2>1
  <1>22. ASSUME NEW j \in DOMAIN r
         PROVE  /\ r[j].do \in Goes \cup Finals \cup {<<"remove">>}
                /\ r[j].do \in Finals => j = Len(r)
                /\ r[j].do # <<"remove">> /\ r[j].do \notin Purges /\ r[j].do \notin Deploys
                /\ r[j].do = <<"dropDep">> => r[j].dep = d
                /\ r[j].do \in Goes => \E i \in 1..n : r[j].pod = ps[i]
                /\ r[j].do \in Drops => j > n + n
                /\ r[j].do \in Stops \cup Unlinks => j <= n + n /\ \E i \in 1..n : r[j].pod = ps[i]
    <2>1. CASE r[j].do \in {<<"stop">>, <<"unlink">>} /\ j <= n + n /\ \E i \in 1..n : r[j].pod = ps[i]
      <3>1. r[j].do \in Goes /\ r[j].do \notin Drops
        BY <1>20, <2>1
      <3>2. r[j].do \notin Purges /\ r[j].do \notin Finals /\ r[j].do # <<"dropDep">> /\ r[j].do # <<"remove">>
        BY <1>20, <3>1
      <3>. QED
        BY <1>b2, <2>1, <3>1, <3>2
    <2>2. CASE r[j].do = <<"drop">> /\ j > n + n /\ \E i \in 1..n : r[j].pod = ps[i]
      <3>1. r[j].do \in Goes /\ r[j].do \notin Stops \cup Unlinks
        BY <1>20, <2>2
      <3>2. r[j].do \notin Purges /\ r[j].do \notin Finals /\ r[j].do # <<"dropDep">> /\ r[j].do # <<"remove">>
        BY <1>20, <3>1
      <3>. QED
        BY <1>b2, <2>2, <3>1, <3>2
    <2>3. CASE r[j] = x /\ j = Len(r)
      BY <1>2, <1>20, <2>3
    <2>. QED
      BY <1>12, <2>1, <2>2, <2>3
  <1>23. ASSUME NEW i \in DOMAIN r, NEW j \in DOMAIN r, r[i].do \in Drops,
                r[j].do \in Stops \cup Unlinks, i < j
         PROVE  FALSE
    <2>1. i > n + n /\ j <= n + n
      BY <1>22, <1>23
    <2>2. i \in Nat /\ j \in Nat
      BY <1>10
    <2>. QED
      BY <1>23, <2>1, <2>2
  <1>24. ASSUME NEW p, NEW j \in DOMAIN r, r[j].do \in Stops \cup Unlinks, r[j].pod = p
         PROVE  \E k \in DOMAIN r : r[k].do \in Drops /\ r[k].pod = p
    <2>1. PICK i \in 1..n : r[j].pod = ps[i]
      BY <1>22, <1>24
    <2>2. PICK k \in DOMAIN r : r[k].do = <<"drop">> /\ r[k].pod = ps[i]
      BY <1>21
    <2>. QED
      BY <1>20, <1>24, <2>1, <2>2
  <1>25. GoList(c)'
    <2>1. \A j \in DOMAIN r :
            /\ r[j].do \in Goes \cup Finals \cup {<<"remove">>}
            /\ r[j].do \in Finals => j = Len(r)
            /\ r[j].do \in {<<"remove">>} => Busy(c, Purges)'
      BY <1>22
    <2>2. \A i, j \in DOMAIN r :
            r[i].do \in Drops /\ r[j].do \in Stops \cup Unlinks /\ i < j => r[i].pod # r[j].pod
      BY <1>23
    <2>3. \A j \in DOMAIN todo'[c] :
            /\ Does(c, j, Goes \cup Finals \cup {<<"remove">>})'
            /\ Does(c, j, Finals)' => j = Len(todo'[c])
            /\ Does(c, j, {<<"remove">>})' => Busy(c, Purges)'
      BY <1>9, <2>1 DEF Does
    <2>4. \A i, j \in DOMAIN todo'[c] :
            Does(c, i, Drops)' /\ Does(c, j, Stops \cup Unlinks)' /\ i < j
              => todo'[c][i].pod # todo'[c][j].pod
      BY <1>9, <2>2 DEF Does
    <2>5. \A p : Work(c, Stops \cup Unlinks, p)' => Work(c, Drops, p)'
      BY <1>9, <1>24, Zenon DEF Work, Does
    <2>. QED
      BY <2>3, <2>4, <2>5, Zenon DEF GoList
  <1>26. WorkOn(c, {<<"dropDep">>}, d)'
    <2>1. n + n + n + 1 \in DOMAIN r
      BY <1>10
    <2>. QED
      BY <1>2, <1>9, <1>10, <2>1 DEF WorkOn, Does
  <1>27. /\ ~Busy(c, Purges)' /\ \A e : WorkOn(c, {<<"dropDep">>}, e)' => e = d
         /\ \A p : ~Work(c, Deploys, p)'
    BY <1>9, <1>22 DEF WorkOn, Busy, Work, Does
  <1>28. /\ \A j \in DOMAIN todo'[c] : todo'[c][j].do \in Goes =>
              \E i \in 1..Len(ps) : todo'[c][j].pod = ps[i]
         /\ \A i \in 1..Len(ps) : Work(c, Stops, ps[i])' /\ Work(c, Unlinks, ps[i])' /\ Work(c, Drops, ps[i])'
    <2>1. ASSUME NEW i \in 1..n PROVE Work(c, Stops, ps[i])' /\ Work(c, Unlinks, ps[i])' /\ Work(c, Drops, ps[i])'
      <3>1. Work(c, Stops, ps[i])'
        BY <1>9, <1>20, <1>21 DEF Work, Does
      <3>2. Work(c, Unlinks, ps[i])'
        BY <1>9, <1>20, <1>21 DEF Work, Does
      <3>3. Work(c, Drops, ps[i])'
        BY <1>9, <1>20, <1>21 DEF Work, Does
      <3>. QED
        BY <3>1, <3>2, <3>3
    <2>. QED
      BY <1>3, <1>9, <1>22, <2>1
  <1>29. StopsFirst(c)'
    <2>1. ASSUME NEW j \in DOMAIN r
          PROVE  /\ r[j].do \in Stops => j <= n /\ \E i \in 1..n : r[j].pod = ps[i]
                 /\ r[j].do \in Unlinks => j > n
      <3>1. <<"stop">> \notin Unlinks /\ <<"unlink">> \notin Stops
        BY GoDos
      <3>2. x.do \notin Stops \cup Unlinks /\ <<"drop">> \notin Stops \cup Unlinks
        BY <1>2, <1>20
      <3>. QED
        BY <1>12, <3>1, <3>2
    <2>2. ASSUME NEW j \in DOMAIN r, r[j].do \in Stops
          PROVE  \E k \in DOMAIN r : r[k].do \in Unlinks /\ r[k].pod = r[j].pod
      <3>1. PICK i \in 1..n : r[j].pod = ps[i]
        BY <2>1, <2>2
      <3>2. PICK k \in DOMAIN r : r[k].do = <<"unlink">> /\ r[k].pod = ps[i]
        BY <1>21
      <3>. QED
        BY <1>20, <3>1, <3>2
    <2>3. \A j \in DOMAIN r : r[j].do # <<"remove">>
      BY <1>22
    <2>4. DOMAIN r \subseteq Int /\ n \in Int
      BY <1>10
    <2>5. \A j \in DOMAIN r : (r[j].do \in Stops => j <= n) /\ (r[j].do \in Unlinks => j > n)
      BY <2>1
    <2>. QED
      BY <1>9, <2>2, <2>3, <2>4, <2>5, StopsAhead, Zenon
  <1>. QED
    BY <1>25, <1>26, <1>27, <1>28, <1>29, Zenon

TakesAway(A) == \A j \in 1..Len(A) : A[j].do \in (Goes \ Drops) \cup {<<"remove">>}

(* A list of a namespace that goes. *)
LEMMA PurgingIs ==
  ASSUME NEW c, NEW A, Len(A) \in Nat, NEW x, InEnd(todo'[c], A, x), x.do \in Purges,
         TakesAway(A)
  PROVE  /\ GoList(c)' /\ Busy(c, Purges)'
         /\ x.do \in PurgeAll => Busy(c, PurgeAll)'
         /\ \A p : ~Work(c, Drops, p)'
         /\ \A j \in 1..Len(A) : j \in DOMAIN todo'[c] /\ todo'[c][j] = A[j]
         /\ \A j \in DOMAIN todo'[c] : todo'[c][j].do \in Goes \cup {<<"remove">>} =>
              j \in 1..Len(A) /\ todo'[c][j] = A[j]
  <1> DEFINE r == todo'[c]
             n == Len(A)
  <1>1. /\ n \in Nat /\ Len(r) = n + 1 /\ DOMAIN r = 1..(n + 1)
        /\ (\A j \in 1..n : r[j] = A[j]) /\ r[n + 1] = x
    BY DEF InEnd
  <1>2. /\ Purges \subseteq Finals /\ \A do \in Goes : do \notin Finals
        /\ \A do \in Purges : do \notin Goes /\ do # <<"remove">> /\ do \notin Drops /\ do \notin Stops \cup Unlinks
        /\ <<"remove">> \notin Finals /\ <<"remove">> \notin Drops
    BY FinalDos DEF AllDos, Goes
  <1> HIDE DEF r, n
  <1>3. \A j \in DOMAIN r : j \in 1..n \/ j = n + 1
    BY <1>1
  <1>4. \A j \in 1..n : j \in DOMAIN r /\ r[j].do \in (Goes \ Drops) \cup {<<"remove">>}
    BY <1>1 DEF n, TakesAway
  <1>5. n + 1 \in DOMAIN r
    BY <1>1
  <1>6. Busy(c, Purges)' /\ (x.do \in PurgeAll => Busy(c, PurgeAll)')
    BY <1>1, <1>5 DEF Busy, Does, r
  <1>7. ASSUME NEW j \in DOMAIN r
        PROVE  /\ r[j].do \in Goes \cup Finals \cup {<<"remove">>} /\ r[j].do \notin Drops
               /\ r[j].do \in Finals => j = Len(r)
               /\ r[j].do \in Goes \cup {<<"remove">>} => j \in 1..n
    BY <1>1, <1>2, <1>3, <1>4
  <1>8. GoList(c)'
    <2>1. \A p : Work(c, Stops \cup Unlinks, p)' => Busy(c, Purges)'
      BY <1>6
    <2>2. \A j \in DOMAIN r :
            /\ r[j].do \in Goes \cup Finals \cup {<<"remove">>}
            /\ r[j].do \in Finals => j = Len(r)
            /\ r[j].do \in {<<"remove">>} => Busy(c, Purges)'
      BY <1>6, <1>7
    <2>3. \A i, j \in DOMAIN r :
            r[i].do \in Drops /\ r[j].do \in Stops \cup Unlinks /\ i < j => r[i].pod # r[j].pod
      BY <1>7
    <2>. QED
      BY <2>1, <2>2, <2>3, Zenon DEF GoList, Does, r
  <1>9. \A p : ~Work(c, Drops, p)'
    BY <1>7 DEF Work, Does, r
  <1>. QED
    BY <1>1, <1>4, <1>6, <1>7, <1>8, <1>9 DEF r, n

LEMMA NamespaceIs ==
  ASSUME NEW c \in Actors, c # Main, NEW ps \in Seq(Pods),
         todo'[c] = Each(<<"stop", "unlink">>, ps) \o <<[do |-> <<"purgeDeps", "purge", "dropNs">>]>>
  PROVE  /\ GoList(c)' /\ Busy(c, Purges)' /\ Busy(c, PurgeAll)'
         /\ \A i \in 1..Len(ps) : Work(c, Stops, ps[i])' /\ Work(c, Unlinks, ps[i])'
  <1>1. PICK x \in TasksOf(c) : x = [do |-> <<"purgeDeps", "purge", "dropNs">>]
    BY DEF TasksOf, ClientTasks, Purges, PurgeAll
  <1>2. x.do = <<"purgeDeps", "purge", "dropNs">>
    BY <1>1
  <1>3. x.do \in Purges /\ x.do \in PurgeAll
    BY <1>2, FinalDos
  <1>4. PICK go : go = <<"stop", "unlink">>
    OBVIOUS
  <1>5. go \in Stops /\ go \in Unlinks /\ go \in Goes /\ go \notin Drops
    BY <1>4, GoDos
  <1>6. PICK A : A = Each(go, ps)
    OBVIOUS
  <1>7. A \in Seq(PodTasks({go})) /\ IsEach(A, go, ps)
    BY <1>6, EachAre, Zenon
  <1>8. A \in Seq(TasksOf(c))
    BY <1>5, <1>7, ClientParts, Zenon
  <1>9. InEnd(A \o <<x>>, A, x) /\ Len(A) \in Nat
    BY <1>8, EndIs, Zenon
  <1>10. InEnd(todo'[c], A, x)
    BY <1>1, <1>4, <1>6, <1>9, Zenon
  <1>a. TakesAway(A)
    BY <1>5, <1>7 DEF TakesAway, IsEach
  <1>11. /\ GoList(c)' /\ Busy(c, Purges)' /\ Busy(c, PurgeAll)'
         /\ \A j \in 1..Len(A) : j \in DOMAIN todo'[c] /\ todo'[c][j] = A[j]
    BY <1>3, <1>9, <1>10, <1>a, PurgingIs, Zenon
  <1>12. ASSUME NEW i \in 1..Len(ps) PROVE Work(c, Stops, ps[i])' /\ Work(c, Unlinks, ps[i])'
    <2>1. i \in DOMAIN todo'[c] /\ todo'[c][i].do = go /\ todo'[c][i].pod = ps[i]
      BY <1>7, <1>11 DEF IsEach
    <2>. QED
      BY <1>5, <2>1 DEF Work, Does
  <1>. QED
    BY <1>11, <1>12, Zenon

LEMMA LastTask ==
  ASSUME TodoType, NEW c \in Actors, Len(todo[c]) = 1
  PROVE  Tail(todo[c]) = <<>>
  <1>1. todo[c] \in Seq(TasksOf(c)) /\ todo[c] # <<>>
    <2>1. Len(<<>>) # 1
      OBVIOUS
    <2>2. todo[c] # <<>>
      BY <2>1, Zenon
    <2>. QED
      BY <2>2 DEF TodoType
  <1>2. Tail(todo[c]) \in Seq(TasksOf(c)) /\ Len(Tail(todo[c])) = 0
    BY <1>1, HeadTailProperties
  <1>. QED
    BY <1>2, EmptySeq

LEMMA OneMore ==
  ASSUME TodoType, NEW c \in Actors, NEW s, Doing(c, s), Len(todo[c]) = 1,
         NEW more \in Seq(TasksOf(c)), Continue(c, <<>>, more)
  PROVE  todo'[c] = more /\ \A b \in Actors \ {c} : todo'[b] = todo[b]
  <1>1. todo' = [todo EXCEPT ![c] = Rest(todo[c], <<>>, more)]
    BY ContinueIs, Zenon
  <1>2. Rest(todo[c], <<>>, more) = <<>> \o more \o Tail(todo[c])
    BY Zenon DEF Rest
  <1>3. Tail(todo[c]) = <<>>
    BY LastTask
  <1>4. <<>> \o more = more /\ more \o <<>> = more
    BY ConcatEmptySeq
  <1>5. Rest(todo[c], <<>>, more) = more
    BY <1>2, <1>3, <1>4, Zenon
  <1>. QED
    BY <1>1, <1>5, NewList, Zenon

LEMMA RemovalsIs ==
  ASSUME TypeInv, NEW c \in Actors, c # Main, ListInv(c), PurgeDeployments(c)
  PROVE  /\ GoList(c)' /\ Busy(c, Purges)' /\ (\A b \in Actors \ {c} : todo'[b] = todo[b])
         /\ Len(todo[c]) = 1 /\ Task(c).do \in PurgeAll
         /\ \A d \in Deps : deps[d] # Absent => \E j \in DOMAIN todo'[c] :
              todo'[c][j].do = <<"remove">> /\ todo'[c][j].dep = d /\ todo'[c][j].n = deps[d].n
         /\ \A p : ~Work(c, Goes, p)'
  <1>0. TodoType /\ StateType
    BY TypeParts
  <1>1. Doing(c, "purgeDeps") /\ Task(c) \in [do : PurgeAll]
    BY <1>0, PlainStage DEF PurgeDeployments
  <1>2. Task(c).do = <<"purgeDeps", "purge", "dropNs">> /\ Task(c).do \in PurgeAll
    BY <1>1 DEF PurgeAll
  <1>3. Len(todo[c]) = 1
    BY <1>0, <1>1, <1>2, FinalDos, KindOfList
  <1>4. Tail(todo[c]) = <<>>
    BY <1>0, <1>3, LastTask
  <1>5. PICK ds \in Orders({d \in Deps : deps[d] # Absent}) :
          todo' = [todo EXCEPT ![c] = [j \in 1..Len(ds) |-> DepTask(<<"remove">>, ds[j])]
                                        \o <<[do |-> Tail(Task(c).do)]>> \o Tail(todo[c])]
    BY DEF PurgeDeployments
  <1>6. PICK A : A = [j \in 1..Len(ds) |-> DepTask(<<"remove">>, ds[j])]
    OBVIOUS
  <1>7. /\ A \in Seq(DepTasks({<<"remove">>})) /\ Len(A) = Len(ds)
        /\ \A j \in 1..Len(ds) : A[j].do = <<"remove">> /\ A[j].dep = ds[j] /\ A[j].n = deps[ds[j]].n
        /\ \A d \in Deps : deps[d] # Absent => \E j \in 1..Len(ds) : ds[j] = d
    <2> DEFINE x == [j \in 1..Len(ds) |-> DepTask(<<"remove">>, ds[j])]
    <2>1. /\ ds \in Seq(Deps) /\ x \in Seq(DepTasks({<<"remove">>})) /\ Len(x) = Len(ds)
          /\ \A j \in 1..Len(ds) : x[j].do = <<"remove">> /\ x[j].dep = ds[j]
                                    /\ x[j].n = deps[ds[j]].n /\ deps[ds[j]] # Absent
          /\ \A d \in Deps : deps[d] # Absent => \E j \in 1..Len(ds) : ds[j] = d
      BY <1>0, DepTasksIs
    <2>2. A = x
      BY <1>6
    <2> HIDE DEF x
    <2>. QED
      BY <2>1, <2>2, Zenon
  <1>8. A \in Seq(TasksOf(c))
    <2>1. DepTasks({<<"remove">>}) \subseteq TasksOf(c)
      BY DEF TasksOf, ClientTasks
    <2>. QED
      BY <1>7, <2>1, SeqWiden, Zenon
  <1>9. PICK x \in TasksOf(c) : x = [do |-> <<"purge", "dropNs">>]
    BY DEF TasksOf, ClientTasks, Purges
  <1>10. x.do = <<"purge", "dropNs">>
    BY <1>9
  <1>11. Tail(Task(c).do) = <<"purge", "dropNs">>
    <2>1. Tail(<<"purgeDeps", "purge", "dropNs">>) = <<"purge", "dropNs">>
      BY ShortTails
    <2>. QED
      BY <1>2, <2>1
  <1>12. InEnd(A \o <<x>>, A, x) /\ A \o <<x>> \in Seq(TasksOf(c)) /\ Len(A) \in Nat
    BY <1>8, EndIs, Zenon
  <1>13. PICK r \in Seq(TasksOf(c)) : r = A \o <<x>>
    BY <1>12
  <1>14. r \o <<>> = r
    BY ConcatEmptySeq
  <1>15. todo' = [todo EXCEPT ![c] = r]
    BY <1>4, <1>5, <1>6, <1>9, <1>11, <1>13, <1>14, Zenon
  <1>16. todo'[c] = r /\ \A b \in Actors \ {c} : todo'[b] = todo[b]
    BY <1>0, <1>15, NewList
  <1>17. InEnd(todo'[c], A, x)
    BY <1>12, <1>13, <1>16, Zenon
  <1>18. x.do \in Purges
    BY <1>10, FinalDos
  <1>a. TakesAway(A)
    BY <1>7 DEF TakesAway
  <1>19. /\ GoList(c)' /\ Busy(c, Purges)'
         /\ \A j \in 1..Len(A) : j \in DOMAIN todo'[c] /\ todo'[c][j] = A[j]
         /\ \A j \in DOMAIN todo'[c] : todo'[c][j].do \in Goes \cup {<<"remove">>} =>
              j \in 1..Len(A) /\ todo'[c][j] = A[j]
    BY <1>12, <1>17, <1>18, <1>a, PurgingIs, Zenon
  <1>20. \A d \in Deps : deps[d] # Absent => \E j \in DOMAIN todo'[c] :
           todo'[c][j].do = <<"remove">> /\ todo'[c][j].dep = d /\ todo'[c][j].n = deps[d].n
    BY <1>7, <1>19
  <1>21. \A p : ~Work(c, Goes, p)'
    <2>1. <<"remove">> \notin Goes
      BY FinalDos DEF AllDos
    <2>. QED
      BY <1>7, <1>19, <2>1 DEF Work, Does
  <1>. QED
    BY <1>2, <1>3, <1>16, <1>19, <1>20, <1>21, Zenon

(* Its replicas are stopped and unlinked; the rest of the list stays.      *)
LEMMA RemoveIs ==
  ASSUME TypeInv, NEW c \in Actors, c # Main, ListInv(c), RemoveReplicas(c)
  PROVE  /\ GoList(c)' /\ Busy(c, Purges)' /\ Busy(c, Purges) /\ GoesOn(c)
         /\ StopsFirst(c) => StopsFirst(c)'
         /\ \A b \in Actors \ {c} : todo'[b] = todo[b]
         /\ Task(c).do = <<"remove">> /\ Task(c).dep \in Deps
         /\ \A d, k : d = Task(c).dep /\ k = Task(c).n => \A i \in 0..(k - 1) :
              Work(c, Stops, Inst[d][i])' /\ Work(c, Unlinks, Inst[d][i])'
  <1>0. TodoType
    BY TypeParts
  <1>1. Doing(c, "remove") /\ Task(c) \in DepTasks({<<"remove">>})
    BY <1>0, PlainStage DEF RemoveReplicas
  <1>2. Task(c).do = <<"remove">> /\ Task(c).dep \in Deps /\ Task(c).n \in 0..MaxReplicas
    BY <1>1 DEF DepTasks
  <1>3. GoList(c)
    BY <1>0, <1>1, <1>2, KindOfList
  <1>4. PICK d \in Deps : d = Task(c).dep
    BY <1>2
  <1>5. PICK k \in 0..MaxReplicas : k = Task(c).n
    BY <1>2
  <1>6. PICK ps : ps = Range_(d, 0, k)
    OBVIOUS
  <1>7. ps \in Seq(Pods) /\ \A i \in 0..(k - 1) : \E j \in 1..Len(ps) : ps[j] = Inst[d][i]
    <2>1. 0 \in 0..MaxReplicas
      BY NamesAssumption
    <2>. QED
      BY <1>6, <2>1, RangeIs, Zenon
  <1>8. PICK A : A = Each(<<"stop">>, ps)
    OBVIOUS
  <1>9. PICK B : B = Each(<<"unlink">>, ps)
    OBVIOUS
  <1>10. /\ A \in Seq(TasksOf(c)) /\ B \in Seq(TasksOf(c)) /\ A \o B \in Seq(TasksOf(c))
    BY <1>7, <1>8, <1>9, TwoRounds, Zenon
  <1>11. PICK n \in Nat : n = Len(ps)
    BY <1>7, LenProperties
  <1>a. ps \in Seq(Pods)
    BY <1>7
  <1>12. IsEach(A, <<"stop">>, ps) /\ IsEach(B, <<"unlink">>, ps)
    BY <1>8, <1>9, <1>a, EachAre, Zenon
  <1>13. /\ Len(A) = n /\ \A j \in 1..n : A[j].do = <<"stop">> /\ A[j].pod = ps[j]
         /\ Len(B) = n /\ \A j \in 1..n : B[j].do = <<"unlink">> /\ B[j].pod = ps[j]
    BY <1>11, <1>12, Zenon DEF IsEach
  <1>14. PICK more \in Seq(TasksOf(c)) : more = A \o B
    BY <1>10
  <1>15. Continue(c, <<>>, more)
    BY <1>4, <1>5, <1>6, <1>8, <1>9, <1>14, Zenon DEF RemoveReplicas
  <1>16. /\ Len(A \o B) = Len(A) + Len(B)
         /\ \A j \in 1..Len(A) : (A \o B)[j] = A[j]
         /\ \A j \in 1..Len(B) : (A \o B)[Len(A) + j] = B[j]
    <2>1. Len(A \o B) = Len(A) + Len(B) /\ \A j \in 1..Len(A) : (A \o B)[j] = A[j]
      BY <1>10, Joined
    <2>2. \A j \in 1..Len(B) : (A \o B)[Len(A) + j] = B[j]
      BY <1>10, Joined
    <2>. QED
      BY <2>1, <2>2
  <1>17. /\ Len(more) = n + n
         /\ \A j \in 1..n : /\ more[j].do = <<"stop">> /\ more[j].pod = ps[j]
                            /\ more[n + j].do = <<"unlink">> /\ more[n + j].pod = ps[j]
    BY <1>13, <1>14, <1>16
  <1>18. ASSUME NEW j \in 1..Len(more) PROVE more[j].do \in {<<"stop">>, <<"unlink">>}
    <2>1. CASE j \in 1..n
      BY <1>17, <2>1
    <2>2. CASE j \in (n + 1)..(n + n)
      <3>1. j - n \in 1..n /\ j = n + (j - n)
        BY <2>2
      <3>. QED
        BY <1>17, <3>1
    <2>3. j \in 1..n \/ j \in (n + 1)..(n + n)
      BY <1>17
    <2>. QED
      BY <2>1, <2>2, <2>3
  <1> DEFINE q == todo[c]
             r == todo'[c]
             m == Len(more)
  <1>19. /\ \A b \in Actors \ {c} : todo'[b] = todo[b]
         /\ DOMAIN r = 1..Len(r) /\ Len(r) = m + Len(q) - 1
         /\ \A j \in 1..m : j \in DOMAIN r /\ r[j] = more[j]
         /\ \A j \in DOMAIN r : j > m => j - m + 1 \in 2..Len(q) /\ r[j] = q[j - m + 1]
         /\ GoesOn(c)
    BY <1>0, <1>1, <1>15, MoreStays
  <1>20. /\ Len(q) \in Nat \ {0} /\ q[1] = Task(c) /\ DOMAIN q = 1..Len(q)
    BY <1>0, <1>1, FirstTask
  <1>21. /\ \A j \in DOMAIN q :
               /\ q[j].do \in Goes \cup Finals \cup {<<"remove">>}
               /\ q[j].do \in Finals => j = Len(q)
               /\ q[j].do \in {<<"remove">>} => Busy(c, Purges)
         /\ \A i, j \in DOMAIN q :
               q[i].do \in Drops /\ q[j].do \in Stops \cup Unlinks /\ i < j => q[i].pod # q[j].pod
    BY <1>3 DEF GoList, Does
  <1>22. Busy(c, Purges) /\ Busy(c, Purges)'
    <2>1. 1 \in DOMAIN q
      BY <1>20
    <2>2. Busy(c, Purges)
      BY <1>2, <1>20, <1>21, <2>1
    <2>3. PICK i \in DOMAIN q : q[i].do \in Purges
      BY <2>2 DEF Busy, Does
    <2>4. i # 1
      BY <1>2, <1>20, <2>3, FinalDos
    <2>5. i \in 2..Len(q)
      BY <1>20, <2>4
    <2>6. PICK k2 \in DOMAIN r : r[k2] = q[i]
      BY <1>19, <2>5 DEF GoesOn
    <2>. QED
      BY <2>2, <2>3, <2>6 DEF Busy, Does
  <1>23. m \in Nat
    BY <1>17
  <1> HIDE DEF q, r, m
  <1>24. /\ <<"stop">> \in Goes /\ <<"unlink">> \in Goes /\ <<"stop">> \notin Drops /\ <<"unlink">> \notin Drops
         /\ \A do \in Goes : do \notin Finals /\ do # <<"remove">>
    BY GoDos, FinalDos DEF AllDos
  <1>25. ASSUME NEW j \in DOMAIN r
         PROVE  /\ r[j].do \in Goes \cup Finals \cup {<<"remove">>}
                /\ r[j].do \in Finals => j = Len(r)
                /\ r[j].do \in Drops => j > m
    <2>0. j \in Nat
      BY <1>19
    <2>1. CASE j \in 1..m
      <3>1. r[j].do \in {<<"stop">>, <<"unlink">>}
        BY <1>18, <1>19, <2>1 DEF m
      <3>. QED
        BY <1>24, <3>1
    <2>2. CASE j > m
      <3>1. j - m + 1 \in DOMAIN q /\ r[j] = q[j - m + 1]
        BY <1>19, <1>20, <2>2
      <3>2. j - m + 1 = Len(q) => j = Len(r)
        BY <1>19, <1>20, <1>23, <2>0
      <3>. QED
        BY <1>21, <2>2, <3>1, <3>2
    <2>3. j \in 1..m \/ j > m
      BY <1>19, <1>23
    <2>. QED
      BY <2>1, <2>2, <2>3
  <1>26. ASSUME NEW i \in DOMAIN r, NEW j \in DOMAIN r, i < j,
                r[i].do \in Drops, r[j].do \in Stops \cup Unlinks
         PROVE  r[i].pod # r[j].pod
    <2>1. i > m /\ j > m
      BY <1>19, <1>23, <1>25, <1>26
    <2>2. /\ i - m + 1 \in DOMAIN q /\ r[i] = q[i - m + 1]
          /\ j - m + 1 \in DOMAIN q /\ r[j] = q[j - m + 1]
          /\ i - m + 1 < j - m + 1
      BY <1>19, <1>20, <1>23, <1>26, <2>1
    <2>. QED
      BY <1>21, <1>26, <2>2
  <1>27. GoList(c)'
    <2>1. \A j \in DOMAIN r :
            /\ r[j].do \in Goes \cup Finals \cup {<<"remove">>}
            /\ r[j].do \in Finals => j = Len(r)
      BY <1>25
    <2>2. \A i, j \in DOMAIN r :
            r[i].do \in Drops /\ r[j].do \in Stops \cup Unlinks /\ i < j => r[i].pod # r[j].pod
      BY <1>26
    <2>. QED
      BY <1>22, <2>1, <2>2, Zenon DEF GoList, Does, r
  <1>28. ASSUME NEW i \in 0..(k - 1) PROVE Work(c, Stops, Inst[d][i])' /\ Work(c, Unlinks, Inst[d][i])'
    <2>1. PICK j \in 1..n : ps[j] = Inst[d][i]
      BY <1>7, <1>11
    <2>2. j \in 1..m /\ n + j \in 1..m
      BY <1>17 DEF m
    <2>3. /\ j \in DOMAIN r /\ r[j].do = <<"stop">> /\ r[j].pod = Inst[d][i]
          /\ n + j \in DOMAIN r /\ r[n + j].do = <<"unlink">> /\ r[n + j].pod = Inst[d][i]
      BY <1>17, <1>19, <2>1, <2>2
    <2>. QED
      BY <2>3, GoDos DEF Work, Does, r
  <1>29. \A e, m2 : e = Task(c).dep /\ m2 = Task(c).n => \A i \in 0..(m2 - 1) :
           Work(c, Stops, Inst[e][i])' /\ Work(c, Unlinks, Inst[e][i])'
    <2>1. \A i \in 0..(k - 1) : Work(c, Stops, Inst[d][i])' /\ Work(c, Unlinks, Inst[d][i])'
      BY <1>28
    <2>. QED
      BY <1>4, <1>5, <2>1, Zenon
  <1>30. ASSUME StopsFirst(c) PROVE StopsFirst(c)'
    <2>0. 1 \in DOMAIN q /\ 2..Len(q) \subseteq DOMAIN q /\ \A j \in 2..Len(q) : 1 < j
      BY <1>20
    <2>a. <<"remove">> \in {<<"remove">>}
      OBVIOUS
    <2>1. \A j \in 2..Len(q) : q[j].do \notin Goes
      BY <1>2, <1>20, <1>30, <2>0, <2>a, Zenon DEF StopsFirst, Does, q
    <2>2. ASSUME NEW j \in DOMAIN r
          PROVE  \/ /\ j \in 1..n /\ r[j].do = <<"stop">> /\ n + j \in DOMAIN r
                    /\ r[n + j].do = <<"unlink">> /\ r[n + j].pod = r[j].pod
                 \/ j \in (n + 1)..(n + n) /\ r[j].do = <<"unlink">>
                 \/ j > n + n /\ r[j].do \notin Goes
      <3>0. j \in Nat \ {0} /\ m = n + n
        BY <1>17, <1>19 DEF m
      <3>1. CASE j \in 1..n
        <4>1. j \in 1..m /\ n + j \in 1..m
          BY <3>0, <3>1
        <4>. QED
          BY <1>17, <1>19, <3>1, <4>1
      <3>2. CASE j \in (n + 1)..(n + n)
        <4>1. j - n \in 1..n /\ j = n + (j - n) /\ j \in 1..m
          BY <3>0, <3>2
        <4>2. r[j] = more[j] /\ more[n + (j - n)].do = <<"unlink">>
          BY <1>17, <1>19, <4>1
        <4>. QED
          BY <3>2, <4>1, <4>2
      <3>3. CASE j > n + n
        <4>1. j - m + 1 \in 2..Len(q) /\ r[j] = q[j - m + 1]
          BY <1>19, <3>0, <3>3
        <4>. QED
          BY <2>1, <3>3, <4>1
      <3>4. j \in 1..n \/ j \in (n + 1)..(n + n) \/ j > n + n
        BY <3>0
      <3>. QED
        BY <3>1, <3>2, <3>3, <3>4
    <2>3. /\ <<"stop">> \notin Unlinks /\ <<"unlink">> \notin Stops /\ <<"unlink">> \in Unlinks
          /\ <<"stop">> # <<"remove">> /\ <<"unlink">> # <<"remove">>
          /\ Stops \subseteq Goes /\ Unlinks \subseteq Goes
      BY <1>24, GoDos DEF Goes
    <2>4. DOMAIN r \subseteq Int /\ n \in Int
      BY <1>19
    <2>5. ASSUME NEW j \in DOMAIN r
          PROVE  /\ r[j].do \in Stops => j <= n
                 /\ r[j].do \in Unlinks => j > n
                 /\ r[j].do = <<"remove">> => j > n + n
                 /\ r[j].do \in Stops =>
                      \E g \in DOMAIN r : r[g].do \in Unlinks /\ r[g].pod = r[j].pod
                 /\ j > n + n => r[j].do \notin Goes
      <3>1. j \in Int /\ n \in Nat
        BY <2>4
      <3>2. CASE /\ j \in 1..n /\ r[j].do = <<"stop">> /\ n + j \in DOMAIN r
                 /\ r[n + j].do = <<"unlink">> /\ r[n + j].pod = r[j].pod
        <4>1. j <= n /\ ~(j > n + n)
          BY <3>1, <3>2
        <4>2. r[j].do \notin Unlinks /\ r[j].do # <<"remove">>
          BY <2>3, <3>2
        <4>. QED
          BY <2>3, <3>2, <4>1, <4>2
      <3>3. CASE j \in (n + 1)..(n + n) /\ r[j].do = <<"unlink">>
        <4>1. j > n /\ ~(j > n + n)
          BY <3>1, <3>3
        <4>. QED
          BY <2>3, <3>3, <4>1
      <3>4. CASE j > n + n /\ r[j].do \notin Goes
        <4>1. j > n
          BY <3>1, <3>4
        <4>. QED
          BY <2>3, <3>4, <4>1
      <3>. QED
        BY <2>2, <3>2, <3>3, <3>4
    <2>6. \A i, j \in DOMAIN r : i < j /\ r[i].do = <<"remove">> => r[j].do \notin Goes
      <3>1. ASSUME NEW i \in DOMAIN r, NEW j \in DOMAIN r, i < j, r[i].do = <<"remove">>
            PROVE  r[j].do \notin Goes
        <4>1. i > n + n /\ i \in Int /\ j \in Int
          BY <2>4, <2>5, <3>1
        <4>2. j > n + n
          BY <3>1, <4>1
        <4>. QED
          BY <2>5, <4>2
      <3>. QED
        BY <3>1
    <2>7. \A j \in DOMAIN r : (r[j].do \in Stops => j <= n) /\ (r[j].do \in Unlinks => j > n)
      BY <2>5
    <2>8. \A j \in DOMAIN r : r[j].do \in Stops =>
            \E g \in DOMAIN r : r[g].do \in Unlinks /\ r[g].pod = r[j].pod
      BY <2>5
    <2>. QED
      BY <2>4, <2>6, <2>7, <2>8, StopsAhead, Zenon DEF r
  <1>. QED
    BY <1>2, <1>19, <1>22, <1>27, <1>29, <1>30, Zenon

(* A request's list is new, or what its only task leaves.                  *)
LEMMA MainStays ==
  ASSUME todo'[Main] = todo[Main]
  PROVE  \A p : (HealsReplica(p)' <=> HealsReplica(p)) /\ (HealsPod(p)' <=> HealsPod(p))
  <1>1. /\ \A dos : Busy(Main, dos)' <=> Busy(Main, dos)
        /\ \A dos, p : Work(Main, dos, p)' <=> Work(Main, dos, p)
        /\ \A d, p : Restored(d, p)' <=> Restored(d, p)
    BY Zenon DEF Busy, Work, Restored, Does
  <1>2. /\ \A p : Work(Main, Heals, p)' <=> Work(Main, Heals, p)
        /\ Busy(Main, {<<"bootDeps">>})' <=> Busy(Main, {<<"bootDeps">>})
        /\ Busy(Main, {<<"bootPods">>})' <=> Busy(Main, {<<"bootPods">>})
    BY <1>1, Zenon
  <1>. QED
    BY <1>1, <1>2, Zenon DEF HealsReplica, HealsPod

LEMMA DeployAnew ==
  ASSUME NEW c, DeployInv(c), ListInv(c)', todo'[Main] = todo[Main],
         UNCHANGED <<up, file, failed>>, missing \subseteq missing',
         ~Busy(c, Purges),
         \A p \in Pods :
           /\ ~Work(c, Writes, p) /\ ~Work(c, Drops, p)
           /\ Asked(c, p)' => Asked(c, p) \/ p \in missing' \/ Work(c, Writes, p)'
           /\ pods'[p] = pods[p] \/ Work(c, Writes, p)' \/ ~Stored(p)'
           /\ ~Work(c, Written, p)'
           /\ Work(c, Unlinks, p)' => p \in missing' \/ ~Asked(c, p)'
  PROVE  DeployInv(c)'
  <1>1. ASSUME NEW p \in Pods \ failed' PROVE PodDeployed(c, p)'
    <2>1. p \in Pods /\ PodDeployed(c, p)
      BY DeployParts
    <2>2. (HealsReplica(p)' <=> HealsReplica(p)) /\ (HealsPod(p)' <=> HealsPod(p))
      BY MainStays, Zenon
    <2>3. ReplicaIsDeployed(c, p)'
      BY <2>1, <2>2, DeployParts DEF PodDeployed
    <2>4. StoredIsDeployed(c, p)'
      BY <2>1, <2>2, DeployParts DEF PodDeployed, Stored
    <2>. QED
      BY <2>1, <2>3, <2>4 DEF PodDeployed
  <1>. QED
    BY <1>1, DeployParts, Zenon

LEMMA DeployPurging ==
  ASSUME NEW c, GoList(c)', Busy(c, Purges)'
  PROVE  DeployInv(c)'
  <1>1. \A p : ~Work(c, Written, p)'
    <2>1. Written \subseteq Deploys
      BY DEF Deploys
    <2>. QED
      BY <2>1, OneKind, Zenon
  <1>2. \A p : ~Asked(c, p)'
    BY Zenon DEF Asked
  <1>3. \A p \in Pods \ failed' : PodDeployed(c, p)'
    BY <1>1, <1>2, DeployParts, Zenon DEF PodDeployed
  <1>4. ListInv(c)'
    BY DEF ListInv
  <1>. QED
    BY <1>3, <1>4, DeployParts, Zenon

(* A client that starts a request had nothing to do. *)
LEMMA AcceptIs ==
  ASSUME TodoType, NEW c \in Actors, c # Main, Main \in Actors, NEW tasks, Accept(c, tasks)
  PROVE  /\ todo'[c] = tasks /\ todo'[Main] = todo[Main] /\ todo[c] = <<>>
         /\ \A dos : ~Busy(c, dos)
         /\ \A dos, p : ~Work(c, dos, p) /\ ~WorkOn(c, dos, p)
  <1>1. todo[c] = <<>> /\ todo' = [todo EXCEPT ![c] = tasks]
    BY DEF Accept
  <1>2. todo'[c] = tasks /\ todo'[Main] = todo[Main]
    BY <1>1 DEF TodoType
  <1>. QED
    BY <1>1, <1>2, NothingToDo, Zenon

(* What is asked for, with nothing left to do. *)
LEMMA AskedIs ==
  ASSUME NEW c
  PROVE  /\ \A p : Asked(c, p) => \E d \in Deps : p \in Desired(d)
         /\ \A p : \A d \in Deps : p \in Desired(d) /\ ~WorkOn(c, {<<"dropDep">>}, d) /\ ~Busy(c, Purges)
              => Asked(c, p)
         /\ \A p : Asked(c, p)' => \E d \in Deps : p \in Desired(d)' /\ ~WorkOn(c, {<<"dropDep">>}, d)'
         /\ \A d \in Deps : deps'[d] = deps[d] => Desired(d)' = Desired(d)
  BY DEF Asked, Desired

LEMMA NewAsked ==
  ASSUME NEW c, deps' = deps,
         ~Busy(c, Purges), \A d \in Deps : ~WorkOn(c, {<<"dropDep">>}, d)
  PROVE  \A p : Asked(c, p)' => Asked(c, p)
  <1> TAKE p
  <1> HAVE Asked(c, p)'
  <1>1. PICK d \in Deps : p \in Desired(d)'
    BY AskedIs, Zenon
  <1>2. p \in Desired(d)
    BY <1>1 DEF Desired
  <1>. QED
    BY <1>2, AskedIs, Zenon

LEMMA DeployAccept ==
  ASSUME TypeInv, NEW c \in Actors, c # Main, Actors = {c, Main}, DeployInv(c),
         NEW tasks, Accept(c, tasks), ListInv(c)', deps' = deps,
         UNCHANGED <<up, file, failed>>, missing \subseteq missing',
         \A p \in Pods :
           /\ pods'[p] = pods[p] \/ Work(c, Writes, p)' \/ ~Stored(p)'
           /\ ~Work(c, Written, p)'
           /\ Work(c, Unlinks, p)' => p \in missing' \/ ~Asked(c, p)'
  PROVE  DeployInv(c)'
  <1>0. TodoType /\ Main \in Actors
    BY TypeParts DEF Actors
  <1>1. /\ todo'[Main] = todo[Main] /\ \A dos : ~Busy(c, dos)
        /\ \A dos, p : ~Work(c, dos, p) /\ ~WorkOn(c, dos, p)
    BY <1>0, AcceptIs, Zenon
  <1>2. ~Busy(c, Purges) /\ \A p : ~Work(c, Writes, p) /\ ~Work(c, Drops, p)
    BY <1>1, Zenon
  <1>3. \A p : Asked(c, p)' => Asked(c, p)
    BY <1>1, <1>2, NewAsked, Zenon
  <1>4. todo'[Main] = todo[Main]
    BY <1>1
  <1>. QED
    BY <1>2, <1>3, <1>4, DeployAnew

LEMMA ReplaceDos ==
  \A do \in Replaces : do \in Writes /\ do \notin Written /\ do \notin Unlinks
  <1>1. \A do \in Replaces : do \in Writes /\ do \in Deploys
    BY DEF Replaces, Writes, Deploys
  <1>. QED
    BY <1>1, Kinds DEF Goes

(* One pod is written, and started or restarted. *)
LEMMA DeployOnePod ==
  ASSUME TypeInv, NEW c \in Actors, c # Main, Actors = {c, Main}, DeployInv(c),
         NEW p \in Pods, NEW do \in Replaces, NEW t, Accept(c, <<PodTask(do, p, t, FALSE)>>),
         UNCHANGED <<deps, up, file, failed, missing>>,
         \A e \in Pods \ {p} : pods'[e] = pods[e]
  PROVE  DeployInv(c)'
  <1>0. TodoType /\ Main \in Actors
    BY TypeParts DEF Actors
  <1>1. PICK x : x = PodTask(do, p, t, FALSE)
    OBVIOUS
  <1>2. x.do = do /\ x.pod = p
    BY <1>1 DEF PodTask
  <1>3. todo'[c] = <<x>> /\ Accept(c, <<x>>)
    BY <1>0, <1>1, AcceptIs, Zenon
  <1>4. /\ \A dos, e : Work(c, dos, e)' <=> x.do \in dos /\ x.pod = e
        /\ x.do \in Replaces => DeployList(c)'
    BY <1>3, OnlyTaskNext, Zenon
  <1>5. /\ Work(c, Writes, p)'
        /\ \A e \in Pods : ~Work(c, Written, e)' /\ ~Work(c, Unlinks, e)'
    BY <1>2, <1>4, ReplaceDos, Zenon
  <1>6. ListInv(c)'
    BY <1>2, <1>4 DEF ListInv
  <1>7. \A e \in Pods :
          /\ pods'[e] = pods[e] \/ Work(c, Writes, e)' \/ ~Stored(e)'
          /\ ~Work(c, Written, e)'
          /\ Work(c, Unlinks, e)' => e \in missing' \/ ~Asked(c, e)'
    BY <1>5, Zenon
  <1>. QED
    BY <1>3, <1>6, <1>7, DeployAccept

LEMMA DeployPodRequests ==
  ASSUME TypeInv, NEW c \in Actors, c # Main, Actors = {c, Main}, DeployInv(c)
  PROVE  /\ \A p \in Standalone, t \in Templates : PostPod(c, p, t) => DeployInv(c)'
         /\ \A p \in Pods, t \in Templates : PatchPod(c, p, t) => DeployInv(c)'
         /\ \A p \in Pods : DeletePod(c, p) => DeployInv(c)'
  <1>0. TodoType /\ StateType /\ Main \in Actors
    BY TypeParts DEF Actors
  <1>1. ASSUME NEW p \in Standalone, NEW t \in Templates, PostPod(c, p, t) PROVE DeployInv(c)'
    <2>1. /\ p \in Pods /\ \A e \in Pods \ {p} : pods'[e] = pods[e]
          /\ UNCHANGED <<deps, up, file, failed, missing>>
      BY <1>0, <1>1 DEF PostPod, StateType, host, Pods
    <2>2. <<"write", "start">> \in Replaces /\ Accept(c, <<PodTask(<<"write", "start">>, p, t, FALSE)>>)
      BY <1>1 DEF PostPod, Replaces
    <2>. QED
      BY <2>1, <2>2, DeployOnePod
  <1>2. ASSUME NEW p \in Pods, NEW t \in Templates, PatchPod(c, p, t) PROVE DeployInv(c)'
    <2>1. /\ \A e \in Pods \ {p} : pods'[e] = pods[e]
          /\ UNCHANGED <<deps, up, file, failed, missing>>
      BY <1>0, <1>2 DEF PatchPod, StateType, host, history
    <2>2. <<"write", "restart">> \in Replaces
          /\ Accept(c, <<PodTask(<<"write", "restart">>, p, t, FALSE)>>)
      BY <1>2 DEF PatchPod, Replaces
    <2>. QED
      BY <2>1, <2>2, DeployOnePod
  <1>3. ASSUME NEW p \in Pods, DeletePod(c, p) PROVE DeployInv(c)'
    <2>1. PICK ps : ps = <<p>>
      OBVIOUS
    <2>2. ps \in Seq(Pods) /\ Len(ps) = 1 /\ ps[1] = p
      BY <2>1, OneElement, Zenon
    <2>3. Once(ps)
      BY <2>2 DEF Once
    <2>4. PICK tasks : tasks = Each(<<"stop", "unlink", "drop">>, ps)
      OBVIOUS
    <2>5. Accept(c, tasks)
      BY <1>3, <2>1, <2>4, Zenon DEF DeletePod
    <2>6. todo'[c] = tasks
      BY <1>0, <2>5, AcceptIs, Zenon
    <2>a. ps \in Seq(Pods)
      BY <2>2
    <2>7. /\ GoList(c)'
          /\ \A j \in DOMAIN todo'[c] :
               todo'[c][j].do \in Goes /\ j \in 1..Len(ps) /\ todo'[c][j].pod = ps[j]
      BY <2>3, <2>4, <2>6, <2>a, GoesIs, Zenon
    <2>8. \A j \in DOMAIN todo'[c] : todo'[c][j].do \in Goes /\ todo'[c][j].pod = p
      BY <2>2, <2>7
    <2>9. \A e \in Pods : /\ ~Work(c, Written, e)'
                          /\ Work(c, Unlinks, e)' => e = p
      <3>1. \A do \in Goes : do \notin Written
        BY Kinds DEF Deploys
      <3>. QED
        BY <2>8, <3>1 DEF Work, Does
    <2>10. p \in missing' \/ \A d \in Deps : p \notin Desired(d)'
      <3>1. CASE p \in Instances
        BY <1>3, <3>1 DEF DeletePod
      <3>2. CASE p \notin Instances
        <4>1. UNCHANGED deps
          BY <1>3 DEF DeletePod, store
        <4>2. ASSUME NEW d \in Deps, p \in Desired(d)' PROVE FALSE
          <5>1. deps[d] # Absent /\ \E i \in 0..(deps[d].n - 1) : p = Inst[d][i]
            BY <4>1, <4>2 DEF Desired
          <5>2. deps[d].n \in 0..MaxReplicas
            BY <1>0, <5>1 DEF StateType
          <5>. QED
            BY <3>2, <5>1, <5>2, NamesAssumption, Replicas
        <4>. QED
          BY <4>2
      <3>. QED
        BY <3>1, <3>2
    <2>11. p \in missing' \/ ~Asked(c, p)'
      BY <2>10, AskedIs, Zenon
    <2>12. UNCHANGED <<deps, pods, up, file, failed>> /\ missing \subseteq missing'
      BY <1>3 DEF DeletePod, store, host
    <2>13. \A e \in Pods :
             /\ pods'[e] = pods[e] \/ Work(c, Writes, e)' \/ ~Stored(e)'
             /\ ~Work(c, Written, e)'
             /\ Work(c, Unlinks, e)' => e \in missing' \/ ~Asked(c, e)'
      BY <2>9, <2>11, <2>12, Zenon
    <2>14. ListInv(c)'
      BY <2>7 DEF ListInv
    <2>. QED
      BY <2>5, <2>12, <2>13, <2>14, DeployAccept
  <1>. QED
    BY <1>1, <1>2, <1>3, Zenon

LEMMA DeployDepRequests ==
  ASSUME TypeInv, NEW c \in Actors, c # Main, Actors = {c, Main}, DeployInv(c)
  PROVE  /\ \A d \in Deps, n \in 0..MaxReplicas, t \in Templates :
              PostDeployment(c, d, n, t) => DeployInv(c)'
         /\ \A d \in Deps, n \in 0..MaxReplicas, t \in Specs, scale \in BOOLEAN :
              ChangeDeployment(c, d, n, t, scale) => DeployInv(c)'
         /\ \A d \in Deps : DeleteDeployment(c, d) => DeployInv(c)'
  <1>0. TodoType /\ StateType /\ Main \in Actors
    BY TypeParts DEF Actors
  <1>a. MaxReplicas \in Nat /\ 0 \in 0..MaxReplicas
    BY NamesAssumption
  <1>1. ASSUME NEW d \in Deps, NEW n \in 0..MaxReplicas, NEW t \in Templates,
               PostDeployment(c, d, n, t)
        PROVE  DeployInv(c)'
    <2>1. PICK tasks : tasks = DeployInstances(d, t, 0, n, "start")
      OBVIOUS
    <2>2. Accept(c, tasks)
      BY <1>1, <2>1, Zenon DEF PostDeployment
    <2>3. /\ todo'[c] = tasks /\ todo'[Main] = todo[Main] /\ \A dos : ~Busy(c, dos)
          /\ \A dos, p : ~Work(c, dos, p) /\ ~WorkOn(c, dos, p)
      BY <1>0, <2>2, AcceptIs, Zenon
    <2>4. t \in Specs /\ "start" \in {"start", "restart"}
      BY DEF Specs
    <2>5. /\ DeployList(c)'
          /\ \A j \in DOMAIN todo'[c] :
               todo'[c][j].do = <<"write", "sync", "start">> /\ todo'[c][j].do \in Syncs
          /\ \A i \in 0..(n - 1) : Work(c, Writes, Inst[d][i])'
      <3>1. todo'[c] = DeployInstances(d, t, 0, n, "start")
        BY <2>1, <2>3, Zenon
      <3>. QED
        BY <1>a, <2>4, <3>1, DeploysIs
    <2>6. \A p : ~Work(c, Written, p)' /\ ~Work(c, Unlinks, p)'
      <3>1. \A do \in Syncs : do \notin Written /\ do \notin Unlinks
        BY Kinds DEF Writes, Deploys, Goes
      <3>. QED
        BY <2>5, <3>1 DEF Work, Does
    <2>7. ASSUME NEW p \in Pods, Asked(c, p)' PROVE Asked(c, p) \/ Work(c, Writes, p)'
      <3>1. PICK e \in Deps : p \in Desired(e)'
        BY <2>7, AskedIs, Zenon
      <3>2. CASE e = d
        <4>1. deps'[d] # Absent /\ deps'[d].n = n
          <5>1. PICK v \in [n : 0..MaxReplicas, t : Specs] : v = [n |-> n, t |-> t]
            BY <2>4
          <5>2. deps'[d] = v /\ v.n = n
            BY <1>0, <1>1, <5>1 DEF PostDeployment, StateType
          <5>. QED
            BY <5>2, NamesAssumption
        <4>2. PICK i \in 0..(n - 1) : p = Inst[d][i]
          BY <3>1, <3>2, <4>1 DEF Desired
        <4>. QED
          BY <2>5, <4>2
      <3>3. CASE e # d
        <4>1. deps'[e] = deps[e]
          BY <1>0, <1>1, <3>3 DEF PostDeployment, StateType
        <4>2. p \in Desired(e)
          BY <3>1, <4>1 DEF Desired
        <4>3. ~WorkOn(c, {<<"dropDep">>}, e) /\ ~Busy(c, Purges)
          BY <2>3, Zenon
        <4>. QED
          BY <4>2, <4>3, AskedIs, Zenon
      <3>. QED
        BY <3>2, <3>3
    <2>8. UNCHANGED <<pods, up, file, failed, missing>>
      BY <1>1 DEF PostDeployment, host, history
    <2>9. ~Busy(c, Purges) /\ \A p \in Pods : ~Work(c, Writes, p) /\ ~Work(c, Drops, p)
      BY <2>3, Zenon
    <2>10. ListInv(c)' /\ todo'[Main] = todo[Main]
      BY <2>3, <2>5 DEF ListInv
    <2>. QED
      BY <2>6, <2>7, <2>8, <2>9, <2>10, DeployAnew
  <1>2. ASSUME NEW d \in Deps, NEW n \in 0..MaxReplicas, NEW t \in Specs, NEW scale \in BOOLEAN,
               ChangeDeployment(c, d, n, t, scale)
        PROVE  DeployInv(c)'
    <2>1. PICK u : u = [do |-> <<"update">>, dep |-> d, n |-> n, t |-> t,
                        old |-> deps[d].n, scale |-> scale]
      OBVIOUS
    <2>2. u.do = <<"update">> /\ u.dep = d /\ u.old = deps[d].n
      BY <2>1
    <2>3. PICK q : q = <<u>>
      OBVIOUS
    <2>4. Len(q) = 1 /\ q[1] = u
      BY <2>3
    <2>5. Accept(c, q)
      BY <1>2, <2>1, <2>3, Zenon DEF ChangeDeployment
    <2>6. todo'[c] = q /\ todo'[c] = <<u>>
      BY <1>0, <2>3, <2>5, AcceptIs, Zenon
    <2>7. UNCHANGED <<deps, pods, up, file, failed, missing>> /\ deps[d] # Absent
      BY <1>2 DEF ChangeDeployment, store, host, history
    <2>8. UpdateList(c)'
      BY <2>2, <2>4, <2>6, <2>7 DEF UpdateList
    <2>9. \A p : ~Work(c, Written, p)' /\ ~Work(c, Unlinks, p)'
      <3>1. \A dos, p : Work(c, dos, p)' <=> u.do \in dos /\ u.pod = p
        BY <2>6, OnlyTaskNext, Zenon
      <3>2. <<"update">> \notin Written /\ <<"update">> \notin Unlinks
        BY Kinds DEF AllDos, Deploys, Goes
      <3>. QED
        BY <2>2, <3>1, <3>2, Zenon
    <2>10. ListInv(c)'
      BY <2>8 DEF ListInv
    <2>. QED
      BY <2>5, <2>7, <2>9, <2>10, DeployAccept
  <1>3. ASSUME NEW d \in Deps, DeleteDeployment(c, d) PROVE DeployInv(c)'
    <2>1. deps[d] # Absent /\ deps[d].n \in 0..MaxReplicas
      BY <1>0, <1>3 DEF DeleteDeployment, StateType
    <2>2. PICK k \in 0..MaxReplicas : k = deps[d].n
      BY <2>1
    <2>3. PICK ps : ps = Range_(d, 0, k)
      OBVIOUS
    <2>4. ps \in Seq(Pods)
      BY <1>a, <2>3, RangeIs, Zenon
    <2>5. PICK tasks : tasks = Each(<<"stop">>, ps) \o Each(<<"unlink">>, ps) \o Each(<<"drop">>, ps)
                                 \o <<[do |-> <<"dropDep">>, dep |-> d]>>
      OBVIOUS
    <2>6. Accept(c, tasks)
      BY <1>3, <2>2, <2>3, <2>5, Zenon DEF DeleteDeployment
    <2>7. todo'[c] = tasks
      BY <1>0, <2>6, AcceptIs, Zenon
    <2>8. /\ GoList(c)' /\ WorkOn(c, {<<"dropDep">>}, d)'
          /\ \A j \in DOMAIN todo'[c] : todo'[c][j].do \in Goes =>
               \E i \in 1..Len(ps) : todo'[c][j].pod = ps[i]
      <3>1. todo'[c] = Each(<<"stop">>, ps) \o Each(<<"unlink">>, ps) \o Each(<<"drop">>, ps)
                         \o <<[do |-> <<"dropDep">>, dep |-> d]>>
        BY <2>5, <2>7, Zenon
      <3>. QED
        BY <2>4, <3>1, RoundsIs
    <2>9. \A p : ~Work(c, Written, p)'
      BY <2>8, OneKind, Zenon DEF Deploys
    <2>10. UNCHANGED <<deps, pods, up, file, failed, missing>>
      BY <1>3 DEF DeleteDeployment, store, host, history
    <2>11. ASSUME NEW p \in Pods, Work(c, Unlinks, p)', Asked(c, p)' PROVE FALSE
      <3>1. PICK j \in 1..Len(ps) : p = ps[j]
        <4>1. \A do \in Unlinks : do \in Goes
          BY DEF Goes
        <4>. QED
          BY <2>8, <2>11, <4>1 DEF Work, Does
      <3>2. PICK i \in 0..(k - 1) : p = Inst[d][i]
        <4>1. \A m \in 1..Len(ps) : 0 + m - 1 \in 0..(k - 1) /\ ps[m] = Inst[d][0 + m - 1]
          BY <1>a, <2>3, RangeIs, Zenon
        <4>. QED
          BY <3>1, <4>1
      <3>3. PICK e \in Deps : p \in Desired(e)' /\ ~WorkOn(c, {<<"dropDep">>}, e)'
        BY <2>11, AskedIs, Zenon
      <3>4. e # d
        BY <2>8, <3>3
      <3>5. deps[e] # Absent /\ \E m \in 0..(deps[e].n - 1) : p = Inst[e][m]
        BY <2>10, <3>3 DEF Desired
      <3>6. deps[e].n \in 0..MaxReplicas
        BY <1>0, <3>5 DEF StateType
      <3>7. PICK m \in 0..(MaxReplicas - 1) : p = Inst[e][m]
        BY <1>a, <3>5, <3>6
      <3>8. i \in 0..(MaxReplicas - 1)
        BY <1>a
      <3>. QED
        BY <3>2, <3>4, <3>7, <3>8, Replicas, Zenon
    <2>12. ListInv(c)'
      BY <2>8 DEF ListInv
    <2>. QED
      BY <2>6, <2>9, <2>10, <2>11, <2>12, DeployAccept
  <1>. QED
    BY <1>1, <1>2, <1>3, Zenon

LEMMA DeployNsRequests ==
  ASSUME TypeInv, NEW c \in Actors, c # Main, Actors = {c, Main}, DeployInv(c)
  PROVE  /\ PostNamespace(c) => DeployInv(c)'
         /\ DeleteNamespace(c) => DeployInv(c)'
  <1>0. TodoType /\ StateType /\ Main \in Actors
    BY TypeParts DEF Actors
  <1>1. ASSUME PostNamespace(c) PROVE DeployInv(c)'
    <2>1. Accept(c, <<>>) /\ UNCHANGED <<deps, pods, up, file, failed, missing>>
      BY <1>1 DEF PostNamespace, host, history
    <2>2. todo'[c] = <<>>
      BY <1>0, <2>1, AcceptIs, Zenon
    <2>3. DeployList(c)' /\ \A dos, p : ~Work(c, dos, p)'
      BY <2>2, NothingToDo, Zenon
    <2>4. ListInv(c)' /\ \A p : ~Work(c, Written, p)' /\ ~Work(c, Unlinks, p)'
      BY <2>3, Zenon DEF ListInv
    <2>. QED
      BY <2>1, <2>4, DeployAccept
  <1>2. ASSUME DeleteNamespace(c) PROVE DeployInv(c)'
    <2>1. PICK ps \in Orders({p \in Pods : Stored(p)}) :
            Accept(c, Each(<<"stop", "unlink">>, ps)
                        \o <<[do |-> <<"purgeDeps", "purge", "dropNs">>]>>)
      BY <1>2, Zenon DEF DeleteNamespace
    <2>2. ps \in Seq(Pods)
      <3>1. PICK Y \in SUBSET Pods : Y = {p \in Pods : Stored(p)}
        OBVIOUS
      <3>2. ps \in Orders(Y)
        BY <3>1
      <3>. QED
        BY <3>2, PodOrders
    <2>3. todo'[c] = Each(<<"stop", "unlink">>, ps) \o <<[do |-> <<"purgeDeps", "purge", "dropNs">>]>>
      BY <1>0, <2>1, AcceptIs, Zenon
    <2>. QED
      BY <2>2, <2>3, NamespaceIs, DeployPurging, Zenon
  <1>. QED
    BY <1>1, <1>2

(* A request's last task is done, and `more` is what it leaves. *)
LEMMA OneMoreIs ==
  ASSUME TodoType, NEW c \in Actors, c # Main, Main \in Actors, NEW s, Doing(c, s), Len(todo[c]) = 1,
         NEW more \in Seq(TasksOf(c)), Continue(c, <<>>, more)
  PROVE  /\ todo'[c] = more /\ todo'[Main] = todo[Main]
         /\ \A dos : Busy(c, dos) <=> Task(c).do \in dos
         /\ \A dos, p : Work(c, dos, p) <=> Task(c).do \in dos /\ Task(c).pod = p
         /\ \A dos, d : WorkOn(c, dos, d) <=> Task(c).do \in dos /\ Task(c).dep = d
  <1>1. todo'[c] = more /\ todo'[Main] = todo[Main]
    BY OneMore, Zenon
  <1>2. DOMAIN todo[c] = 1..Len(todo[c]) /\ Task(c) = todo[c][1]
    BY FirstTask
  <1>. QED
    BY <1>1, <1>2, OnlyTask, Zenon

(* What a change of the number of replicas leaves to do. *)
LEMMA UpdateIs ==
  ASSUME NEW c \in Actors, NEW d \in Deps, NEW t \in Specs, NEW scale,
         NEW old \in 0..MaxReplicas, NEW n \in 0..MaxReplicas,
         todo'[c] = IF n # old \/ scale THEN ScaleTasks(d, t, old, n)
                    ELSE DeployInstances(d, t, 0, n, "restart")
  PROVE  /\ DeployList(c)' \/ GoList(c)'
         /\ \A p : ~Work(c, Written, p)'
         /\ \A p : Work(c, Unlinks, p)' => \E i \in n..(old - 1) : p = Inst[d][i]
         /\ \A i \in old..(n - 1) : Work(c, Writes, Inst[d][i])'
  <1>0. 0 \in 0..MaxReplicas
    BY NamesAssumption
  <1>a. \A do \in Syncs : do \notin Written /\ do \notin Unlinks
    BY Kinds DEF Writes, Deploys, Goes
  <1>1. CASE n # old \/ scale
    <2>1. todo'[c] = ScaleTasks(d, t, old, n)
      BY <1>1
    <2>2. CASE old <= n
      <3>1. todo'[c] = DeployInstances(d, t, old, n, "start")
        BY <2>1, <2>2, ScaleIs, Zenon
      <3>2. "start" \in {"start", "restart"}
        OBVIOUS
      <3>3. /\ DeployList(c)' /\ \A j \in DOMAIN todo'[c] : todo'[c][j].do \in Syncs
            /\ \A i \in old..(n - 1) : Work(c, Writes, Inst[d][i])'
        BY <3>1, <3>2, DeploysIs
      <3>. QED
        BY <1>a, <3>3 DEF Work, Does
    <2>3. CASE n < old
      <3>1. PICK ps : ps = Range_(d, n, old)
        OBVIOUS
      <3>2. n <= old
        BY <2>3
      <3>3. todo'[c] = Each(<<"stop", "unlink", "drop">>, ps)
        BY <2>1, <3>1, <3>2, ScaleIs, Zenon
      <3>4. ps \in Seq(Pods) /\ Once(ps)
        BY <3>1, RangeIs, RangeOnce, Zenon
      <3>5. \A m \in 1..Len(ps) : n + m - 1 \in n..(old - 1) /\ ps[m] = Inst[d][n + m - 1]
        BY <3>1, RangeIs, Zenon
      <3>6. /\ GoList(c)'
            /\ \A j \in DOMAIN todo'[c] :
                 todo'[c][j].do \in Goes /\ j \in 1..Len(ps) /\ todo'[c][j].pod = ps[j]
        <4>1. ps \in Seq(Pods)
          BY <3>4
        <4>. QED
          BY <3>3, <3>4, <4>1, GoesIs, Zenon
      <3>7. \A p : Work(c, Unlinks, p)' => \E i \in n..(old - 1) : p = Inst[d][i]
        BY <3>5, <3>6 DEF Work, Does
      <3>8. \A p : ~Work(c, Written, p)'
        BY <3>6, OneKind, Zenon DEF Deploys
      <3>9. \A i \in old..(n - 1) : FALSE
        BY <2>3
      <3>. QED
        BY <3>6, <3>7, <3>8, <3>9
    <2>. QED
      BY <2>2, <2>3
  <1>2. CASE n = old /\ ~scale
    <2>1. todo'[c] = DeployInstances(d, t, 0, n, "restart")
      BY <1>2
    <2>2. "restart" \in {"start", "restart"}
      OBVIOUS
    <2>3. DeployList(c)' /\ \A j \in DOMAIN todo'[c] : todo'[c][j].do \in Syncs
      BY <1>0, <2>1, <2>2, DeploysIs
    <2>4. \A i \in old..(n - 1) : FALSE
      BY <1>2
    <2>. QED
      BY <1>a, <2>3, <2>4 DEF Work, Does
  <1>. QED
    BY <1>1, <1>2

LEMMA DeployUpdate ==
  ASSUME TypeInv, NEW c \in Actors, c # Main, Actors = {c, Main}, DeployInv(c), UpdateDeployment(c)
  PROVE  DeployInv(c)'
  <1>0. TodoType /\ StateType /\ Main \in Actors
    BY TypeParts DEF Actors
  <1>1. Doing(c, "update") /\ Task(c) \in Updates
    BY <1>0, PlainStage DEF UpdateDeployment
  <1>2. PICK u \in Updates : u = Task(c)
    BY <1>1
  <1>3. PICK d \in Deps : d = u.dep
    BY DEF Updates
  <1>4. PICK n \in 0..MaxReplicas : n = u.n
    BY DEF Updates
  <1>5. PICK old \in 0..MaxReplicas : old = u.old
    BY DEF Updates
  <1>6. PICK t \in Specs : t = u.t
    BY DEF Updates
  <1>7. u.do = <<"update">>
    BY DEF Updates
  <1>8. UpdateList(c)
    BY <1>0, <1>1, <1>2, <1>7, KindOfList, DeployParts
  <1>9. Len(todo[c]) = 1 /\ deps[d] # Absent /\ deps[d].n = old
    BY <1>0, <1>1, <1>2, <1>3, <1>5, <1>8, FirstTask DEF UpdateList
  <1>10. PICK more : more = IF n # old \/ u.scale THEN ScaleTasks(d, t, old, n)
                            ELSE DeployInstances(d, t, 0, n, "restart")
    OBVIOUS
  <1>11. Continue(c, <<>>, more) /\ deps' = [deps EXCEPT ![d] = [n |-> n, t |-> t]]
    BY <1>2, <1>3, <1>4, <1>5, <1>6, <1>9, <1>10, Zenon DEF UpdateDeployment
  <1>12. more \in Seq(TasksOf(c))
    <2>1. ScaleTasks(d, t, old, n) \in Seq(TasksOf(c))
          /\ DeployInstances(d, t, 0, n, "restart") \in Seq(TasksOf(c))
      BY NewLists, Zenon
    <2>. QED
      BY <1>10, <2>1, Zenon
  <1>13. /\ todo'[c] = more /\ todo'[Main] = todo[Main]
         /\ \A dos : Busy(c, dos) <=> Task(c).do \in dos
         /\ \A dos, p : Work(c, dos, p) <=> Task(c).do \in dos /\ Task(c).pod = p
         /\ \A dos, e : WorkOn(c, dos, e) <=> Task(c).do \in dos /\ Task(c).dep = e
    BY <1>0, <1>1, <1>9, <1>11, <1>12, OneMoreIs, Zenon
  <1>14. /\ ~Busy(c, Purges) /\ \A e : ~WorkOn(c, {<<"dropDep">>}, e)
         /\ \A p : ~Work(c, Writes, p) /\ ~Work(c, Drops, p)
    <2>1. /\ <<"update">> \notin Purges /\ <<"update">> # <<"dropDep">>
          /\ <<"update">> \notin Writes /\ <<"update">> \notin Drops
      BY Kinds, PlainHeads DEF AllDos, Deploys, Goes
    <2>2. <<"update">> \notin {<<"dropDep">>}
      BY <2>1
    <2>. QED
      BY <1>2, <1>7, <1>13, <2>1, <2>2, Zenon
  <1>15. /\ DeployList(c)' \/ GoList(c)'
         /\ \A p : ~Work(c, Written, p)'
         /\ \A p : Work(c, Unlinks, p)' => \E i \in n..(old - 1) : p = Inst[d][i]
         /\ \A i \in old..(n - 1) : Work(c, Writes, Inst[d][i])'
    <2>1. PICK scale : scale = u.scale
      OBVIOUS
    <2>2. todo'[c] = IF n # old \/ scale THEN ScaleTasks(d, t, old, n)
                     ELSE DeployInstances(d, t, 0, n, "restart")
      BY <1>10, <1>13, <2>1, Zenon
    <2>. QED
      BY <2>2, UpdateIs
  <1>16. /\ deps'[d] # Absent /\ deps'[d].n = n /\ \A e \in Deps \ {d} : deps'[e] = deps[e]
    <2>1. PICK v \in [n : 0..MaxReplicas, t : Specs] : v = [n |-> n, t |-> t]
      OBVIOUS
    <2>2. v.n = n /\ v # Absent
      BY <2>1, NamesAssumption
    <2>3. deps'[d] = v /\ \A e \in Deps \ {d} : deps'[e] = deps[e]
      BY <1>0, <1>11, <2>1 DEF StateType
    <2>. QED
      BY <2>2, <2>3
  <1>17. ASSUME NEW p \in Pods, Asked(c, p)' PROVE Asked(c, p) \/ Work(c, Writes, p)'
    <2>1. PICK e \in Deps : p \in Desired(e)'
      BY <1>17, AskedIs, Zenon
    <2>2. p \in Desired(e) => Asked(c, p)
      BY <1>14, AskedIs, Zenon
    <2>3. CASE e = d
      <3>1. PICK i \in 0..(n - 1) : p = Inst[d][i]
        BY <1>16, <2>1, <2>3 DEF Desired
      <3>2. CASE i < old
        <4>1. i \in 0..(old - 1)
          BY <3>2
        <4>2. p \in Desired(d)
          BY <1>9, <3>1, <4>1 DEF Desired
        <4>. QED
          BY <2>2, <2>3, <4>2
      <3>3. CASE i >= old
        <4>1. i \in old..(n - 1)
          BY <3>3
        <4>. QED
          BY <1>15, <3>1, <4>1
      <3>. QED
        BY <3>2, <3>3
    <2>4. CASE e # d
      <3>1. deps'[e] = deps[e]
        BY <1>16, <2>4
      <3>2. p \in Desired(e)
        BY <2>1, <3>1 DEF Desired
      <3>. QED
        BY <2>2, <3>2
    <2>. QED
      BY <2>3, <2>4
  <1>18. ASSUME NEW p \in Pods, Work(c, Unlinks, p)', Asked(c, p)' PROVE FALSE
    <2>0. MaxReplicas \in Nat
      BY NamesAssumption
    <2>1. PICK i \in n..(old - 1) : p = Inst[d][i]
      BY <1>15, <1>18
    <2>2. i \in 0..(MaxReplicas - 1) /\ i >= n
      BY <2>0, <2>1
    <2>3. PICK e \in Deps : p \in Desired(e)'
      BY <1>18, AskedIs, Zenon
    <2>4. deps'[e] # Absent /\ \E m \in 0..(deps'[e].n - 1) : p = Inst[e][m]
      BY <2>3 DEF Desired
    <2>5. deps'[e].n \in 0..MaxReplicas
      BY <1>0, <1>16, <2>4 DEF StateType
    <2>6. PICK m \in 0..(deps'[e].n - 1) : p = Inst[e][m]
      BY <2>4
    <2>7. m \in 0..(MaxReplicas - 1)
      BY <2>0, <2>5
    <2>8. e = d /\ m = i
      BY <2>1, <2>2, <2>6, <2>7, Replicas, Zenon
    <2>. QED
      BY <1>16, <2>2, <2>6, <2>8
  <1>19. UNCHANGED <<pods, up, file, failed, missing>>
    BY DEF UpdateDeployment, host, history
  <1>20. ListInv(c)'
    BY <1>15 DEF ListInv
  <1>. QED
    BY <1>13, <1>14, <1>15, <1>17, <1>18, <1>19, <1>20, DeployAnew

(* The pods and Deployments of a namespace are gone, the namespace is left. *)
LEMMA PurgeIs ==
  ASSUME TypeInv, NEW c \in Actors, c # Main, Main \in Actors, ListInv(c), Purge(c)
  PROVE  /\ GoList(c)' /\ todo'[Main] = todo[Main]
         /\ \A dos : dos \subseteq AllDos => \A p : ~Work(c, dos, p)'
         /\ \A dos : Busy(c, dos)' <=> <<"dropNs">> \in dos
         /\ \A d : ~WorkOn(c, {<<"remove">>}, d)'
         /\ \A dos : Busy(c, dos) <=> <<"purge", "dropNs">> \in dos
         /\ \A dos, p : Work(c, dos, p) => <<"purge", "dropNs">> \in dos
  <1>0. TodoType
    BY TypeParts
  <1>1. Doing(c, "purge") /\ Task(c) \in [do : {<<"purge", "dropNs">>}]
    BY <1>0, PlainStage DEF Purge
  <1>2. Task(c).do = <<"purge", "dropNs">> /\ <<"purge", "dropNs">> \in Finals
    BY <1>1, FinalDos
  <1>3. Len(todo[c]) = 1
    BY <1>0, <1>1, <1>2, KindOfList
  <1>4. Continue(c, <<"dropNs">>, <<>>)
    <2>1. Tail(<<"purge", "dropNs">>) = <<"dropNs">>
      BY ShortTails, Zenon
    <2>. QED
      BY <1>2, <2>1, Zenon DEF Purge, Advance
  <1>5. /\ todo[c] \in Seq(TasksOf(c)) /\ todo[c] # <<>> /\ Task(c) = todo[c][1]
        /\ DOMAIN todo[c] = 1..Len(todo[c])
    BY <1>0, <1>1, FirstTask
  <1>6. [Head(todo[c]) EXCEPT !.do = <<"dropNs">>] \in TasksOf(c)
    BY <1>1 DEF Task, TasksOf, ClientTasks
  <1>7. PICK r : r = Rest(todo[c], <<"dropNs">>, <<>>)
    OBVIOUS
  <1>8. <<"dropNs">> # <<>>
    OBVIOUS
  <1>9. r \in Seq(TasksOf(c)) /\ Len(r) = 1 /\ r[1] = [todo[c][1] EXCEPT !.do = <<"dropNs">>]
    <2>1. Tail(todo[c]) = <<>> /\ Head(todo[c]) = todo[c][1]
      BY <1>0, <1>3, <1>5, LastTask DEF Task
    <2>2. PICK y \in TasksOf(c) : y = [Head(todo[c]) EXCEPT !.do = <<"dropNs">>]
      BY <1>6
    <2>3. r = <<y>> \o <<>> \o Tail(todo[c])
      BY <1>7, <1>8, <2>2, Zenon DEF Rest
    <2>4. \A x : <<x>> \o <<>> = <<x>>
      OBVIOUS
    <2>5. r = <<y>>
      BY <2>1, <2>3, <2>4, Zenon
    <2>6. r \in Seq(TasksOf(c)) /\ Len(r) = 1 /\ r[1] = y
      BY <2>5, OneElement, Zenon
    <2>. QED
      BY <2>1, <2>2, <2>6
  <1>10. r[1].do = <<"dropNs">> /\ DOMAIN r = 1..1
    <2>1. Task(c) = todo[c][1]
      BY <1>5
    <2>2. [Task(c) EXCEPT !.do = <<"dropNs">>].do = <<"dropNs">>
      BY <1>1
    <2>. QED
      BY <1>9, <2>1, <2>2
  <1>11. todo'[c] = r /\ todo'[Main] = todo[Main]
    <2>1. todo' = [todo EXCEPT ![c] = r]
      BY <1>4, <1>7, ContinueIs, Zenon
    <2>. QED
      BY <1>0, <2>1 DEF TodoType
  <1>12. \A j \in DOMAIN todo'[c] : j = 1 /\ todo'[c][j].do = <<"dropNs">>
    BY <1>10, <1>11
  <1>13. /\ <<"dropNs">> \in Finals /\ <<"dropNs">> \notin AllDos /\ <<"dropNs">> # <<"remove">>
         /\ \A dos : dos \subseteq AllDos => <<"dropNs">> \notin dos
    BY FinalDos
  <1>14. GoList(c)'
    <2>1. /\ Drops \subseteq AllDos /\ Stops \cup Unlinks \subseteq AllDos
          /\ <<"dropNs">> \notin Drops /\ <<"dropNs">> \notin Stops \cup Unlinks
      BY <1>13 DEF AllDos, Goes
    <2>. QED
      BY <1>9, <1>11, <1>12, <1>13, <2>1 DEF GoList, Does, Work
  <1>15. /\ \A dos : dos \subseteq AllDos => \A p : ~Work(c, dos, p)'
         /\ \A d : ~WorkOn(c, {<<"remove">>}, d)'
    BY <1>12, <1>13 DEF Work, WorkOn, Does
  <1>16. \A dos : Busy(c, dos)' <=> <<"dropNs">> \in dos
    <2>1. 1 \in DOMAIN todo'[c] /\ todo'[c][1].do = <<"dropNs">>
      BY <1>10, <1>11
    <2>. QED
      BY <1>12, <2>1 DEF Busy, Does
  <1>17. /\ \A dos : Busy(c, dos) <=> <<"purge", "dropNs">> \in dos
         /\ \A dos, p : Work(c, dos, p) => <<"purge", "dropNs">> \in dos
    <2>1. /\ \A dos : Busy(c, dos) <=> Task(c).do \in dos
          /\ \A dos, p : Work(c, dos, p) <=> Task(c).do \in dos /\ Task(c).pod = p
      BY <1>3, <1>5, OnlyTask, Zenon
    <2>. QED
      BY <1>2, <2>1, Zenon
  <1>. QED
    BY <1>11, <1>14, <1>15, <1>16, <1>17, Zenon

(* The last of a request ends it. *)
LEMMA LastIs ==
  ASSUME TypeInv, NEW c \in Actors, c # Main, Main \in Actors, ListInv(c),
         NEW s, Doing(c, s), Tail(Task(c).do) = <<>>, Task(c).do \in Finals, Advance(c)
  PROVE  /\ todo'[c] = <<>> /\ todo'[Main] = todo[Main]
         /\ \A dos : Busy(c, dos) <=> Task(c).do \in dos
         /\ \A dos, p : Work(c, dos, p) <=> Task(c).do \in dos /\ Task(c).pod = p
         /\ \A dos, d : WorkOn(c, dos, d) <=> Task(c).do \in dos /\ Task(c).dep = d
  <1>0. TodoType
    BY TypeParts
  <1>1. Len(todo[c]) = 1
    BY <1>0, KindOfList
  <1>2. Continue(c, <<>>, <<>>)
    BY Zenon DEF Advance
  <1>3. Continue(c, <<>>, <<>>) /\ <<>> \in Seq(TasksOf(c))
    BY <1>2
  <1>. QED
    BY <1>0, <1>1, <1>3, OneMoreIs, Zenon

LEMMA DeployPlainSteps ==
  ASSUME TypeInv, NEW c \in Actors, c # Main, Actors = {c, Main}, DeployInv(c)
  PROVE  /\ DropDeployment(c) => DeployInv(c)'
         /\ PurgeDeployments(c) => DeployInv(c)'
         /\ RemoveReplicas(c) => DeployInv(c)'
         /\ Purge(c) => DeployInv(c)'
         /\ DropNamespace(c) => DeployInv(c)'
  <1>0. TodoType /\ StateType /\ Main \in Actors /\ ListInv(c)
    BY TypeParts, DeployParts DEF Actors
  <1>a. /\ <<"dropDep">> \notin AllDos /\ <<"dropNs">> \notin AllDos
        /\ <<"dropDep">> \notin Purges /\ <<"dropNs">> \notin Purges
        /\ <<"dropNs">> \notin {<<"dropDep">>}
        /\ Writes \subseteq AllDos /\ Drops \subseteq AllDos
        /\ Written \subseteq AllDos /\ Unlinks \subseteq AllDos
    BY FinalDos DEF AllDos, Deploys, Goes
  <1>1. ASSUME DropDeployment(c) PROVE DeployInv(c)'
    <2>1. Doing(c, "dropDep") /\ Task(c) \in [do : {<<"dropDep">>}, dep : Deps]
      BY <1>0, <1>1, PlainStage DEF DropDeployment
    <2>2. Task(c).dep \in Deps /\ Task(c).do = <<"dropDep">>
      BY <2>1
    <2>3. Tail(Task(c).do) = <<>> /\ Task(c).do \in Finals
      BY <2>2, ShortTails, FinalDos
    <2>4. /\ todo'[c] = <<>> /\ todo'[Main] = todo[Main]
          /\ \A dos : Busy(c, dos) <=> Task(c).do \in dos
          /\ \A dos, p : Work(c, dos, p) <=> Task(c).do \in dos /\ Task(c).pod = p
          /\ \A dos, d : WorkOn(c, dos, d) <=> Task(c).do \in dos /\ Task(c).dep = d
      BY <1>0, <1>1, <2>1, <2>3, LastIs DEF DropDeployment
    <2>5. DeployList(c)' /\ \A p : ~Work(c, Written, p)' /\ ~Work(c, Unlinks, p)'
      BY <2>4, NothingToDo, Zenon
    <2>6. /\ ~Busy(c, Purges) /\ \A p : ~Work(c, Writes, p) /\ ~Work(c, Drops, p)
          /\ \A d : d # Task(c).dep => ~WorkOn(c, {<<"dropDep">>}, d)
      <3>1. Task(c).do \notin Purges /\ Task(c).do \notin Writes /\ Task(c).do \notin Drops
        BY <1>a, <2>2
      <3>. QED
        BY <2>4, <3>1, Zenon
    <2>7. deps' = [deps EXCEPT ![Task(c).dep] = Absent] /\ UNCHANGED <<pods, up, file, failed, missing>>
      BY <1>1 DEF DropDeployment, host, history
    <2>8. ASSUME NEW p, Asked(c, p)' PROVE Asked(c, p)
      <3>1. PICK e \in Deps : p \in Desired(e)'
        BY <2>8, AskedIs, Zenon
      <3>2. e # Task(c).dep /\ deps'[e] = deps[e]
        BY <1>0, <2>7, <3>1 DEF Desired, StateType
      <3>3. p \in Desired(e)
        BY <3>1, <3>2 DEF Desired
      <3>. QED
        BY <2>6, <3>2, <3>3, AskedIs, Zenon
    <2>9. ListInv(c)' /\ todo'[Main] = todo[Main]
      BY <2>4, <2>5 DEF ListInv
    <2>. QED
      BY <2>5, <2>6, <2>7, <2>8, <2>9, DeployAnew
  <1>2. ASSUME PurgeDeployments(c) PROVE DeployInv(c)'
    <2>1. GoList(c)' /\ Busy(c, Purges)'
      BY <1>0, <1>2, RemovalsIs, Zenon
    <2>. QED
      BY <2>1, DeployPurging, Zenon
  <1>3. ASSUME RemoveReplicas(c) PROVE DeployInv(c)'
    <2>1. GoList(c)' /\ Busy(c, Purges)'
      BY <1>0, <1>3, RemoveIs, Zenon
    <2>. QED
      BY <2>1, DeployPurging, Zenon
  <1>4. ASSUME Purge(c) PROVE DeployInv(c)'
    <2>1. /\ GoList(c)' /\ \A dos : dos \subseteq AllDos => \A p : ~Work(c, dos, p)'
      BY <1>0, <1>4, PurgeIs, Zenon
    <2>2. \A p : ~Work(c, Written, p)' /\ ~Work(c, Unlinks, p)'
      BY <1>a, <2>1, Zenon
    <2>3. \A p \in Pods : ~Stored(p)' /\ ~Asked(c, p)'
      <3>1. \A d \in Deps : Desired(d)' = {}
        BY <1>4 DEF Purge, Desired
      <3>. QED
        BY <1>4, <3>1, AskedIs DEF Purge, Stored
    <2>4. \A p \in Pods \ failed' : PodDeployed(c, p)'
      BY <2>2, <2>3, DeployParts, Zenon DEF PodDeployed
    <2>5. ListInv(c)'
      BY <2>1 DEF ListInv
    <2>. QED
      BY <2>4, <2>5, DeployParts, Zenon
  <1>5. ASSUME DropNamespace(c) PROVE DeployInv(c)'
    <2>1. Doing(c, "dropNs") /\ Task(c) \in [do : {<<"dropNs">>}]
      BY <1>0, <1>5, PlainStage DEF DropNamespace
    <2>2. Task(c).do = <<"dropNs">>
      BY <2>1
    <2>3. Tail(Task(c).do) = <<>> /\ Task(c).do \in Finals
      BY <2>2, ShortTails, FinalDos
    <2>4. /\ todo'[c] = <<>> /\ todo'[Main] = todo[Main]
          /\ \A dos : Busy(c, dos) <=> Task(c).do \in dos
          /\ \A dos, p : Work(c, dos, p) <=> Task(c).do \in dos /\ Task(c).pod = p
          /\ \A dos, d : WorkOn(c, dos, d) <=> Task(c).do \in dos /\ Task(c).dep = d
      BY <1>0, <1>5, <2>1, <2>3, LastIs DEF DropNamespace
    <2>5. DeployList(c)' /\ \A p : ~Work(c, Written, p)' /\ ~Work(c, Unlinks, p)'
      BY <2>4, NothingToDo, Zenon
    <2>6. /\ ~Busy(c, Purges) /\ \A p : ~Work(c, Writes, p) /\ ~Work(c, Drops, p)
          /\ \A d : ~WorkOn(c, {<<"dropDep">>}, d)
      <3>1. /\ Task(c).do \notin Purges /\ Task(c).do \notin Writes /\ Task(c).do \notin Drops
            /\ Task(c).do \notin {<<"dropDep">>}
        BY <1>a, <2>2
      <3>. QED
        BY <2>4, <3>1, Zenon
    <2>7. UNCHANGED <<deps, pods, up, file, failed, missing>>
      BY <1>5 DEF DropNamespace, host, history
    <2>8. \A p : Asked(c, p)' => Asked(c, p)
      BY <2>6, <2>7, NewAsked, Zenon
    <2>9. ListInv(c)' /\ todo'[Main] = todo[Main]
      BY <2>4, <2>5 DEF ListInv
    <2>. QED
      BY <2>5, <2>6, <2>7, <2>8, <2>9, DeployAnew
  <1>. QED
    BY <1>1, <1>2, <1>3, <1>4, <1>5

---------------------------------------------------------------------------
(* The steps of a client, and those of main. *)
LEMMA StepsOf ==
  ASSUME TodoType, NEW c \in Actors, c # Main, Main \in Actors
  PROVE  /\ Step(c) => \/ Write(c) \/ Sync(c) \/ CreateInstance(c) \/ Run(c)
                       \/ StopUnit(c) \/ Unlink(c) \/ DropPod(c)
                       \/ UpdateDeployment(c) \/ DropDeployment(c)
                       \/ PurgeDeployments(c) \/ RemoveReplicas(c) \/ Purge(c) \/ DropNamespace(c)
         /\ Step(Main) => \/ Sync(Main) \/ CreateInstance(Main) \/ Run(Main)
                          \/ BootDeps(Main) \/ RestoreReplicas(Main) \/ BootPods(Main)
                          \/ Regenerate(Main) \/ Rewrite(Main) \/ ImportIntoNamespace(Main)
                          \/ ImportDeployment(Main) \/ ImportPod(Main)
                          \/ PruneCandidates(Main) \/ CheckUnit(Main) \/ PrunePod(Main)
  <1>1. \A s \in {"regen", "rewrite", "ns", "dep", "pod", "known", "prune"} : ~Doing(c, s)
    <2>1. \A s \in {"regen", "rewrite", "ns", "dep", "pod", "known", "prune"} : s \in PodStages
      BY DEF PodStages
    <2>. QED
      BY <2>1, ClientHead, Zenon
  <1>2. ~Doing(c, "bootDeps") /\ ~Doing(c, "restore") /\ ~Doing(c, "bootPods") /\ ~Doing(c, "allPods")
    BY PlainStage, Zenon
  <1>3. \A s \in {"write", "restart", "stop", "unlink", "drop"} : ~Doing(Main, s)
    <2>1. \A s \in {"write", "restart", "stop", "unlink", "drop"} : s \in PodStages
      BY DEF PodStages
    <2>. QED
      BY <2>1, MainHead, Zenon
  <1>4. /\ ~Doing(Main, "update") /\ ~Doing(Main, "dropDep") /\ ~Doing(Main, "remove")
        /\ ~Doing(Main, "purgeDeps") /\ ~Doing(Main, "purge") /\ ~Doing(Main, "dropNs")
    BY PlainStage, Zenon
  <1>5. /\ ~BootDeps(c) /\ ~RestoreReplicas(c) /\ ~BootPods(c) /\ ~Regenerate(c) /\ ~Rewrite(c)
        /\ ~ImportIntoNamespace(c) /\ ~ImportDeployment(c) /\ ~ImportPod(c)
        /\ ~PruneCandidates(c) /\ ~CheckUnit(c) /\ ~PrunePod(c)
    BY <1>1, <1>2 DEF BootDeps, RestoreReplicas, BootPods, Regenerate, Rewrite, ImportIntoNamespace,
                      ImportDeployment, ImportPod, PruneCandidates, CheckUnit, PrunePod
  <1>6. /\ ~Write(Main) /\ ~StopUnit(Main) /\ ~Unlink(Main) /\ ~DropPod(Main)
        /\ ~UpdateDeployment(Main) /\ ~DropDeployment(Main) /\ ~PurgeDeployments(Main)
        /\ ~RemoveReplicas(Main) /\ ~Purge(Main) /\ ~DropNamespace(Main)
    BY <1>3, <1>4 DEF Write, StopUnit, Unlink, DropPod, UpdateDeployment, DropDeployment,
                      PurgeDeployments, RemoveReplicas, Purge, DropNamespace
  <1>. QED
    BY <1>5, <1>6, Zenon DEF Step

LEMMA OneClient ==
  ASSUME NEW c, Clients = {c}
  PROVE  c \in Actors /\ c # Main /\ Main \in Actors /\ Actors = {c, Main}
  BY NamesAssumption DEF Actors

LEMMA DeployNext ==
  ASSUME NEW c, Clients = {c}, TypeInv, DeployInv(c), [Next]_vars
  PROVE  DeployInv(c)'
  <1>1. c \in Actors /\ c # Main /\ Main \in Actors /\ Actors = {c, Main} /\ TodoType
    BY OneClient, TypeParts
  <1>2. ASSUME Request(c) PROVE DeployInv(c)'
    BY <1>1, <1>2, DeployPodRequests, DeployDepRequests, DeployNsRequests DEF Request
  <1>3. ASSUME Step(c) PROVE DeployInv(c)'
    BY <1>1, <1>3, StepsOf, DeployDeploySteps, DeployGoSteps, DeployUpdate, DeployPlainSteps, Zenon
  <1>4. ASSUME Step(Main) PROVE DeployInv(c)'
    BY <1>1, <1>4, StepsOf, DeployMainSteps, DeployRewrite, DeployImportDeployment, DeployBootSteps, Zenon
  <1>5. ASSUME NEW a \in Actors, Fails(a) PROVE DeployInv(c)'
    BY <1>1, <1>5, DeployFailSteps, Zenon
  <1>6. ASSUME ListOwned \/ Crash \/ Restart \/ UNCHANGED vars PROVE DeployInv(c)'
    BY <1>1, <1>6, DeployOtherSteps, Zenon
  <1>. QED
    BY <1>1, <1>2, <1>3, <1>4, <1>5, <1>6 DEF Next

LEMMA DeployInit ==
  ASSUME NEW c, Clients = {c}, Init
  PROVE  DeployInv(c)
  <1>1. c \in Actors /\ c # Main
    BY OneClient, Zenon
  <1>2. todo[c] = <<>> /\ (\A d \in Deps : deps[d] = Absent) /\ \A p \in Pods : pods[p] = Absent
    BY <1>1 DEF Init
  <1>3. DeployList(c) /\ \A dos, p : ~Work(c, dos, p)
    BY <1>2 DEF DeployList, Work
  <1>4. \A p : ~Asked(c, p)
    BY <1>2 DEF Asked, Desired
  <1>5. \A p \in Pods \ failed : PodDeployed(c, p)
    BY <1>2, <1>3, <1>4 DEF PodDeployed, ReplicaIsDeployed, StoredIsDeployed, Stored
  <1>. QED
    BY <1>3, <1>5, DeployParts DEF ListInv

(* Between requests, with startup over, nobody is left to write a file. *)
LEMMA NobodyHeals ==
  ASSUME ~Booting
  PROVE  \A p : ~HealsReplica(p) /\ ~HealsPod(p)
  <1>1. ASSUME NEW do \in Heals \cup {<<"bootDeps">>, <<"bootPods">>, <<"restore">>}
        PROVE  ToSet(do) \cap {"bootDeps", "restore", "bootPods", "regen", "rewrite"} # {}
    <2>1. /\ 2 \in DOMAIN <<"sync", "regen">> /\ <<"sync", "regen">>[2] = "regen"
          /\ 2 \in DOMAIN <<"create", "regen">> /\ <<"create", "regen">>[2] = "regen"
          /\ \A x : 1 \in DOMAIN <<x>> /\ <<x>>[1] = x
      OBVIOUS
    <2>2. \/ do = <<"sync", "regen">> \/ do = <<"create", "regen">> \/ do = <<"regen">>
          \/ do = <<"rewrite">> \/ do = <<"bootDeps">> \/ do = <<"bootPods">> \/ do = <<"restore">>
      BY DEF Heals
    <2>3. \E i \in DOMAIN do : do[i] \in {"bootDeps", "restore", "bootPods", "regen", "rewrite"}
      BY <2>1, <2>2
    <2>. QED
      BY <2>3 DEF ToSet
  <1>2. \A j \in DOMAIN todo[Main] :
          todo[Main][j].do \notin Heals \cup {<<"bootDeps">>, <<"bootPods">>, <<"restore">>}
    BY <1>1 DEF Booting, Pending
  <1>. QED
    BY <1>2 DEF HealsReplica, HealsPod, Busy, Work, Restored, Does

LEMMA DeployedAtRest ==
  ASSUME NEW c, Clients = {c}, TypeInv, DeployInv(c)
  PROVE  DesiredAreDeployed
  <1> SUFFICES ASSUME AtRest, NEW p \in Pods \ failed,
                      p \in AllDesired \ missing \/ (Stored(p) /\ pods[p].t # Stub)
               PROVE  file[p] # Absent
    BY DEF DesiredAreDeployed
  <1>1. up /\ ~Booting /\ todo[c] = <<>>
    BY DEF AtRest
  <1>2. /\ \A dos : ~Busy(c, dos)
        /\ \A dos, e : ~Work(c, dos, e) /\ ~WorkOn(c, dos, e)
    BY <1>1, NothingToDo, Zenon
  <1>3. ~HealsReplica(p) /\ ~HealsPod(p)
    BY <1>1, NobodyHeals, Zenon
  <1>4. PodDeployed(c, p)
    BY DeployParts
  <1>5. ~Work(c, Writes, p) /\ ~Work(c, Drops, p) /\ ~Busy(c, Purges)
    BY <1>2, Zenon
  <1>6. CASE p \in AllDesired \ missing
    <2>1. PICK d \in Deps : p \in Desired(d)
      BY <1>6 DEF AllDesired
    <2>2. Asked(c, p)
      BY <1>2, <2>1, AskedIs, Zenon
    <2>. QED
      BY <1>1, <1>3, <1>4, <1>5, <1>6, <2>2, DeployParts DEF PodDeployed
  <1>7. CASE Stored(p) /\ pods[p].t # Stub
    BY <1>1, <1>3, <1>4, <1>5, <1>7, DeployParts DEF PodDeployed
  <1>. QED
    BY <1>6, <1>7

(* What the store asks for is deployed.  Of a client's requests, however   *)
(* many follow each other, whichever q8s dies in and whatever startup and  *)
(* the passes over podman do meanwhile, none leaves a replica or a pod     *)
(* without its quadlet file, unless a failure was reported for it          *)
(* (deployPodFiles, scaleDeployment, ReconcileQuadlets).                   *)
THEOREM WorkloadsAreDeployed ==
  ASSUME NEW c, Clients = {c}
  PROVE  Spec => []DesiredAreDeployed
  <1>1. Init => TypeInv /\ DeployInv(c)
    BY TypeInit, DeployInit
  <1>2. TypeInv /\ DeployInv(c) /\ [Next]_vars => TypeInv' /\ DeployInv(c)'
    BY TypeNext, DeployNext
  <1>3. TypeInv /\ DeployInv(c) => DesiredAreDeployed
    BY DeployedAtRest
  <1>. QED
    BY <1>1, <1>2, <1>3, PTL DEF Spec

---------------------------------------------------------------------------
(* What runs is accounted for                                              *)

LaterAs(a, dos, p, t) ==
  \E j \in 2..Len(todo[a]) : Does(a, j, dos) /\ todo[a][j].pod = p /\ todo[a][j].t = t

LEMMA AsIs ==
  ASSUME TodoType, NEW a \in Actors, NEW s, Doing(a, s), NEW dos
  PROVE  \A p, t : WorkAs(a, dos, p, t) <=>
           (Task(a).do \in dos /\ Task(a).pod = p /\ Task(a).t = t) \/ LaterAs(a, dos, p, t)
  <1>1. /\ DOMAIN todo[a] = 1..Len(todo[a]) /\ Len(todo[a]) \in Nat \ {0}
        /\ Task(a) = todo[a][1]
    BY FirstTask
  <1>2. \A j : j \in DOMAIN todo[a] <=> j = 1 \/ j \in 2..Len(todo[a])
    BY <1>1
  <1>3. Does(a, 1, dos) <=> Task(a).do \in dos
    BY <1>1 DEF Does
  <1>. QED
    BY <1>1, <1>2, <1>3, Zenon DEF WorkAs, LaterAs

LEMMA AsGoesOn ==
  ASSUME TodoType, NEW a \in Actors, NEW s \in PodStages, Doing(a, s),
         NEW do \in DosOf(a) \cup {<<>>}, Continue(a, do, <<>>),
         NEW dos, <<>> \notin dos
  PROVE  \A p, t : WorkAs(a, dos, p, t)' <=>
           (do \in dos /\ Task(a).pod = p /\ Task(a).t = t) \/ LaterAs(a, dos, p, t)
  <1> DEFINE q == todo[a]
             r == todo'[a]
  <1>1. Len(q) \in Nat \ {0}
    BY FirstTask
  <1>2. /\ do # <<>> => /\ Len(r) = Len(q) /\ r[1].do = do /\ r[1].pod = Task(a).pod
                        /\ r[1].t = Task(a).t
                        /\ \A j \in 2..Len(q) : r[j] = q[j]
        /\ do = <<>> => Len(r) = Len(q) - 1 /\ \A j \in 1..(Len(q) - 1) : r[j] = q[j + 1]
        /\ DOMAIN r = 1..Len(r)
    BY ContinueAt, Zenon
  <1> HIDE DEF q, r
  <1>3. CASE do = <<>>
    <2>1. \A j \in 1..(Len(q) - 1) : j + 1 \in 2..Len(q) /\ r[j] = q[j + 1]
      BY <1>1, <1>2, <1>3
    <2>2. \A j \in 2..Len(q) : j - 1 \in 1..(Len(q) - 1) /\ r[j - 1] = q[j]
      <3> SUFFICES ASSUME NEW j \in 2..Len(q) PROVE j - 1 \in 1..(Len(q) - 1) /\ r[j - 1] = q[j]
        OBVIOUS
      <3>1. j - 1 \in 1..(Len(q) - 1) /\ (j - 1) + 1 = j
        BY <1>1
      <3>. QED
        BY <2>1, <3>1
    <2>3. DOMAIN r = 1..(Len(q) - 1)
      BY <1>2, <1>3
    <2>4. /\ \A j \in DOMAIN r : \E i \in 2..Len(q) : r[j] = q[i]
          /\ \A i \in 2..Len(q) : \E j \in DOMAIN r : r[j] = q[i]
      BY <2>1, <2>2, <2>3, Zenon
    <2>5. \A p, t : (\E j \in DOMAIN r : r[j].do \in dos /\ r[j].pod = p /\ r[j].t = t)
                   <=> \E j \in 2..Len(q) : q[j].do \in dos /\ q[j].pod = p /\ q[j].t = t
      <3> TAKE p, t
      <3>1. ASSUME NEW j \in DOMAIN r, r[j].do \in dos /\ r[j].pod = p /\ r[j].t = t
            PROVE  \E i \in 2..Len(q) : q[i].do \in dos /\ q[i].pod = p /\ q[i].t = t
        BY <2>4, <3>1
      <3>2. ASSUME NEW i \in 2..Len(q), q[i].do \in dos /\ q[i].pod = p /\ q[i].t = t
            PROVE  \E j \in DOMAIN r : r[j].do \in dos /\ r[j].pod = p /\ r[j].t = t
        BY <2>4, <3>2
      <3>. QED
        BY <3>1, <3>2, Zenon
    <2>. QED
      BY <1>3, <2>5, ZenonT(40) DEF WorkAs, LaterAs, Does, q, r
  <1>4. CASE do # <<>>
    <2>1. DOMAIN r = 1..Len(q)
      BY <1>2, <1>4, ZenonT(40)
    <2>2. \A j : j \in DOMAIN r <=> j = 1 \/ j \in 2..Len(q)
      BY <1>1, <2>1
    <2>3. r[1].do = do /\ r[1].pod = Task(a).pod /\ r[1].t = Task(a).t
          /\ \A j \in 2..Len(q) : r[j] = q[j]
      BY <1>2, <1>4
    <2>4. \A p, t : (\E j \in DOMAIN r : r[j].do \in dos /\ r[j].pod = p /\ r[j].t = t)
                   <=> (do \in dos /\ Task(a).pod = p /\ Task(a).t = t)
                       \/ \E j \in 2..Len(q) : q[j].do \in dos /\ q[j].pod = p /\ q[j].t = t
      BY <2>2, <2>3, Zenon
    <2>. QED
      BY <2>4, Zenon DEF WorkAs, LaterAs, Does, q, r
  <1>. QED
    BY <1>3, <1>4

(* What is deployed from which template, at the pod of the step and beside. *)
LEMMA AsView ==
  ASSUME TodoType, NEW a \in Actors, NEW s \in PodStages, Doing(a, s),
         NEW e \in DosOf(a) \cup {<<>>}, Continue(a, e, <<>>)
  PROVE  /\ \A p, t, dos : p # Task(a).pod /\ dos \subseteq AllDos =>
              (WorkAs(a, dos, p, t)' <=> WorkAs(a, dos, p, t))
         /\ \A p, t, dos : p = Task(a).pod /\ dos \subseteq AllDos =>
              /\ WorkAs(a, dos, p, t) <=> (Task(a).do \in dos /\ Task(a).t = t) \/ LaterAs(a, dos, p, t)
              /\ WorkAs(a, dos, p, t)' <=> (e \in dos /\ Task(a).t = t) \/ LaterAs(a, dos, p, t)
  <1>1. ASSUME NEW dos, dos \subseteq AllDos
        PROVE  /\ \A p, t : WorkAs(a, dos, p, t)' <=>
                    (e \in dos /\ Task(a).pod = p /\ Task(a).t = t) \/ LaterAs(a, dos, p, t)
               /\ \A p, t : WorkAs(a, dos, p, t) <=>
                    (Task(a).do \in dos /\ Task(a).pod = p /\ Task(a).t = t) \/ LaterAs(a, dos, p, t)
    <2>1. <<>> \notin dos
      BY <1>1, Kinds
    <2>. QED
      BY <2>1, AsGoesOn, AsIs, Zenon
  <1>. QED
    BY <1>1, Zenon

(* A pod that is being deployed has no other task. *)
LEMMA Alone ==
  ASSUME TodoType, NEW c \in Actors, DeployList(c), NEW s, Doing(c, s), NEW x, x = Task(c).pod
  PROVE  /\ \A dos : ~LaterWork(c, dos, x)
         /\ \A dos, t : ~LaterAs(c, dos, x, t)
  <1>1. /\ DOMAIN todo[c] = 1..Len(todo[c]) /\ Len(todo[c]) \in Nat \ {0} /\ Task(c) = todo[c][1]
    BY FirstTask
  <1>2. \A j \in 2..Len(todo[c]) : j \in DOMAIN todo[c] /\ 1 \in DOMAIN todo[c] /\ j # 1
    BY <1>1
  <1>3. \A j \in 2..Len(todo[c]) : todo[c][j].pod # x
    BY <1>1, <1>2 DEF DeployList
  <1>. QED
    BY <1>3, Zenon DEF LaterWork, LaterAs

PodAccounted(c, p) == Accounted(c, p) /\ Agrees(c, p) /\ Renewed(c, p)

MainImports ==
  \A j \in DOMAIN todo[Main] :
    /\ Does(Main, j, Imports \cup Prunes \cup {<<"allPods">>})
    /\ Does(Main, j, Prunes) => todo[Main][j].pod \in Instances
Owns == \A p \in Pods : Stored(p) /\ pods[p].owned => p \in Instances

LEMMA AccountParts ==
  ASSUME NEW c
  PROVE  /\ AccountInv(c) <=> /\ up /\ ListInv(c) /\ StopsFirst(c) /\ MainImports /\ Owns
                              /\ \A p \in Pods \ failed : PodAccounted(c, p)
         /\ AccountInv(c)' <=> /\ up' /\ ListInv(c)' /\ StopsFirst(c)' /\ MainImports' /\ Owns'
                               /\ \A p \in Pods \ failed' : PodAccounted(c, p)'
  BY Zenon DEF AccountInv, PodAccounted, MainImports, Owns

(* The same is left to do for a pod. *)
SameWork(c, p) ==
  /\ \A dos : dos \subseteq AllDos => (Work(c, dos, p)' <=> Work(c, dos, p))
  /\ \A dos, t : dos \subseteq AllDos => (WorkAs(c, dos, p, t)' <=> WorkAs(c, dos, p, t))
  /\ Busy(c, Purges)' <=> Busy(c, Purges)

LEMMA MoreFamilies ==
  /\ Deploys \subseteq AllDos /\ Fresh \subseteq AllDos /\ Starts \subseteq AllDos
  /\ Goes \subseteq AllDos /\ Created \subseteq AllDos
  BY DEF AllDos, Deploys, Fresh, Written, Writes, Syncs, Replaces

LEMMA SameIs ==
  ASSUME NEW c, NEW p, SameWork(c, p)
  PROVE  /\ Work(c, Stops, p)' <=> Work(c, Stops, p)
         /\ Work(c, Unlinks, p)' <=> Work(c, Unlinks, p)
         /\ Work(c, Drops, p)' <=> Work(c, Drops, p)
         /\ Work(c, Synced, p)' <=> Work(c, Synced, p)
         /\ Work(c, Starts \cup Restarts, p)' <=> Work(c, Starts \cup Restarts, p)
         /\ Work(c, Deploys, p)' <=> Work(c, Deploys, p)
         /\ Work(c, Fresh, p)' <=> Work(c, Fresh, p)
         /\ Work(c, Starts, p)' <=> Work(c, Starts, p)
         /\ \A t : WorkAs(c, Replaces, p, t)' <=> WorkAs(c, Replaces, p, t)
         /\ \A t : WorkAs(c, Written, p, t)' <=> WorkAs(c, Written, p, t)
         /\ Busy(c, Purges)' <=> Busy(c, Purges)
  BY FamiliesOfPods, MoreFamilies, Zenon DEF SameWork

(* What is said of a pod that is stored with the template u. *)
AccountOf(c, p, u) ==
  /\ unit[p] # Absent => Kept(c, p) \/ Work(c, Stops, p) \/ Removed(c, p)
  /\ file[p] # Absent => Kept(c, p) \/ Work(c, Unlinks, p) \/ Removed(c, p)
  /\ Stored(p) /\ p \notin revived => Kept(c, p) \/ Work(c, Drops, p) \/ Busy(c, Purges)
  /\ Stored(p) /\ u # Stub =>
       \/ file[p] = u \/ WorkAs(c, Replaces, p, u) \/ Work(c, Synced, p)
       \/ Work(c, Drops, p) \/ Busy(c, Purges)
  /\ file[p] # Absent =>
       unit[p] = file[p] \/ Work(c, Starts \cup Restarts, p) \/ Work(c, Unlinks, p)
  /\ Work(c, Deploys, p) => Kept(c, p)
  /\ Work(c, Fresh, p) => file[p] = Absent /\ unit[p] = Absent
  /\ Work(c, Starts, p) => unit[p] = Absent
  /\ \A t \in Specs : WorkAs(c, Written, p, t) => file[p] = t
  /\ \A t \in Specs : WorkAs(c, Replaces, p, t) /\ Stored(p) => u \in {t, Stub}

LEMMA NowIs ==
  ASSUME NEW c, NEW p, NEW u, Stored(p) => u = pods[p].t
  PROVE  PodAccounted(c, p) <=> AccountOf(c, p, u)
  BY Zenon DEF AccountOf, PodAccounted, Accounted, Agrees, Renewed

LEMMA NextIs ==
  ASSUME NEW c, NEW p, NEW u, Stored(p)' => u = pods'[p].t
  PROVE  PodAccounted(c, p)' <=> AccountOf(c, p, u)'
  BY Zenon DEF AccountOf, PodAccounted, Accounted, Agrees, Renewed

LEMMA AccountFrame ==
  ASSUME NEW c, NEW p, PodAccounted(c, p), SameWork(c, p),
         pods'[p] = pods[p], file'[p] = file[p], unit'[p] = unit[p],
         p \in revived => p \in revived',
         Kept(c, p) => Kept(c, p)', Removed(c, p) => Removed(c, p)'
  PROVE  PodAccounted(c, p)'
  <1>1. PICK u : u = pods[p].t
    OBVIOUS
  <1>2. (Stored(p)' <=> Stored(p)) /\ u = pods'[p].t
    BY <1>1 DEF Stored
  <1>3. AccountOf(c, p, u)
    BY <1>1, NowIs, Zenon
  <1>4. AccountOf(c, p, u)'
    BY <1>2, <1>3, SameIs DEF AccountOf
  <1>. QED
    BY <1>2, <1>4, NextIs, Zenon

(* A pod that stays does so as long as it is stored, asked for and not     *)
(* dropped.                                                                *)
LEMMA KeptFrame ==
  ASSUME NEW c, NEW p, SameWork(c, p), Stored(p) => Stored(p)', Asked(c, p) => Asked(c, p)'
  PROVE  Kept(c, p) => Kept(c, p)'
  BY SameIs, Zenon DEF Kept

LEMMA SameOthers ==
  ASSUME TodoType, NEW c \in Actors, NEW a \in Actors, NEW s \in PodStages, Doing(a, s),
         NEW e \in DosOf(a) \cup {<<>>}, Continue(a, e, <<>>),
         NEW p, p # Task(a).pod \/ a # c
  PROVE  SameWork(c, p)
  <1>1. CASE a # c
    <2>1. todo'[c] = todo[c]
      BY <1>1, PodStepView
    <2>. QED
      BY <2>1, Zenon DEF SameWork, Work, WorkAs, Busy, Does
  <1>2. CASE a = c /\ p # Task(a).pod
    <2>1. Busy(c, Purges)' <=> Busy(c, Purges)
      BY <1>2, PodStepView, FamiliesOfPods, Zenon
    <2>2. ASSUME NEW dos, dos \subseteq AllDos
          PROVE  /\ Work(c, dos, p)' <=> Work(c, dos, p)
                 /\ \A t : WorkAs(c, dos, p, t)' <=> WorkAs(c, dos, p, t)
      BY <1>2, <2>2, PodStepView, AsView, Zenon
    <2>. QED
      BY <2>1, <2>2, Zenon DEF SameWork
  <1>. QED
    BY <1>1, <1>2

(* What a request is about to take away with its Deployment. *)
LEMMA RemovedStays ==
  ASSUME TodoType, NEW c \in Actors, NEW a \in Actors, NEW s \in PodStages, Doing(a, s),
         NEW e \in DosOf(a) \cup {<<>>}, Continue(a, e, <<>>),
         \A d \in Deps : Desired(d) \subseteq Desired(d)'
  PROVE  \A p : Removed(c, p) => Removed(c, p)'
  <1>1. Busy(c, PurgeAll)' <=> Busy(c, PurgeAll)
    <2>1. CASE a = c
      BY <2>1, PodStepView, FamiliesOfPods, Zenon
    <2>2. CASE a # c
      <3>1. todo'[c] = todo[c]
        BY <2>2, PodStepView
      <3>. QED
        BY <3>1, Zenon DEF Busy, Does
    <2>. QED
      BY <2>1, <2>2
  <1>2. \A j \in DOMAIN todo[c] : todo[c][j].do = <<"remove">> =>
          \E k \in DOMAIN todo'[c] : todo'[c][k] = todo[c][j]
    <2>1. CASE a = c
      <3>1. <<"remove">> \in PlainDos
        BY DEF PlainDos
      <3>. QED
        BY <2>1, <3>1, PodStepView
    <2>2. CASE a # c
      BY <2>2, PodStepView
    <2>. QED
      BY <2>1, <2>2
  <1>3. ASSUME NEW p, NEW d \in Deps, p \in Desired(d), Busy(c, PurgeAll) PROVE Removed(c, p)'
    BY <1>1, <1>3, Zenon DEF Removed
  <1>4. ASSUME NEW p, NEW j \in DOMAIN todo[c], todo[c][j].do = <<"remove">>,
               NEW i \in 0..(todo[c][j].n - 1), p = Inst[todo[c][j].dep][i]
        PROVE  Removed(c, p)'
    <2>1. PICK k \in DOMAIN todo'[c] : todo'[c][k] = todo[c][j]
      BY <1>2, <1>4
    <2>2. /\ todo'[c][k].do = <<"remove">>
          /\ i \in 0..(todo'[c][k].n - 1) /\ p = Inst[todo'[c][k].dep][i]
      BY <1>4, <2>1
    <2>. QED
      BY <2>2 DEF Removed, Does
  <1>. QED
    BY <1>3, <1>4, ZenonT(40) DEF Removed, Does

(* Nothing that is deployed is stopped. *)
LEMMA NoStops ==
  ASSUME NEW c, \A j \in DOMAIN todo'[c] : todo'[c][j].do \in Deploys \cup {<<"update">>} \cup Finals
  PROVE  StopsFirst(c)'
  <1>1. \A do \in Deploys \cup {<<"update">>} \cup Finals :
          do \notin Stops /\ do \notin Unlinks /\ do \notin {<<"remove">>}
    <2>1. \A do \in Deploys : do \notin Goes /\ do \notin {<<"remove">>}
      BY Kinds DEF AllDos
    <2>2. <<"update">> \notin AllDos /\ <<"update">> # <<"remove">>
      BY Kinds
    <2>3. \A do \in Finals : do \notin AllDos /\ do # <<"remove">>
      BY FinalDos
    <2>. QED
      BY <2>1, <2>2, <2>3 DEF AllDos, Goes
  <1>. QED
    BY <1>1, Zenon DEF StopsFirst, Work, Does

(* A step on one pod leaves the order in which pods go. *)
LEMMA StopsGoOn ==
  ASSUME TodoType, NEW c \in Actors, c # Main, ListInv(c), StopsFirst(c),
         NEW s \in PodStages, Doing(c, s),
         NEW e \in DosOf(c) \cup {<<>>}, Continue(c, e, <<>>), StepsTo(Task(c).do, e)
  PROVE  StopsFirst(c)'
  <1> DEFINE q == todo[c]
             r == todo'[c]
             x == Task(c)
  <1>1. /\ q # <<>> /\ Len(q) \in Nat \ {0} /\ DOMAIN q = 1..Len(q) /\ x = q[1]
        /\ x.do \in Deploys \cup Goes
    BY FirstTask, PodStage DEF DosOf, PodTasks
  <1>2. PICK h \in [DOMAIN r -> DOMAIN q] :
           /\ \A i, j \in DOMAIN r : i < j => h[i] < h[j]
           /\ \A j \in DOMAIN r : h[j] = Len(q) => j = Len(r)
           /\ \A j \in DOMAIN r :
                \/ r[j] = q[h[j]]
                \/ /\ h[j] = 1 /\ r[j].do = e /\ r[j].pod = x.pod /\ r[j].t = x.t
    BY Origins
  <1>3. \A i, j \in DOMAIN q : i < j =>
          /\ q[i].do \in Unlinks /\ q[j].do \in Stops => q[i].pod # q[j].pod
          /\ q[i].do = <<"remove">> => q[j].do \notin Goes
    BY DEF StopsFirst, Does
  <1>4. /\ e \in Unlinks => x.do \in Unlinks
        /\ e \notin Stops /\ e # <<"remove">>
    <2>1. <<"remove">> \notin AllDos /\ <<"remove">> # <<>>
      BY Kinds
    <2>. QED
      BY <2>1 DEF StepsTo, DosOf, AllDos
  <1> HIDE DEF q, r, x
  <1>5. ASSUME NEW i \in DOMAIN r, NEW j \in DOMAIN r, i < j
        PROVE  /\ r[i].do \in Unlinks /\ r[j].do \in Stops => r[i].pod # r[j].pod
               /\ r[i].do \in {<<"remove">>} => r[j].do \notin Goes
    <2>1. h[i] \in DOMAIN q /\ h[j] \in DOMAIN q /\ h[i] < h[j]
      BY <1>2, <1>5
    <2>2. h[j] # 1
      BY <1>1, <2>1
    <2>3. r[j] = q[h[j]]
      BY <1>2, <2>2
    <2>4. r[i].pod = q[h[i]].pod /\ (r[i].do \in Unlinks => q[h[i]].do \in Unlinks)
          /\ (r[i].do = <<"remove">> => q[h[i]].do = <<"remove">>)
      BY <1>1, <1>2, <1>4
    <2>. QED
      BY <1>3, <2>1, <2>3, <2>4
  <1>6. ASSUME NEW p \in Pods, Work(c, Stops, p)' PROVE Work(c, Unlinks, p)'
    <2>1. LaterWork(c, Stops, p)
      <3>1. <<>> \notin Stops
        BY Kinds, FamiliesOfPods
      <3>. QED
        BY <1>4, <1>6, <3>1, WorkGoesOn
    <2>2. Work(c, Unlinks, p)
      <3>1. Work(c, Stops, p)
        BY <2>1, WorkIs
      <3>. QED
        BY <3>1 DEF StopsFirst
    <2>3. LaterWork(c, Unlinks, p)
      <3>1. CASE x.do \in Unlinks /\ x.pod = p
        <4>1. PICK j \in 2..Len(q) : q[j].do \in Stops /\ q[j].pod = p
          BY <2>1 DEF LaterWork, Does, q
        <4>2. 1 \in DOMAIN q /\ j \in DOMAIN q /\ 1 < j
          BY <1>1
        <4>. QED
          BY <1>1, <1>3, <3>1, <4>1, <4>2
      <3>. QED
        BY <2>2, <3>1, WorkIs DEF x
    <2>4. <<>> \notin Unlinks
      BY Kinds, FamiliesOfPods
    <2>. QED
      BY <2>3, <2>4, WorkGoesOn
  <1>. QED
    BY <1>5, <1>6, Zenon DEF StopsFirst, Does, r

LEMMA OtherAccounted ==
  ASSUME TodoType, NEW c \in Actors, c # Main, Actors = {c, Main}, NEW a \in Actors,
         NEW s \in PodStages, Doing(a, s),
         NEW e \in DosOf(a) \cup {<<>>}, Continue(a, e, <<>>), deps' = deps,
         NEW p, p # Task(a).pod, PodAccounted(c, p),
         pods'[p] = pods[p], file'[p] = file[p], unit'[p] = unit[p], p \in revived => p \in revived'
  PROVE  PodAccounted(c, p)'
  <1>1. SameWork(c, p)
    BY SameOthers, Zenon
  <1>2. Asked(c, p)' <=> Asked(c, p)
    BY PodStepFrame, Zenon
  <1>3. Kept(c, p) => Kept(c, p)'
    <2>1. Stored(p) => Stored(p)'
      BY DEF Stored
    <2>. QED
      BY <1>1, <1>2, <2>1, KeptFrame, Zenon
  <1>4. Removed(c, p) => Removed(c, p)'
    <2>1. \A d \in Deps : Desired(d) \subseteq Desired(d)'
      BY DEF Desired
    <2>. QED
      BY <2>1, RemovedStays, Zenon
  <1>. QED
    BY <1>1, <1>3, <1>4, AccountFrame, Zenon

LEMMA OwnsStays ==
  ASSUME Owns, NEW x,
         \A p \in Pods : p # x => pods'[p] = pods[p],
         Stored(x)' /\ pods'[x].owned => x \in Instances
  PROVE  Owns'
  <1> SUFFICES ASSUME NEW p \in Pods, Stored(p)' /\ pods'[p].owned PROVE p \in Instances
    BY Zenon DEF Owns
  <1>1. CASE p = x
    BY <1>1
  <1>2. CASE p # x
    <2>1. pods'[p] = pods[p]
      BY <1>2
    <2>. QED
      BY <2>1 DEF Owns, Stored
  <1>. QED
    BY <1>1, <1>2

LEMMA StopsFrame ==
  ASSUME NEW c, StopsFirst(c), todo'[c] = todo[c]
  PROVE  StopsFirst(c)'
  <1>1. \A dos : (\A j : Does(c, j, dos)' <=> Does(c, j, dos))
                 /\ \A p : Work(c, dos, p)' <=> Work(c, dos, p)
    BY Zenon DEF Work, Does
  <1>2. \A p \in Pods : Work(c, Stops, p)' => Work(c, Unlinks, p)'
    BY <1>1, Zenon DEF StopsFirst
  <1>3. \A i, j \in DOMAIN todo'[c] : i < j =>
          /\ Does(c, i, Unlinks)' /\ Does(c, j, Stops)' => todo'[c][i].pod # todo'[c][j].pod
          /\ Does(c, i, {<<"remove">>})' => ~Does(c, j, Goes)'
    BY <1>1 DEF StopsFirst
  <1>. QED
    BY <1>2, <1>3, Zenon DEF StopsFirst

LEMMA AccountByClient ==
  ASSUME TypeInv, NEW c \in Actors, c # Main, Actors = {c, Main}, AccountInv(c),
         NEW s \in PodStages, Doing(c, s), NEW e \in DosOf(c) \cup {<<>>}, Continue(c, e, <<>>),
         StepsTo(Task(c).do, e), deps' = deps, up' = up, failed \subseteq failed',
         NEW x \in Pods, x = Task(c).pod,
         \A p \in Pods : p # x => /\ pods'[p] = pods[p] /\ file'[p] = file[p] /\ unit'[p] = unit[p]
                                  /\ p \in revived => p \in revived',
         Stored(x)' /\ pods'[x].owned => x \in Instances,
         x \notin failed' => PodAccounted(c, x)'
  PROVE  AccountInv(c)'
  <1>1. TodoType /\ up' /\ ListInv(c) /\ StopsFirst(c) /\ MainImports /\ Owns
    BY TypeParts, AccountParts
  <1>2. ListInv(c)' /\ StopsFirst(c)'
    BY <1>1, ListGoesOn, StopsGoOn
  <1>3. MainImports'
    <2>1. todo'[Main] = todo[Main]
      BY <1>1, PodStepView
    <2>. QED
      BY <1>1, <2>1, Zenon DEF MainImports, Does
  <1>4. Owns'
    BY <1>1, OwnsStays, Zenon
  <1>5. ASSUME NEW p \in Pods \ failed' PROVE PodAccounted(c, p)'
    <2>1. CASE p = x
      BY <1>5, <2>1
    <2>2. CASE p # x
      <3>1. PodAccounted(c, p)
        BY <1>5, AccountParts
      <3>. QED
        BY <1>1, <2>2, <3>1, OtherAccounted, Zenon
    <2>. QED
      BY <2>1, <2>2
  <1>. QED
    BY <1>1, <1>2, <1>3, <1>4, <1>5, AccountParts, Zenon

(* Main goes on importing and pruning. *)
LEMMA MainImportsStay ==
  ASSUME TodoType, Main \in Actors, MainImports,
         NEW s \in PodStages, Doing(Main, s), NEW e \in DosOf(Main) \cup {<<>>}, Continue(Main, e, <<>>),
         e \in Imports \cup Prunes \cup {<<>>}, e \in Prunes => Task(Main).do \in Prunes,
         NEW x, x = Task(Main).pod
  PROVE  MainImports'
  <1> DEFINE r == todo'[Main]
             q == todo[Main]
  <1>1. PICK h \in [DOMAIN r -> DOMAIN q] :
           \A j \in DOMAIN r :
                \/ r[j] = q[h[j]]
                \/ h[j] = 1 /\ r[j].do = e /\ r[j].pod = x
    BY Origins
  <1>2. DOMAIN q = 1..Len(q) /\ Len(q) \in Nat \ {0} /\ Task(Main) = q[1] /\ 1 \in DOMAIN q
    BY FirstTask
  <1>3. \A j \in DOMAIN q :
          /\ q[j].do \in Imports \cup Prunes \cup {<<"allPods">>}
          /\ q[j].do \in Prunes => q[j].pod \in Instances
    BY DEF MainImports, Does
  <1>4. \A j \in DOMAIN r : r[j].do # <<>>
    <2>1. TodoType'
      BY ContinueType
    <2>2. \A j \in DOMAIN r : r[j] \in TasksOf(Main)
      BY <2>1 DEF TodoType
    <2>. QED
      BY <2>2, DosAreStages
  <1> HIDE DEF r, q
  <1>5. ASSUME NEW j \in DOMAIN r
        PROVE  /\ r[j].do \in Imports \cup Prunes \cup {<<"allPods">>}
               /\ r[j].do \in Prunes => r[j].pod \in Instances
    <2>1. CASE r[j] = q[h[j]]
      BY <1>1, <1>3, <2>1
    <2>2. CASE r[j].do = e /\ r[j].pod = x
      BY <1>2, <1>3, <1>4, <2>2
    <2>. QED
      BY <1>1, <2>1, <2>2
  <1>. QED
    BY <1>5 DEF MainImports, Does, r

LEMMA AccountByMain ==
  ASSUME TypeInv, NEW c \in Actors, c # Main, Actors = {c, Main}, AccountInv(c),
         NEW s \in PodStages, Doing(Main, s), NEW e \in DosOf(Main) \cup {<<>>}, Continue(Main, e, <<>>),
         e \in Imports \cup Prunes \cup {<<>>}, e \in Prunes => Task(Main).do \in Prunes,
         deps' = deps, up' = up, failed \subseteq failed',
         NEW x \in Pods, x = Task(Main).pod,
         \A p \in Pods : p # x => /\ pods'[p] = pods[p] /\ file'[p] = file[p] /\ unit'[p] = unit[p]
                                  /\ p \in revived => p \in revived',
         Stored(x)' /\ pods'[x].owned => x \in Instances,
         x \notin failed' => PodAccounted(c, x)'
  PROVE  AccountInv(c)'
  <1>1. /\ TodoType /\ up' /\ ListInv(c) /\ StopsFirst(c) /\ MainImports /\ Owns /\ Main \in Actors
    BY TypeParts, AccountParts DEF Actors
  <1>2. todo'[c] = todo[c]
    BY <1>1, PodStepView
  <1>3. ListInv(c)' /\ StopsFirst(c)'
    <2>1. ListInv(c)'
      BY <1>1, <1>2, ListFrame, Zenon
    <2>. QED
      BY <1>1, <1>2, <2>1, StopsFrame, Zenon
  <1>4. MainImports'
    BY <1>1, MainImportsStay, Zenon
  <1>5. Owns'
    BY <1>1, OwnsStays, Zenon
  <1>6. ASSUME NEW p \in Pods \ failed' PROVE PodAccounted(c, p)'
    <2>1. CASE p = x
      BY <1>6, <2>1
    <2>2. CASE p # x
      <3>1. PodAccounted(c, p)
        BY <1>6, AccountParts
      <3>. QED
        BY <1>1, <2>2, <3>1, OtherAccounted, Zenon
    <2>. QED
      BY <2>1, <2>2
  <1>. QED
    BY <1>1, <1>3, <1>4, <1>5, <1>6, AccountParts, Zenon

(* All that is left to do for the pod that is being deployed. *)
TheTask(c, x, do, e, t) ==
  \A dos : dos \subseteq AllDos =>
    /\ Work(c, dos, x) <=> do \in dos
    /\ Work(c, dos, x)' <=> e \in dos
    /\ \A w : WorkAs(c, dos, x, w) <=> (do \in dos /\ w = t)
    /\ \A w : WorkAs(c, dos, x, w)' <=> (e \in dos /\ w = t)

LEMMA Deploying ==
  ASSUME TodoType, NEW c \in Actors, c # Main, DeployList(c),
         NEW s \in PodStages, Doing(c, s),
         NEW e \in DosOf(c) \cup {<<>>}, Continue(c, e, <<>>),
         NEW x, x = Task(c).pod, NEW t, t = Task(c).t, NEW do, do = Task(c).do
  PROVE  /\ TheTask(c, x, do, e, t)
         /\ ~Busy(c, Purges) /\ ~Removed(c, x) /\ do \in Deploys
  <1>1. /\ \A dos : ~LaterWork(c, dos, x)
        /\ \A dos, w : ~LaterAs(c, dos, x, w)
    BY Alone, Zenon
  <1>2. ASSUME NEW dos, dos \subseteq AllDos
        PROVE  /\ Work(c, dos, x) <=> do \in dos
               /\ Work(c, dos, x)' <=> e \in dos
    BY <1>1, <1>2, PodStepView, Zenon
  <1>3. ASSUME NEW dos, dos \subseteq AllDos, NEW w
        PROVE  /\ WorkAs(c, dos, x, w) <=> (do \in dos /\ w = t)
               /\ WorkAs(c, dos, x, w)' <=> (e \in dos /\ w = t)
    <2>1. /\ WorkAs(c, dos, x, w) <=> (Task(c).do \in dos /\ Task(c).t = w) \/ LaterAs(c, dos, x, w)
          /\ WorkAs(c, dos, x, w)' <=> (e \in dos /\ Task(c).t = w) \/ LaterAs(c, dos, x, w)
      BY <1>3, AsView, Zenon
    <2>. QED
      BY <1>1, <2>1
  <1>4. ~Busy(c, Purges) /\ ~Busy(c, PurgeAll) /\ ~Busy(c, {<<"remove">>})
    BY OneKind, FamiliesOfPods, Zenon
  <1>5. ~Removed(c, x)
    BY <1>4, Zenon DEF Removed, Busy
  <1>6. do \in Deploys
    <2>1. 1 \in DOMAIN todo[c] /\ Task(c) = todo[c][1]
      BY FirstTask
    <2>. QED
      BY <2>1 DEF DeployList, Does
  <1>7. ASSUME NEW dos, dos \subseteq AllDos
        PROVE  /\ Work(c, dos, x) <=> do \in dos
               /\ Work(c, dos, x)' <=> e \in dos
               /\ \A w : WorkAs(c, dos, x, w) <=> (do \in dos /\ w = t)
               /\ \A w : WorkAs(c, dos, x, w)' <=> (e \in dos /\ w = t)
    <2>1. \A w : WorkAs(c, dos, x, w) <=> (do \in dos /\ w = t)
      BY <1>3, <1>7
    <2>2. \A w : WorkAs(c, dos, x, w)' <=> (e \in dos /\ w = t)
      BY <1>3, <1>7
    <2>. QED
      BY <1>2, <1>7, <2>1, <2>2
  <1>. QED
    BY <1>7, <1>4, <1>5, <1>6, Zenon DEF TheTask

(* A pod that is being deployed, before a step and after it. *)
Before(c, x, do, t, u) ==
  /\ Kept(c, x)
  /\ Stored(x) /\ u # Stub => file[x] = u \/ (do \in Replaces /\ u = t) \/ do \in Synced
  /\ file[x] # Absent => unit[x] = file[x] \/ do \in Starts \cup Restarts
  /\ do \in Fresh => file[x] = Absent /\ unit[x] = Absent
  /\ do \in Starts => unit[x] = Absent
  /\ do \in Written => file[x] = t
  /\ do \in Replaces /\ Stored(x) => u \in {t, Stub}
After(x, e, t, v) ==
  /\ Stored(x) => Stored(x)'
  /\ Stored(x)' => v = pods'[x].t
  /\ Stored(x)' /\ v # Stub => file'[x] = v \/ e \in Synced
  /\ file'[x] # Absent => unit'[x] = file'[x] \/ e \in Starts \cup Restarts
  /\ e \in Starts => unit'[x] = Absent
  /\ e \in Written => file'[x] = t

(* What is known of it before the step ... *)
LEMMA DeployingNow ==
  ASSUME TodoType, NEW c \in Actors, c # Main, DeployList(c),
         NEW s \in PodStages, Doing(c, s),
         NEW e \in DosOf(c) \cup {<<>>}, Continue(c, e, <<>>),
         NEW x, x = Task(c).pod, NEW t \in Specs, t = Task(c).t, NEW do, do = Task(c).do,
         PodAccounted(c, x), NEW u, Stored(x) => u = pods[x].t
  PROVE  Before(c, x, do, t, u)
  <1>1. /\ TheTask(c, x, do, e, t)
        /\ ~Busy(c, Purges) /\ ~Removed(c, x) /\ do \in Deploys
    BY Deploying, Zenon
  <1>2. /\ ~Work(c, Drops, x) /\ ~Work(c, Unlinks, x)
        /\ Work(c, Synced, x) <=> do \in Synced
        /\ Work(c, Starts \cup Restarts, x) <=> do \in Starts \cup Restarts
        /\ Work(c, Deploys, x) <=> do \in Deploys
        /\ Work(c, Fresh, x) <=> do \in Fresh
        /\ Work(c, Starts, x) <=> do \in Starts
        /\ \A w : WorkAs(c, Written, x, w) <=> do \in Written /\ w = t
        /\ \A w : WorkAs(c, Replaces, x, w) <=> do \in Replaces /\ w = t
    <2>1. do \notin Drops /\ do \notin Unlinks
      BY <1>1, Kinds DEF Goes
    <2>. QED
      BY <1>1, <2>1, FamiliesOfPods, MoreFamilies, Zenon DEF TheTask
  <1>3. AccountOf(c, x, u)
    BY NowIs, Zenon
  <1>. QED
    BY <1>1, <1>2, <1>3 DEF Before, AccountOf

(* ... and what is left to show after. *)
LEMMA DeployingNext ==
  ASSUME TodoType, NEW c \in Actors, c # Main, Actors = {c, Main}, DeployList(c),
         NEW s \in PodStages, Doing(c, s),
         NEW e \in DosOf(c) \cup {<<>>}, Continue(c, e, <<>>), StepsTo(Task(c).do, e),
         NEW x, x = Task(c).pod, NEW t \in Specs, t = Task(c).t, NEW do, do = Task(c).do,
         deps' = deps, Kept(c, x), NEW v, After(x, e, t, v)
  PROVE  PodAccounted(c, x)'
  <1>1. /\ TheTask(c, x, do, e, t)
        /\ ~Busy(c, Purges) /\ ~Removed(c, x) /\ do \in Deploys
    BY Deploying, Zenon
  <1>2. e \notin Fresh /\ e \notin Replaces /\ e \in Deploys \cup {<<>>}
    BY <1>1 DEF StepsTo, Writes
  <1>3. e \notin Goes /\ <<>> \notin Goes
    BY <1>2, Kinds DEF AllDos
  <1>4. /\ ~Work(c, Drops, x)'
        /\ Work(c, Synced, x)' <=> e \in Synced
        /\ Work(c, Starts \cup Restarts, x)' <=> e \in Starts \cup Restarts
        /\ ~Work(c, Fresh, x)'
        /\ Work(c, Starts, x)' <=> e \in Starts
        /\ \A w : WorkAs(c, Written, x, w)' <=> e \in Written /\ w = t
        /\ \A w : ~WorkAs(c, Replaces, x, w)'
    <2>1. e \notin Drops
      BY <1>3 DEF Goes
    <2>. QED
      BY <1>1, <1>2, <2>1, FamiliesOfPods, MoreFamilies, Zenon DEF TheTask
  <1>5. Kept(c, x)'
    <2>1. Asked(c, x)' <=> Asked(c, x)
      BY PodStepFrame, Zenon
    <2>2. ~Busy(c, Purges)'
      BY <1>1, PodStepFrame, Zenon
    <2>. QED
      BY <1>4, <2>1, <2>2, Zenon DEF Kept, After
  <1>6. AccountOf(c, x, v)'
    BY <1>4, <1>5 DEF After, AccountOf
  <1>7. Stored(x)' => v = pods'[x].t
    BY DEF After
  <1>. QED
    BY <1>6, <1>7, NextIs, Zenon

(* The stages of a pod that is deployed, told apart. *)
LEMMA DeployDos ==
  /\ <<"start">> \in Starts /\ <<"restart">> \in Restarts
  /\ <<"sync", "start">> \in Synced \cap Starts /\ <<"create", "start">> \in Created \cap Starts
  /\ <<"sync", "restart">> \in Synced \cap Restarts /\ <<"create", "restart">> \in Created \cap Restarts
  /\ <<"sync">> \in Synced /\ <<"create">> \in Created
  /\ \A do \in {<<"restart">>, <<"sync", "restart">>, <<"create", "restart">>, <<"sync">>, <<"create">>, <<>>} :
       do \notin Starts
  /\ \A do \in {<<"sync">>, <<"create">>, <<>>} : do \notin Restarts
  /\ \A do \in Created \cup {<<"start">>, <<"restart">>} : do \notin Synced
  /\ \A do \in Writes : do \notin Starts \cup Restarts /\ do \notin Synced
  /\ \A do \in Written : do \notin Replaces
  /\ <<"write", "sync", "start">> \in Fresh /\ <<"write", "start">> \in Fresh \cap Replaces
  /\ <<"write", "restart">> \in Replaces
  <1>1. \A do \in Writes : do \notin Starts \cup Restarts /\ do \notin Synced
    BY Kinds DEF Written
  <1>2. \A do \in Written : do \notin Replaces
    BY Kinds DEF Writes
  <1>3. /\ <<"start">> \in Starts /\ <<"restart">> \in Restarts
        /\ <<"sync", "start">> \in Synced \cap Starts /\ <<"create", "start">> \in Created \cap Starts
        /\ <<"sync", "restart">> \in Synced \cap Restarts /\ <<"create", "restart">> \in Created \cap Restarts
        /\ <<"sync">> \in Synced /\ <<"create">> \in Created
        /\ <<"write", "sync", "start">> \in Fresh /\ <<"write", "start">> \in Fresh \cap Replaces
        /\ <<"write", "restart">> \in Replaces
    BY DEF Starts, Restarts, Synced, Created, Fresh, Replaces
  <1>4. \A do \in {<<"restart">>, <<"sync", "restart">>, <<"create", "restart">>, <<"sync">>, <<"create">>, <<>>} :
          do \notin Starts
    BY DEF Starts
  <1>5. \A do \in {<<"sync">>, <<"create">>, <<>>} : do \notin Restarts
    BY DEF Restarts
  <1>6. \A do \in Created \cup {<<"start">>, <<"restart">>} : do \notin Synced
    BY DEF Synced, Created
  <1>. QED
    BY <1>1, <1>2, <1>3, <1>4, <1>5, <1>6

LEMMA WriteTable ==
  ASSUME NEW do \in Writes, NEW ch \in BOOLEAN, NEW e, e = AfterWrite(do, ch)
  PROVE  /\ do \notin Synced /\ do \notin Starts \cup Restarts
         /\ e \in Synced \/ do \in Replaces
         /\ e \in Starts \cup Restarts \/ ch = FALSE
         /\ e \in Starts => do \in Fresh
  <1>1. do \in {<<"write", "sync", "start">>, <<"write", "start">>, <<"write", "sync", "restart">>, <<"write", "restart">>}
    BY DEF Writes, Syncs, Replaces
  <1>2. do \notin Synced /\ do \notin Starts \cup Restarts
    BY DeployDos
  <1>3. CASE do = <<"write", "sync", "start">>
    BY <1>2, <1>3, AfterWrites, DeployDos
  <1>4. CASE do = <<"write", "start">>
    BY <1>2, <1>4, AfterWrites, DeployDos
  <1>5. CASE do = <<"write", "sync", "restart">>
    <2>1. e = <<"sync", "restart">> \/ (e = <<"sync">> /\ ch = FALSE)
      BY <1>5, AfterWrites
    <2>. QED
      BY <1>2, <2>1, DeployDos
  <1>6. CASE do = <<"write", "restart">>
    <2>1. e = <<"restart">> \/ (e = <<>> /\ ch = FALSE)
      BY <1>6, AfterWrites
    <2>. QED
      BY <1>2, <1>6, <2>1, DeployDos
  <1>. QED
    BY <1>1, <1>3, <1>4, <1>5, <1>6

LEMMA SyncTable ==
  ASSUME NEW do \in Synced \cup Created, NEW e,
         e = Tail(do) \/ (do \in Synced /\ e = <<"create">> \o Tail(do))
  PROVE  /\ do \in Starts \cup Restarts => e \in Starts \cup Restarts
         /\ e \in Starts => do \in Starts
         /\ do \notin Replaces
  <1>1. do \notin Replaces
    BY DeployDos DEF Written
  <1>2. /\ \A x : Tail(<<x>>) = <<>>
        /\ \A x, y : Tail(<<x, y>>) = <<y>>
    BY ShortTails, Zenon
  <1>3. /\ <<"create">> \o <<"start">> = <<"create", "start">>
        /\ <<"create">> \o <<"restart">> = <<"create", "restart">>
        /\ <<"create">> \o <<>> = <<"create">>
    BY SecondStage, Zenon
  <1>4. do \in {<<"sync", "start">>, <<"sync", "restart">>, <<"sync">>,
                <<"create", "start">>, <<"create", "restart">>, <<"create">>}
    BY DEF Synced, Created
  <1>5. CASE do \in {<<"sync", "start">>, <<"create", "start">>}
    <2>1. e = <<"start">> \/ e = <<"create", "start">>
      BY <1>2, <1>3, <1>5, Zenon
    <2>. QED
      BY <1>1, <1>5, <2>1, DeployDos
  <1>6. CASE do \in {<<"sync", "restart">>, <<"create", "restart">>}
    <2>1. e = <<"restart">> \/ e = <<"create", "restart">>
      BY <1>2, <1>3, <1>6, Zenon
    <2>. QED
      BY <1>1, <1>6, <2>1, DeployDos
  <1>7. CASE do \in {<<"sync">>, <<"create">>}
    <2>1. e = <<>> \/ e = <<"create">>
      BY <1>2, <1>3, <1>7, Zenon
    <2>. QED
      BY <1>1, <1>7, <2>1, DeployDos
  <1>. QED
    BY <1>4, <1>5, <1>6, <1>7

LEMMA AccountDeploying ==
  ASSUME TypeInv, NEW c \in Actors, c # Main, Actors = {c, Main}, AccountInv(c),
         NEW s \in PodStages, Doing(c, s), NEW do \in Deploys, do = Task(c).do,
         NEW e \in Deploys \cup {<<>>}, Continue(c, e, <<>>), StepsTo(do, e),
         UNCHANGED <<deps, up, failed, revived>>,
         NEW x \in Pods, x = Task(c).pod, NEW t \in Specs, t = Task(c).t,
         \A p \in Pods : p # x => pods'[p] = pods[p] /\ file'[p] = file[p] /\ unit'[p] = unit[p],
         Stored(x)' /\ pods'[x].owned => x \in Instances,
         NEW u, Stored(x) => u = pods[x].t,
         Before(c, x, do, t, u) => \E v : After(x, e, t, v)
  PROVE  AccountInv(c)'
  <1>1. TodoType /\ ListInv(c) /\ e \in DosOf(c) \cup {<<>>} /\ StepsTo(Task(c).do, e)
    BY TypeParts, AccountParts DEF DosOf
  <1>2. DeployList(c)
    BY <1>1, KindOfList
  <1>3. ASSUME x \notin failed' PROVE PodAccounted(c, x)'
    <2>1. PodAccounted(c, x)
      BY <1>3, AccountParts
    <2>2. Before(c, x, do, t, u)
      BY <1>1, <1>2, <2>1, DeployingNow, Zenon
    <2>3. PICK v : After(x, e, t, v)
      BY <2>2
    <2>4. Kept(c, x) /\ deps' = deps
      BY <2>2 DEF Before
    <2>. QED
      BY <1>1, <1>2, <2>3, <2>4, DeployingNext, Zenon
  <1>4. \A p \in Pods : p # x => /\ pods'[p] = pods[p] /\ file'[p] = file[p] /\ unit'[p] = unit[p]
                                 /\ p \in revived => p \in revived'
    OBVIOUS
  <1>5. deps' = deps /\ up' = up /\ failed \subseteq failed'
    OBVIOUS
  <1>. QED
    BY <1>1, <1>3, <1>4, <1>5, AccountByClient, Zenon

LEMMA AccountWrite ==
  ASSUME TypeInv, NEW c \in Actors, c # Main, Actors = {c, Main}, AccountInv(c), Write(c)
  PROVE  AccountInv(c)'
  <1>0. TodoType /\ StateType /\ ListInv(c) /\ Owns
    BY TypeParts, AccountParts
  <1>1. Doing(c, "write") /\ "write" \in PodStages
    BY DEF Write, PodStages
  <1>2. PICK do \in Writes : do = Task(c).do
    BY <1>0, <1>1, ClientHead
  <1>3. PICK x \in Pods : x = Task(c).pod
    BY <1>0, <1>1, PodStage
  <1>4. PICK t \in Specs : t = Task(c).t
    BY <1>0, <1>1, PodStage
  <1>5. PICK ch \in BOOLEAN : ch = (file[x] # t)
    OBVIOUS
  <1>6. PICK e : e = AfterWrite(do, ch)
    OBVIOUS
  <1>7. do \in Deploys /\ StepsTo(do, e) /\ e \in Deploys \cup {<<>>}
    <2>1. do \in Deploys
      BY DEF Deploys
    <2>. QED
      BY <1>6, <2>1, DeploySteps DEF StepsTo
  <1>8. Continue(c, e, <<>>)
    BY <1>2, <1>3, <1>4, <1>5, <1>6 DEF Write
  <1>9. /\ file' = [file EXCEPT ![x] = t] /\ UNCHANGED <<deps, pods, unit, up, failed, revived>>
    BY <1>3, <1>4 DEF Write, store
  <1>10. /\ file'[x] = t /\ t # Absent
         /\ \A p \in Pods : p # x => pods'[p] = pods[p] /\ file'[p] = file[p] /\ unit'[p] = unit[p]
         /\ Stored(x)' /\ pods'[x].owned => x \in Instances
         /\ Stored(x) <=> Stored(x)'
    BY <1>0, <1>9, NamesAssumption DEF StateType, Owns, Stored
  <1>11. PICK u : u = pods[x].t
    OBVIOUS
  <1>12. ASSUME Before(c, x, do, t, u) PROVE After(x, e, t, u)
    <2>1. /\ do \notin Synced /\ do \notin Starts \cup Restarts
          /\ e \in Synced \/ do \in Replaces
          /\ e \in Starts \cup Restarts \/ ch = FALSE
          /\ e \in Starts => do \in Fresh
      BY <1>6, WriteTable
    <2>2. u = pods'[x].t
      BY <1>9, <1>11
    <2>3. ch = FALSE => file[x] = t
      BY <1>5
    <2>. QED
      BY <1>9, <1>10, <1>12, <2>1, <2>2, <2>3 DEF Before, After
  <1>13. UNCHANGED <<deps, up, failed, revived>>
    BY <1>9
  <1>. QED
    BY <1>1, <1>2, <1>3, <1>4, <1>7, <1>8, <1>10, <1>11, <1>12, <1>13, AccountDeploying

LEMMA AccountSync ==
  ASSUME TypeInv, NEW c \in Actors, c # Main, Actors = {c, Main}, AccountInv(c),
         Sync(c) \/ CreateInstance(c)
  PROVE  AccountInv(c)'
  <1>0. TodoType /\ StateType /\ ListInv(c) /\ Owns
    BY TypeParts, AccountParts
  <1>1. PICK s \in {"sync", "create"} : Doing(c, s) /\ (s = "sync" <=> Sync(c))
    <2>1. ~(Doing(c, "sync") /\ Doing(c, "create"))
      BY DEF Doing
    <2>. QED
      BY <2>1 DEF Sync, CreateInstance
  <1>2. s \in PodStages
    BY DEF PodStages
  <1>3. PICK do \in Synced \cup Created : do = Task(c).do
    BY <1>0, <1>1, <1>2, ClientHead
  <1>4. do \in Deploys /\ do \in Written
    BY DEF Deploys, Written
  <1>5. PICK x \in Pods : x = Task(c).pod
    BY <1>0, <1>1, <1>2, PodStage
  <1>6. PICK t \in Specs : t = Task(c).t
    BY <1>0, <1>1, <1>2, PodStage
  <1>7. x \in Instances
    <2>1. DeployList(c)
      BY <1>0, <1>1, <1>3, <1>4, KindOfList
    <2>2. 1 \in DOMAIN todo[c] /\ Task(c) = todo[c][1]
      BY <1>0, <1>1, FirstTask
    <2>. QED
      BY <1>3, <1>5, <2>1, <2>2 DEF DeployList, Does
  <1>8. PICK e : /\ e = Tail(do) \/ (do \in Synced /\ e = <<"create">> \o Tail(do))
                 /\ Continue(c, e, <<>>)
    <2>1. CASE Sync(c)
      <3>1. do \in Synced
        BY <1>0, <1>1, <1>2, <1>3, <2>1, ClientHead
      <3>. QED
        BY <1>3, <2>1, <3>1 DEF Sync, Advance
    <2>2. CASE CreateInstance(c)
      BY <1>3, <2>2 DEF CreateInstance, Advance
    <2>. QED
      BY <2>1, <2>2
  <1>9. StepsTo(do, e) /\ e \in Deploys \cup {<<>>}
    BY <1>4, <1>8, DeploySteps DEF StepsTo
  <1>10. /\ UNCHANGED <<deps, file, unit, up, failed, revived>>
         /\ pods' = pods \/ pods' = [pods EXCEPT ![x] = [t |-> t, owned |-> TRUE]]
         /\ Stored(x) /\ Sync(c) => pods' = [pods EXCEPT ![x] = [t |-> t, owned |-> TRUE]]
    BY <1>5, <1>6 DEF Sync, CreateInstance, host, history
  <1>a. [t |-> t, owned |-> TRUE] # Absent
    <2>1. [t |-> t, owned |-> TRUE] \in [t : Specs, owned : BOOLEAN]
      OBVIOUS
    <2>2. Absent \notin [t : Specs, owned : BOOLEAN]
      BY NamesAssumption, Zenon
    <2>. QED
      BY <2>1, <2>2, Zenon
  <1>b. /\ \A p \in Pods : p # x => pods'[p] = pods[p]
        /\ pods'[x] = pods[x] \/ pods'[x] = [t |-> t, owned |-> TRUE]
    BY <1>0, <1>10 DEF StateType
  <1>11. /\ UNCHANGED <<deps, up, failed, revived>>
         /\ \A p \in Pods : p # x => pods'[p] = pods[p] /\ file'[p] = file[p] /\ unit'[p] = unit[p]
         /\ Stored(x)' /\ pods'[x].owned => x \in Instances
         /\ Stored(x) => Stored(x)'
    BY <1>7, <1>10, <1>a, <1>b DEF Stored
  <1>12. PICK u : u = pods[x].t
    OBVIOUS
  <1>13. ASSUME Before(c, x, do, t, u) PROVE \E v : After(x, e, t, v)
    <2>1. /\ do \in Starts \cup Restarts => e \in Starts \cup Restarts
          /\ e \in Starts => do \in Starts
          /\ do \notin Replaces
      BY <1>8, SyncTable
    <2>2. PICK v : v = pods'[x].t
      OBVIOUS
    <2>3. Stored(x)' /\ v # Stub => file'[x] = v \/ e \in Synced
      <3>1. CASE pods' = [pods EXCEPT ![x] = [t |-> t, owned |-> TRUE]]
        <4>1. v = t
          BY <1>0, <2>2, <3>1 DEF StateType
        <4>. QED
          BY <1>4, <1>10, <1>13, <4>1 DEF Before
      <3>2. CASE pods' = pods /\ pods' # [pods EXCEPT ![x] = [t |-> t, owned |-> TRUE]]
        <4>1. CASE Sync(c)
          BY <1>10, <3>2, <4>1 DEF Stored
        <4>2. CASE ~Sync(c)
          <5>1. do \in Created
            BY <1>0, <1>1, <1>2, <1>3, <4>2, ClientHead
          <5>2. do \notin Synced
            BY <5>1, DeployDos
          <5>. QED
            BY <1>10, <1>12, <1>13, <2>1, <2>2, <3>2, <5>2 DEF Before, Stored
        <4>. QED
          BY <4>1, <4>2
      <3>. QED
        BY <1>10, <3>1, <3>2
    <2>4. After(x, e, t, v)
      BY <1>4, <1>10, <1>11, <1>13, <2>1, <2>2, <2>3 DEF Before, After
    <2>. QED
      BY <2>4
  <1>. QED
    BY <1>1, <1>2, <1>3, <1>4, <1>5, <1>6, <1>8, <1>9, <1>11, <1>12, <1>13, AccountDeploying

LEMMA AccountRun ==
  ASSUME TypeInv, NEW c \in Actors, c # Main, Actors = {c, Main}, AccountInv(c), Run(c)
  PROVE  AccountInv(c)'
  <1>0. TodoType /\ StateType /\ ListInv(c) /\ Owns
    BY TypeParts, AccountParts
  <1>1. PICK s \in {"start", "restart"} : Doing(c, s) /\ (s = "start" <=> Doing(c, "start"))
    <2>1. ~(Doing(c, "start") /\ Doing(c, "restart"))
      BY DEF Doing
    <2>. QED
      BY <2>1 DEF Run
  <1>2. s \in PodStages
    BY DEF PodStages
  <1>3. PICK do : do = Task(c).do /\ do = <<s>>
    BY <1>0, <1>1, <1>2, ClientHead
  <1>4. /\ do \in Starts \cup Restarts /\ do \notin Synced /\ do \notin Replaces
        /\ do \in Deploys /\ do \in Written /\ (s = "start" => do \in Starts)
    <2>1. do \in {<<"start">>, <<"restart">>}
      BY <1>3
    <2>2. do \in Starts \cup Restarts /\ do \notin Synced /\ (s = "start" => do \in Starts)
      BY <1>3, <2>1, DeployDos
    <2>3. do \in Written
      BY <2>2 DEF Written
    <2>. QED
      BY <2>2, <2>3, DeployDos DEF Deploys
  <1>5. PICK x \in Pods : x = Task(c).pod
    BY <1>0, <1>1, <1>2, PodStage
  <1>6. PICK t \in Specs : t = Task(c).t
    BY <1>0, <1>1, <1>2, PodStage
  <1>7. PICK e : e = <<>> /\ Continue(c, e, <<>>)
    <2>1. Tail(<<s>>) = <<>>
      BY ShortTails
    <2>. QED
      BY <1>3, <2>1 DEF Run, Advance
  <1>8. StepsTo(do, e) /\ e \in Deploys \cup {<<>>} /\ e \notin Synced /\ e \notin Starts /\ e \notin Written
    <2>1. <<>> \notin Written
      BY Kinds, FamiliesOfPods
    <2>. QED
      BY <1>7, <2>1, EndSteps DEF Written
  <1>9. /\ UNCHANGED <<deps, pods, file, up, failed, revived>>
        /\ unit' = [unit EXCEPT ![x] = IF (IF s = "start" THEN unit[x] ELSE Absent) # Absent
                                       THEN (IF s = "start" THEN unit[x] ELSE Absent) ELSE file[x]]
    BY <1>1, <1>5 DEF Run, store, history
  <1>10. /\ UNCHANGED <<deps, up, failed, revived>>
         /\ \A p \in Pods : p # x => pods'[p] = pods[p] /\ file'[p] = file[p] /\ unit'[p] = unit[p]
         /\ Stored(x)' /\ pods'[x].owned => x \in Instances
         /\ Stored(x) <=> Stored(x)'
         /\ (s = "start" /\ unit[x] # Absent) \/ unit'[x] = file[x]
    BY <1>0, <1>9 DEF StateType, Owns, Stored
  <1>11. PICK u : u = pods[x].t
    OBVIOUS
  <1>12. ASSUME Before(c, x, do, t, u) PROVE After(x, e, t, u)
    BY <1>4, <1>8, <1>9, <1>10, <1>11, <1>12 DEF Before, After
  <1>. QED
    BY <1>1, <1>2, <1>3, <1>4, <1>5, <1>6, <1>7, <1>8, <1>10, <1>11, <1>12, AccountDeploying

(* What is said of a pod that nobody deploys. *)
Rests(c, p, u) ==
  /\ unit[p] # Absent => Kept(c, p) \/ Work(c, Stops, p) \/ Removed(c, p)
  /\ file[p] # Absent => Kept(c, p) \/ Work(c, Unlinks, p) \/ Removed(c, p)
  /\ Stored(p) /\ p \notin revived => Kept(c, p) \/ Work(c, Drops, p) \/ Busy(c, Purges)
  /\ Stored(p) /\ u # Stub => file[p] = u \/ Work(c, Drops, p) \/ Busy(c, Purges)
  /\ file[p] # Absent => unit[p] = file[p] \/ Work(c, Unlinks, p)

LEMMA PartsOfDeploys ==
  Synced \cup Starts \cup Restarts \cup Fresh \cup Written \cup Replaces \subseteq Deploys
  BY DEF Deploys, Written, Writes, Syncs, Replaces, Fresh

LEMMA NotDeployed ==
  ASSUME NEW c, NEW p
  PROVE  /\ ~Work(c, Deploys, p) => \A dos : dos \subseteq Deploys =>
              ~Work(c, dos, p) /\ \A t : ~WorkAs(c, dos, p, t)
         /\ ~Work(c, Deploys, p)' => \A dos : dos \subseteq Deploys =>
              ~Work(c, dos, p)' /\ \A t : ~WorkAs(c, dos, p, t)'
  <1>1. ASSUME ~Work(c, Deploys, p), NEW dos, dos \subseteq Deploys
        PROVE  ~Work(c, dos, p) /\ \A t : ~WorkAs(c, dos, p, t)
    <2>1. \A j \in DOMAIN todo[c] : ~(todo[c][j].do \in dos /\ todo[c][j].pod = p)
      BY <1>1 DEF Work, Does
    <2>. QED
      BY <2>1, Zenon DEF Work, WorkAs, Does
  <1>2. ASSUME ~Work(c, Deploys, p)', NEW dos, dos \subseteq Deploys
        PROVE  ~Work(c, dos, p)' /\ \A t : ~WorkAs(c, dos, p, t)'
    <2>1. \A j \in DOMAIN todo'[c] : ~(todo'[c][j].do \in dos /\ todo'[c][j].pod = p)
      BY <1>2 DEF Work, Does
    <2>. QED
      BY <2>1, Zenon DEF Work, WorkAs, Does
  <1>. QED
    BY <1>1, <1>2, Zenon

LEMMA RestsNow ==
  ASSUME NEW c, NEW p, NEW u, Stored(p) => u = pods[p].t, ~Work(c, Deploys, p), PodAccounted(c, p)
  PROVE  Rests(c, p, u)
  <1>1. /\ ~Work(c, Synced, p) /\ ~Work(c, Starts \cup Restarts, p)
        /\ \A t : ~WorkAs(c, Replaces, p, t)
    <2>1. /\ Synced \subseteq Deploys /\ Starts \cup Restarts \subseteq Deploys /\ Replaces \subseteq Deploys
      BY PartsOfDeploys
    <2>. QED
      BY <2>1, NotDeployed, Zenon
  <1>2. AccountOf(c, p, u)
    BY NowIs, Zenon
  <1>. QED
    BY <1>1, <1>2 DEF Rests, AccountOf

LEMMA RestsNext ==
  ASSUME NEW c, NEW p, NEW v, Stored(p)' => v = pods'[p].t, ~Work(c, Deploys, p)', Rests(c, p, v)'
  PROVE  PodAccounted(c, p)'
  <1>1. /\ ~Work(c, Fresh, p)' /\ ~Work(c, Starts, p)'
        /\ \A t : ~WorkAs(c, Replaces, p, t)' /\ ~WorkAs(c, Written, p, t)'
    <2>1. Fresh \subseteq Deploys /\ Starts \subseteq Deploys /\ Replaces \subseteq Deploys /\ Written \subseteq Deploys
      BY PartsOfDeploys
    <2>. QED
      BY <2>1, NotDeployed, Zenon
  <1>2. AccountOf(c, p, v)'
    BY <1>1 DEF Rests, AccountOf
  <1>. QED
    BY <1>2, NextIs, Zenon

(* What a request takes away, it drops or purges. *)
LEMMA Goings ==
  ASSUME TodoType, NEW c \in Actors, c # Main, ListInv(c)
  PROVE  /\ \A p \in Pods : Work(c, Stops \cup Unlinks, p) => Work(c, Drops, p) \/ Busy(c, Purges)
         /\ \A p : Removed(c, p) => Busy(c, Purges)
  <1>1. PurgeAll \subseteq Purges
    BY DEF Purges
  <1>2. Busy(c, PurgeAll) => Busy(c, Purges)
    BY <1>1 DEF Busy, Does
  <1>3. CASE DeployList(c)
    <2>1. (\A p : ~Work(c, Stops \cup Unlinks, p)) /\ ~Busy(c, {<<"remove">>})
      <3>1. Stops \cup Unlinks \subseteq Goes
        BY DEF Goes
      <3>. QED
        BY <1>3, <3>1, OneKind, FamiliesOfPods, Zenon
    <2>. QED
      BY <1>2, <2>1, Zenon DEF Removed, Busy
  <1>4. CASE UpdateList(c)
    <2>1. todo[c] \in Seq(TasksOf(c)) /\ Len(todo[c]) = 1 /\ todo[c][1].do = <<"update">>
      BY <1>4 DEF UpdateList, TodoType
    <2>2. DOMAIN todo[c] = 1..Len(todo[c])
      BY <2>1
    <2>3. <<"update">> \notin Stops \cup Unlinks /\ <<"update">> \notin {<<"remove">>}
      BY Kinds, FamiliesOfPods
    <2>4. \A dos : <<"update">> \notin dos => ~Busy(c, dos) /\ \A p : ~Work(c, dos, p)
      BY <2>1, <2>2 DEF Busy, Work, Does
    <2>5. ~Busy(c, {<<"remove">>}) /\ \A p : ~Work(c, Stops \cup Unlinks, p)
      BY <2>3, <2>4, Zenon
    <2>. QED
      BY <1>2, <2>5, Zenon DEF Removed, Busy
  <1>5. CASE GoList(c)
    BY <1>2, <1>5, Zenon DEF GoList, Removed
  <1>. QED
    BY <1>3, <1>4, <1>5 DEF ListInv

(* What is left to do for the pod a client takes away. *)
LEMMA AtGoing ==
  ASSUME TypeInv, NEW c \in Actors, c # Main, Actors = {c, Main}, AccountInv(c),
         NEW s \in {"stop", "unlink", "drop"}, Doing(c, s), Advance(c), deps' = deps,
         NEW do, do = Task(c).do, NEW e, e = Tail(do), NEW x \in Pods, x = Task(c).pod
  PROVE  /\ s \in PodStages /\ do \in Goes /\ e \in DosOf(c) \cup {<<>>} /\ Continue(c, e, <<>>)
         /\ StepsTo(Task(c).do, e)
         /\ ~Work(c, Deploys, x) /\ ~Work(c, Deploys, x)'
         /\ \A dos : dos \subseteq AllDos =>
              /\ Work(c, dos, x) <=> do \in dos \/ LaterWork(c, dos, x)
              /\ Work(c, dos, x)' <=> e \in dos \/ LaterWork(c, dos, x)
         /\ Asked(c, x) => Asked(c, x)'
         /\ Removed(c, x) => Removed(c, x)'
         /\ Busy(c, Purges)' <=> Busy(c, Purges)
         /\ Work(c, Drops, x)' => Work(c, Drops, x)
         /\ Work(c, Stops \cup Unlinks, x) => Work(c, Drops, x) \/ Busy(c, Purges)
         /\ Work(c, Stops, x) => Work(c, Unlinks, x)
  <1>0. TodoType /\ ListInv(c) /\ StopsFirst(c)
    BY TypeParts, AccountParts
  <1>1. s \in PodStages
    BY DEF PodStages
  <1>2. do \in Goes
    BY <1>0, <1>1, ClientHead DEF Goes, Unlinks, Drops
  <1>3. StepsTo(do, e)
    BY <1>2, GoSteps
  <1>4. e \in Goes \cup {<<>>} /\ e \in DosOf(c) \cup {<<>>} /\ Continue(c, e, <<>>)
    BY <1>2, <1>3 DEF StepsTo, DosOf, Advance
  <1>5. GoList(c)
    BY <1>0, <1>2, KindOfList
  <1>6. ASSUME NEW dos, dos \subseteq AllDos
        PROVE  /\ Work(c, dos, x) <=> do \in dos \/ LaterWork(c, dos, x)
               /\ Work(c, dos, x)' <=> e \in dos \/ LaterWork(c, dos, x)
    BY <1>0, <1>1, <1>4, <1>6, PodStepView, Zenon
  <1>7. ~Work(c, Deploys, x) /\ ~Work(c, Deploys, x)'
    <2>1. ~Work(c, Deploys, x)
      BY <1>5, OneKind
    <2>2. e \notin Deploys
      BY <1>4, Kinds, MoreFamilies
    <2>. QED
      BY <1>6, <2>1, <2>2, MoreFamilies, Zenon
  <1>8. Asked(c, x) => Asked(c, x)'
    BY <1>0, <1>1, <1>4, PodStepFrame, Zenon
  <1>9. Busy(c, Purges)' <=> Busy(c, Purges)
    BY <1>0, <1>1, <1>4, PodStepFrame, Zenon
  <1>10. Removed(c, x) => Removed(c, x)'
    <2>1. \A d \in Deps : Desired(d) \subseteq Desired(d)'
      BY DEF Desired
    <2>. QED
      BY <1>0, <1>1, <1>4, <2>1, RemovedStays, Zenon
  <1>11. Work(c, Drops, x)' => Work(c, Drops, x)
    <2>1. e \in Drops => do \in Drops
      BY <1>3 DEF StepsTo
    <2>. QED
      BY <1>6, <2>1, FamiliesOfPods, Zenon
  <1>12. Work(c, Stops \cup Unlinks, x) => Work(c, Drops, x) \/ Busy(c, Purges)
    BY <1>0, Goings
  <1>13. Work(c, Stops, x) => Work(c, Unlinks, x)
    BY <1>0 DEF StopsFirst
  <1>. QED
    BY <1>1, <1>2, <1>3, <1>4, <1>6, <1>7, <1>8, <1>9, <1>10, <1>11, <1>12, <1>13

LEMMA GoTable ==
  /\ \A do \in Stops : /\ Tail(do) \notin Stops
                       /\ do \in Unlinks => Tail(do) \in Unlinks
                       /\ do \in Drops => Tail(do) \in Drops
  /\ \A do \in {<<"unlink", "drop">>, <<"unlink">>} :
       /\ do \in Unlinks /\ do \notin Stops /\ Tail(do) \notin Stops
       /\ do \in Drops => Tail(do) \in Drops
  /\ Tail(<<"drop">>) = <<>> /\ <<>> \notin Stops \cup Unlinks
  /\ <<"drop">> \in Drops /\ <<"drop">> \notin Stops \cup Unlinks
  <1>1. <<>> \notin Stops \cup Unlinks
    BY Kinds, FamiliesOfPods
  <1>2. /\ Tail(<<"stop", "unlink", "drop">>) = <<"unlink", "drop">>
        /\ Tail(<<"stop", "unlink">>) = <<"unlink">>
        /\ Tail(<<"stop">>) = <<>>
        /\ Tail(<<"unlink", "drop">>) = <<"drop">>
        /\ Tail(<<"unlink">>) = <<>>
        /\ Tail(<<"drop">>) = <<>>
    BY ShortTails
  <1>3. ASSUME NEW do \in Stops
        PROVE  /\ Tail(do) \notin Stops
               /\ do \in Unlinks => Tail(do) \in Unlinks
               /\ do \in Drops => Tail(do) \in Drops
    <2>1. /\ do = <<"stop", "unlink", "drop">> => Tail(do) = <<"unlink", "drop">>
          /\ do = <<"stop", "unlink">> => Tail(do) = <<"unlink">>
          /\ do = <<"stop">> => Tail(do) = <<>>
      BY <1>2, Zenon
    <2>2. do \in {<<"stop", "unlink", "drop">>, <<"stop", "unlink">>, <<"stop">>}
      BY DEF Stops
    <2>3. <<"unlink", "drop">> \in Unlinks /\ <<"unlink", "drop">> \notin Stops /\ <<"unlink">> \in Unlinks
      BY NotFirst DEF Unlinks
    <2>4. do \in Drops => Tail(do) \in Drops
      BY DropSteps
    <2>. QED
      BY <1>1, <2>1, <2>2, <2>3, <2>4, GoDos
  <1>4. ASSUME NEW do \in {<<"unlink", "drop">>, <<"unlink">>}
        PROVE  /\ do \in Unlinks /\ do \notin Stops /\ Tail(do) \notin Stops
               /\ do \in Drops => Tail(do) \in Drops
    <2>1. do \in Unlinks /\ do \notin Stops
      BY NotFirst, GoDos DEF Unlinks
    <2>2. Tail(do) \in {<<"drop">>, <<>>}
      BY <1>2, Zenon
    <2>3. do \in Drops => Tail(do) \in Drops
      BY DropSteps
    <2>. QED
      BY <1>1, <2>1, <2>2, <2>3, GoDos
  <1>. QED
    BY <1>1, <1>2, <1>3, <1>4, GoDos

LEMMA AccountGoSteps ==
  ASSUME TypeInv, NEW c \in Actors, c # Main, Actors = {c, Main}, AccountInv(c)
  PROVE  /\ StopUnit(c) => AccountInv(c)'
         /\ Unlink(c) => AccountInv(c)'
         /\ DropPod(c) => AccountInv(c)'
  <1>0. TodoType /\ StateType /\ Owns
    BY TypeParts, AccountParts
  <1>1. ASSUME NEW s \in {"stop", "unlink", "drop"}, Doing(c, s), Advance(c),
               UNCHANGED <<deps, up, failed>>,
               NEW x \in Pods, x = Task(c).pod,
               \A p \in Pods : p # x =>
                 /\ pods'[p] = pods[p] /\ file'[p] = file[p] /\ unit'[p] = unit[p]
                 /\ p \in revived => p \in revived',
               Stored(x)' => pods'[x] = pods[x],
               ASSUME x \notin failed PROVE PodAccounted(c, x)'
        PROVE  AccountInv(c)'
    <2>1. PICK do : do = Task(c).do
      OBVIOUS
    <2>2. PICK e : e = Tail(do)
      OBVIOUS
    <2>3. /\ s \in PodStages /\ e \in DosOf(c) \cup {<<>>} /\ Continue(c, e, <<>>)
          /\ StepsTo(Task(c).do, e)
      BY <1>1, <2>1, <2>2, AtGoing
    <2>4. Stored(x)' /\ pods'[x].owned => x \in Instances
      BY <1>0, <1>1 DEF Owns, Stored
    <2>5. deps' = deps /\ up' = up /\ failed \subseteq failed' /\ (x \notin failed' => PodAccounted(c, x)')
      BY <1>1
    <2>. QED
      BY <1>1, <2>3, <2>4, <2>5, AccountByClient
  <1>2. ASSUME StopUnit(c) PROVE AccountInv(c)'
    <2>1. Doing(c, "stop") /\ Advance(c) /\ UNCHANGED <<ns, deps, pods, file, up, failed, missing, revived>>
      BY <1>2 DEF StopUnit, store, history
    <2>2. PICK x \in Pods : x = Task(c).pod
      BY <1>0, <2>1, PodStage DEF PodStages
    <2>3. PICK do \in Stops : do = Task(c).do
      BY <1>0, <2>1, ClientHead DEF PodStages
    <2>4. PICK e : e = Tail(do)
      OBVIOUS
    <2>5. unit'[x] = Absent /\ \A p \in Pods : p # x => unit'[p] = unit[p]
      BY <1>0, <1>2, <2>2 DEF StopUnit, StateType
    <2>6. ASSUME x \notin failed PROVE PodAccounted(c, x)'
      <3>1. PICK u : u = pods[x].t
        OBVIOUS
      <3>2. /\ ~Work(c, Deploys, x) /\ ~Work(c, Deploys, x)'
            /\ \A dos : dos \subseteq AllDos =>
                 /\ Work(c, dos, x) <=> do \in dos \/ LaterWork(c, dos, x)
                 /\ Work(c, dos, x)' <=> e \in dos \/ LaterWork(c, dos, x)
            /\ Asked(c, x) => Asked(c, x)'
            /\ Removed(c, x) => Removed(c, x)'
            /\ Busy(c, Purges)' <=> Busy(c, Purges)
            /\ Work(c, Drops, x)' => Work(c, Drops, x)
            /\ Work(c, Stops, x) => Work(c, Unlinks, x)
        BY <2>1, <2>2, <2>3, <2>4, AtGoing
      <3>3. Rests(c, x, u)
        BY <2>6, <3>1, <3>2, AccountParts, RestsNow
      <3>4. /\ Work(c, Unlinks, x)'
            /\ Work(c, Drops, x) => Work(c, Drops, x)'
        <4>1. do \in Stops /\ (do \in Unlinks => e \in Unlinks) /\ (do \in Drops => e \in Drops)
          BY <2>4, GoTable
        <4>. QED
          BY <3>2, <4>1, FamiliesOfPods, Zenon
      <3>5. Stored(x)' <=> Stored(x)
        BY <2>1 DEF Stored
      <3>6. Kept(c, x) => Kept(c, x)'
        BY <3>2, <3>5, Zenon DEF Kept
      <3>7. Rests(c, x, u)'
        BY <2>1, <2>5, <3>2, <3>3, <3>4, <3>5, <3>6 DEF Rests
      <3>8. u = pods'[x].t
        BY <2>1, <3>1
      <3>. QED
        BY <3>2, <3>7, <3>8, RestsNext
    <2>. QED
      BY <1>1, <2>1, <2>2, <2>5, <2>6
  <1>3. ASSUME Unlink(c) PROVE AccountInv(c)'
    <2>1. Doing(c, "unlink") /\ Advance(c) /\ UNCHANGED <<ns, deps, pods, unit, up, failed, missing, revived>>
      BY <1>3 DEF Unlink, store, history
    <2>2. PICK x \in Pods : x = Task(c).pod
      BY <1>0, <2>1, PodStage DEF PodStages
    <2>3. PICK do \in {<<"unlink", "drop">>, <<"unlink">>} : do = Task(c).do
      BY <1>0, <2>1, ClientHead DEF PodStages
    <2>4. PICK e : e = Tail(do)
      OBVIOUS
    <2>5. file'[x] = Absent /\ \A p \in Pods : p # x => file'[p] = file[p]
      BY <1>0, <1>3, <2>2 DEF Unlink, StateType
    <2>6. ASSUME x \notin failed PROVE PodAccounted(c, x)'
      <3>1. PICK u : u = pods[x].t
        OBVIOUS
      <3>2. /\ ~Work(c, Deploys, x) /\ ~Work(c, Deploys, x)'
            /\ \A dos : dos \subseteq AllDos =>
                 /\ Work(c, dos, x) <=> do \in dos \/ LaterWork(c, dos, x)
                 /\ Work(c, dos, x)' <=> e \in dos \/ LaterWork(c, dos, x)
            /\ Asked(c, x) => Asked(c, x)'
            /\ Removed(c, x) => Removed(c, x)'
            /\ Busy(c, Purges)' <=> Busy(c, Purges)
            /\ Work(c, Drops, x)' => Work(c, Drops, x)
            /\ Work(c, Stops \cup Unlinks, x) => Work(c, Drops, x) \/ Busy(c, Purges)
        BY <2>1, <2>2, <2>3, <2>4, AtGoing
      <3>3. Rests(c, x, u)
        BY <2>6, <3>1, <3>2, AccountParts, RestsNow
      <3>4. /\ Work(c, Stops, x) => Work(c, Stops, x)'
            /\ Work(c, Drops, x) => Work(c, Drops, x)'
            /\ Work(c, Drops, x) \/ Busy(c, Purges)
        <4>1. do \in Unlinks /\ do \notin Stops /\ (do \in Drops => e \in Drops) /\ do \in Stops \cup Unlinks
          BY <2>4, GoTable
        <4>. QED
          BY <3>2, <4>1, FamiliesOfPods, Zenon
      <3>5. Stored(x)' <=> Stored(x)
        BY <2>1 DEF Stored
      <3>6. Kept(c, x) => Kept(c, x)'
        BY <3>2, <3>5, Zenon DEF Kept
      <3>7. Rests(c, x, u)'
        BY <2>1, <2>5, <3>2, <3>3, <3>4, <3>5, <3>6 DEF Rests
      <3>8. u = pods'[x].t
        BY <2>1, <3>1
      <3>. QED
        BY <3>2, <3>7, <3>8, RestsNext
    <2>. QED
      BY <1>1, <2>1, <2>2, <2>5, <2>6
  <1>4. ASSUME DropPod(c) PROVE AccountInv(c)'
    <2>1. Doing(c, "drop") /\ Advance(c) /\ UNCHANGED <<ns, deps, file, unit, up, failed, missing>>
      BY <1>4 DEF DropPod, host
    <2>2. PICK x \in Pods : x = Task(c).pod
      BY <1>0, <2>1, PodStage DEF PodStages
    <2>3. PICK do : do = Task(c).do /\ do = <<"drop">>
      BY <1>0, <2>1, ClientHead DEF PodStages
    <2>4. PICK e : e = Tail(do)
      OBVIOUS
    <2>5. /\ ~Stored(x)'
          /\ \A p \in Pods : p # x => pods'[p] = pods[p] /\ (p \in revived => p \in revived')
      BY <1>0, <1>4, <2>2 DEF DropPod, StateType, Stored
    <2>6. ASSUME x \notin failed PROVE PodAccounted(c, x)'
      <3>1. PICK u : u = pods[x].t
        OBVIOUS
      <3>2. /\ ~Work(c, Deploys, x) /\ ~Work(c, Deploys, x)'
            /\ \A dos : dos \subseteq AllDos =>
                 /\ Work(c, dos, x) <=> do \in dos \/ LaterWork(c, dos, x)
                 /\ Work(c, dos, x)' <=> e \in dos \/ LaterWork(c, dos, x)
            /\ Asked(c, x) => Asked(c, x)'
            /\ Removed(c, x) => Removed(c, x)'
        BY <2>1, <2>2, <2>3, <2>4, AtGoing
      <3>3. Rests(c, x, u)
        BY <2>6, <3>1, <3>2, AccountParts, RestsNow
      <3>4. /\ Work(c, Stops, x) => Work(c, Stops, x)'
            /\ Work(c, Unlinks, x) => Work(c, Unlinks, x)'
            /\ Work(c, Drops, x)
        <4>1. do \notin Stops /\ do \notin Unlinks /\ do \in Drops
          BY <2>3, GoTable
        <4>. QED
          BY <3>2, <4>1, FamiliesOfPods, Zenon
      <3>5. Kept(c, x) => Kept(c, x)'
        BY <3>2, <3>4, Zenon DEF Kept
      <3>6. Rests(c, x, u)'
        BY <2>1, <2>5, <3>2, <3>3, <3>4, <3>5 DEF Rests
      <3>. QED
        BY <2>5, <3>2, <3>6, RestsNext
    <2>. QED
      BY <1>1, <2>1, <2>2, <2>5, <2>6
  <1>. QED
    BY <1>2, <1>3, <1>4

(* While q8s runs without a death, main only imports and prunes. *)
LEMMA MainDoings ==
  ASSUME TodoType, Main \in Actors, MainImports, NEW s, Doing(Main, s)
  PROVE  /\ Task(Main).do \in Imports \cup Prunes \cup {<<"allPods">>}
         /\ s \in {"ns", "dep", "pod", "known", "prune", "allPods"}
         /\ s \in {"ns", "dep", "pod", "known", "prune"} => s \in PodStages
         /\ s = "ns" => Task(Main).do = <<"ns", "dep", "pod">>
         /\ s = "dep" => Task(Main).do = <<"dep", "pod">>
         /\ s = "known" => Task(Main).do = <<"known", "prune">>
         /\ s = "pod" => Task(Main).do = <<"pod">>
         /\ s = "prune" => Task(Main).do = <<"prune">>
  <1>1. Task(Main) = todo[Main][1] /\ 1 \in DOMAIN todo[Main] /\ Head(Task(Main).do) = s
    BY FirstTask
  <1>2. Task(Main).do \in Imports \cup Prunes \cup {<<"allPods">>}
    BY <1>1 DEF MainImports, Does
  <1>3. PICK do \in Imports \cup Prunes \cup {<<"allPods">>} : do = Task(Main).do
    BY <1>2
  <1>4. Head(do) = s
    BY <1>1, <1>3
  <1>5. /\ s \in {"ns", "dep", "pod", "known", "prune", "allPods"}
        /\ s = "ns" => do = <<"ns", "dep", "pod">>
        /\ s = "dep" => do = <<"dep", "pod">>
        /\ s = "known" => do = <<"known", "prune">>
        /\ s = "pod" => do = <<"pod">>
        /\ s = "prune" => do = <<"prune">>
    BY <1>4 DEF Imports, Prunes
  <1>. QED
    BY <1>2, <1>3, <1>5 DEF PodStages

LEMMA AccountFails ==
  ASSUME TypeInv, NEW c \in Actors, c # Main, Actors = {c, Main}, AccountInv(c), NEW a \in Actors
  PROVE  Fails(a) => AccountInv(c)'
  <1>0. TodoType /\ StateType /\ ListInv(c) /\ Main \in Actors /\ MainImports /\ Owns
    BY TypeParts, AccountParts DEF Actors
  <1>1. ASSUME NEW s \in {"write", "rewrite", "start", "restart", "stop", "unlink"}, Doing(a, s),
               NEW e, e = Tail(Task(a).do) \/ e = <<>>, Continue(a, e, <<>>),
               UNCHANGED <<deps, pods, file, up, revived>>, failed' = failed \cup {Task(a).pod},
               \A p \in Pods : p # Task(a).pod => unit'[p] = unit[p]
        PROVE  AccountInv(c)'
    <2>1. s \in PodStages
      BY DEF PodStages
    <2>2. a = c
      <3>1. a # Main
        BY <1>0, <1>1, MainDoings
      <3>. QED
        BY <3>1
    <2>3. PICK x \in Pods : x = Task(c).pod
      BY <1>0, <1>1, <2>1, <2>2, PodStage
    <2>4. Task(c).do \in DosOf(c) /\ Task(c).do \in AllDos
      BY <1>0, <1>1, <2>1, <2>2, PodStage DEF PodTasks
    <2>5. e \in DosOf(c) \cup {<<>>}
      BY <1>1, <2>2, <2>4, Tails DEF DosOf
    <2>6. x \in failed' /\ failed \subseteq failed'
      BY <1>1, <2>2, <2>3
    <2>7. StepsTo(Task(c).do, e)
      BY <1>1, <2>2, <2>4, DeploySteps, GoSteps, EndSteps DEF DosOf
    <2>8. Stored(x)' /\ pods'[x].owned => x \in Instances
      BY <1>0, <1>1 DEF Owns, Stored
    <2>9. \A p \in Pods : p # x => /\ pods'[p] = pods[p] /\ file'[p] = file[p] /\ unit'[p] = unit[p]
                                   /\ p \in revived => p \in revived'
      BY <1>1, <2>2, <2>3
    <2>. QED
      BY <1>1, <2>1, <2>2, <2>3, <2>5, <2>6, <2>7, <2>8, <2>9, AccountByClient
  <1>2. ASSUME WriteFails(a) PROVE AccountInv(c)'
    <2>1. PICK s \in {"write", "rewrite"} : Doing(a, s)
      BY <1>2 DEF WriteFails
    <2>. QED
      BY <1>1, <1>2, <2>1 DEF WriteFails, Skip, store, host
  <1>3. ASSUME RunFails(a) PROVE AccountInv(c)'
    <2>1. PICK s \in {"start", "restart"} : Doing(a, s)
      BY <1>3 DEF RunFails
    <2>2. \A p \in Pods : p # Task(a).pod => unit'[p] = unit[p]
      BY <1>0, <1>3 DEF RunFails, StateType
    <2>. QED
      BY <1>1, <1>3, <2>1, <2>2 DEF RunFails, Advance, store
  <1>4. ASSUME TeardownFails(a) PROVE AccountInv(c)'
    <2>1. PICK s \in {"stop", "unlink"} : Doing(a, s)
      BY <1>4 DEF TeardownFails
    <2>. QED
      BY <1>1, <1>4, <2>1 DEF TeardownFails, Advance, store, host
  <1>. QED
    BY <1>2, <1>3, <1>4 DEF Fails

(* What a pass of main changes for the pod it is at. *)
LEMMA AtImport ==
  ASSUME TypeInv, NEW c \in Actors, c # Main, Actors = {c, Main},
         NEW s \in PodStages, Doing(Main, s),
         NEW e \in DosOf(Main) \cup {<<>>}, Continue(Main, e, <<>>), deps' = deps,
         NEW p
  PROVE  /\ SameWork(c, p)
         /\ Asked(c, p) => Asked(c, p)'
         /\ Removed(c, p) => Removed(c, p)'
         /\ (Stored(p) => Stored(p)') => (Kept(c, p) => Kept(c, p)')
  <1>0. TodoType /\ Main \in Actors
    BY TypeParts DEF Actors
  <1>1. SameWork(c, p)
    BY <1>0, SameOthers, Zenon
  <1>2. Asked(c, p) => Asked(c, p)'
    BY <1>0, PodStepFrame, Zenon
  <1>3. Removed(c, p) => Removed(c, p)'
    <2>1. \A d \in Deps : Desired(d) \subseteq Desired(d)'
      BY DEF Desired
    <2>. QED
      BY <1>0, <2>1, RemovedStays, Zenon
  <1>. QED
    BY <1>1, <1>2, <1>3, KeptFrame, Zenon

LEMMA AccountQuiet ==
  ASSUME TypeInv, NEW c \in Actors, c # Main, Actors = {c, Main}, AccountInv(c),
         NEW s \in PodStages, Doing(Main, s), NEW e \in DosOf(Main) \cup {<<>>}, Continue(Main, e, <<>>),
         e \in Imports \cup Prunes \cup {<<>>}, e \in Prunes => Task(Main).do \in Prunes,
         UNCHANGED <<deps, pods, file, unit, up, failed, revived>>
  PROVE  AccountInv(c)'
  <1>0. TodoType /\ Main \in Actors /\ Owns
    BY TypeParts, AccountParts DEF Actors
  <1>1. PICK x \in Pods : x = Task(Main).pod
    BY <1>0, PodStage
  <1>2. ASSUME x \notin failed' PROVE PodAccounted(c, x)'
    <2>1. PodAccounted(c, x)
      BY <1>2, AccountParts
    <2>2. Stored(x) => Stored(x)'
      BY DEF Stored
    <2>3. /\ SameWork(c, x) /\ (Removed(c, x) => Removed(c, x)')
          /\ Kept(c, x) => Kept(c, x)'
      BY <2>2, AtImport, Zenon
    <2>. QED
      BY <2>1, <2>3, AccountFrame
  <1>3. Stored(x)' /\ pods'[x].owned => x \in Instances
    BY <1>0 DEF Owns, Stored
  <1>4. \A p \in Pods : p # x => /\ pods'[p] = pods[p] /\ file'[p] = file[p] /\ unit'[p] = unit[p]
                                 /\ p \in revived => p \in revived'
    OBVIOUS
  <1>5. deps' = deps /\ up' = up /\ failed \subseteq failed'
    OBVIOUS
  <1>. QED
    BY <1>1, <1>2, <1>3, <1>4, <1>5, AccountByMain, Zenon

LEMMA ImportDos ==
  /\ Tail(<<"ns", "dep", "pod">>) = <<"dep", "pod">> /\ <<"dep", "pod">> \in Imports
  /\ Tail(<<"dep", "pod">>) = <<"pod">> /\ <<"pod">> \in Imports
  /\ Tail(<<"pod">>) = <<>> /\ Tail(<<"prune">>) = <<>>
  /\ Tail(<<"known", "prune">>) = <<"prune">> /\ <<"prune">> \in Prunes /\ <<"known", "prune">> \in Prunes
  /\ \A do \in Imports : do \notin Prunes
  /\ <<>> \notin Imports \cup Prunes
  /\ Imports \subseteq Mains /\ Prunes \subseteq Mains
  /\ <<"allPods">> \notin Prunes
  <1>1. /\ Tail(<<"ns", "dep", "pod">>) = <<"dep", "pod">>
        /\ Tail(<<"dep", "pod">>) = <<"pod">>
        /\ Tail(<<"pod">>) = <<>> /\ Tail(<<"prune">>) = <<>>
        /\ Tail(<<"known", "prune">>) = <<"prune">>
    BY ShortTails
  <1>2. /\ <<"dep", "pod">> \in Imports /\ <<"pod">> \in Imports
        /\ <<"prune">> \in Prunes /\ <<"known", "prune">> \in Prunes
        /\ Imports \subseteq Mains /\ Prunes \subseteq Mains
    BY DEF Imports, Prunes, Mains
  <1>3. /\ \A do \in Imports : do \notin Prunes
        /\ <<>> \notin Imports \cup Prunes
        /\ <<"allPods">> \notin Prunes
    BY DEF Imports, Prunes
  <1>. QED
    BY <1>1, <1>2, <1>3

LEMMA AccountQuietSteps ==
  ASSUME TypeInv, NEW c \in Actors, c # Main, Actors = {c, Main}, AccountInv(c)
  PROVE  /\ ImportIntoNamespace(Main) => AccountInv(c)'
         /\ CheckUnit(Main) => AccountInv(c)'
  <1>0. TodoType /\ Main \in Actors /\ MainImports
    BY TypeParts, AccountParts DEF Actors
  <1>1. ASSUME ImportIntoNamespace(Main) PROVE AccountInv(c)'
    <2>1. Doing(Main, "ns") /\ UNCHANGED <<deps, pods, file, unit, up, failed, revived>>
      BY <1>1 DEF ImportIntoNamespace, store, host, history
    <2>2. PICK e \in {<<"dep", "pod">>, <<>>} : Continue(Main, e, <<>>)
      BY <1>0, <1>1, <2>1, MainDoings, ImportDos DEF ImportIntoNamespace, Advance, Skip
    <2>3. "ns" \in PodStages /\ e \in DosOf(Main) \cup {<<>>}
      BY <2>2, ImportDos DEF PodStages, DosOf
    <2>4. e \in Imports \cup Prunes \cup {<<>>} /\ (e \in Prunes => Task(Main).do \in Prunes)
      BY <2>2, ImportDos
    <2>. QED
      BY <2>1, <2>2, <2>3, <2>4, AccountQuiet
  <1>2. ASSUME CheckUnit(Main) PROVE AccountInv(c)'
    <2>1. Doing(Main, "known") /\ UNCHANGED <<deps, pods, file, unit, up, failed, revived>>
      BY <1>2 DEF CheckUnit, store, host, history
    <2>2. PICK e \in {<<"prune">>, <<>>} : Continue(Main, e, <<>>)
      BY <1>0, <1>2, <2>1, MainDoings, ImportDos DEF CheckUnit, Advance, Skip
    <2>3. "known" \in PodStages /\ e \in DosOf(Main) \cup {<<>>}
      BY <2>2, ImportDos DEF PodStages, DosOf
    <2>4. e \in Imports \cup Prunes \cup {<<>>} /\ (e \in Prunes => Task(Main).do \in Prunes)
      BY <1>0, <2>1, <2>2, MainDoings, ImportDos
    <2>. QED
      BY <2>1, <2>2, <2>3, <2>4, AccountQuiet
  <1>. QED
    BY <1>1, <1>2

LEMMA AccountImportPod ==
  ASSUME TypeInv, NEW c \in Actors, c # Main, Actors = {c, Main}, AccountInv(c), ImportPod(Main)
  PROVE  AccountInv(c)'
  <1>0. TodoType /\ StateType /\ Main \in Actors /\ MainImports /\ Owns /\ ListInv(c)
    BY TypeParts, AccountParts DEF Actors
  <1>1. Doing(Main, "pod") /\ "pod" \in PodStages /\ UNCHANGED <<deps, file, unit, up, failed>>
    BY DEF ImportPod, PodStages, host
  <1>2. PICK e : e = <<>> /\ Continue(Main, e, <<>>)
    BY <1>0, <1>1, MainDoings, ImportDos DEF ImportPod, Advance
  <1>3. e \in DosOf(Main) \cup {<<>>} /\ e \in Imports \cup Prunes \cup {<<>>} /\ e \notin Prunes
    BY <1>2, ImportDos
  <1>4. PICK x \in Pods : x = Task(Main).pod
    BY <1>0, <1>1, PodStage
  <1>5. CASE Stored(x)
    <2>1. pods' = pods /\ revived' = revived
      BY <1>4, <1>5 DEF ImportPod
    <2>. QED
      BY <1>1, <1>2, <1>3, <2>1, AccountQuiet
  <1>6. CASE ~Stored(x)
    <2>1. PICK v : v = [t |-> Stub, owned |-> x \in Instances]
      OBVIOUS
    <2>2. pods' = [pods EXCEPT ![x] = v]
      BY <1>4, <1>6, <2>1 DEF ImportPod
    <2>3. revived' = IF unit[x] # Absent THEN revived ELSE revived \cup {x}
      BY <1>4, <1>6 DEF ImportPod
    <2>4. pods'[x] = v /\ v.t = Stub /\ (v.owned => x \in Instances)
      BY <1>0, <2>1, <2>2 DEF StateType
    <2>5. \A p \in Pods : p # x => /\ pods'[p] = pods[p] /\ file'[p] = file[p] /\ unit'[p] = unit[p]
                                   /\ p \in revived => p \in revived'
      BY <1>0, <1>1, <2>2, <2>3 DEF StateType
    <2>6. ASSUME x \notin failed' PROVE PodAccounted(c, x)'
      <3>1. PodAccounted(c, x)
        BY <1>1, <2>6, AccountParts
      <3>2. SameWork(c, x) /\ (Removed(c, x) => Removed(c, x)') /\ (Kept(c, x) => Kept(c, x)')
        BY <1>1, <1>2, <1>3, <1>6, AtImport
      <3>3. PICK u : u = Stub
        OBVIOUS
      <3>4. PodAccounted(c, x) <=> AccountOf(c, x, u)
        BY <1>6, NowIs, Zenon
      <3>5. PodAccounted(c, x)' <=> AccountOf(c, x, u)'
        <4>1. u = pods'[x].t
          BY <2>4, <3>3
        <4>. QED
          BY <4>1, NextIs, Zenon
      <3>6. /\ Work(c, Stops, x)' <=> Work(c, Stops, x)
            /\ Work(c, Unlinks, x)' <=> Work(c, Unlinks, x)
            /\ Work(c, Drops, x)' <=> Work(c, Drops, x)
            /\ Work(c, Starts \cup Restarts, x)' <=> Work(c, Starts \cup Restarts, x)
            /\ Work(c, Deploys, x)' <=> Work(c, Deploys, x)
            /\ Work(c, Fresh, x)' <=> Work(c, Fresh, x)
            /\ Work(c, Starts, x)' <=> Work(c, Starts, x)
            /\ \A t : WorkAs(c, Written, x, t)' <=> WorkAs(c, Written, x, t)
            /\ Busy(c, Purges)' <=> Busy(c, Purges)
        BY <3>2, SameIs, Zenon
      <3>7. /\ Work(c, Stops \cup Unlinks, x) => Work(c, Drops, x) \/ Busy(c, Purges)
            /\ Removed(c, x) => Busy(c, Purges)
        BY <1>0, Goings
      <3>8. Work(c, Stops, x) => Work(c, Stops \cup Unlinks, x)
        BY DEF Work, Does
      <3>9. x \notin revived' => unit[x] # Absent
        BY <2>3
      <3>10. Stored(x)' /\ x \notin revived' => Kept(c, x)' \/ Work(c, Drops, x)' \/ Busy(c, Purges)'
        BY <3>1, <3>2, <3>4, <3>6, <3>7, <3>8, <3>9, Zenon DEF AccountOf
      <3>11. file'[x] = file[x] /\ unit'[x] = unit[x]
        BY <1>1
      <3>. QED
        BY <3>1, <3>2, <3>3, <3>4, <3>5, <3>6, <3>10, <3>11, Zenon DEF AccountOf
    <2>7. Stored(x)' /\ pods'[x].owned => x \in Instances
      BY <2>4
    <2>8. deps' = deps /\ up' = up /\ failed \subseteq failed'
      BY <1>1
    <2>. QED
      BY <1>1, <1>2, <1>3, <1>4, <2>5, <2>6, <2>7, <2>8, AccountByMain
  <1>. QED
    BY <1>5, <1>6

LEMMA AccountPrunePod ==
  ASSUME TypeInv, NEW c \in Actors, c # Main, Actors = {c, Main}, AccountInv(c), PrunePod(Main)
  PROVE  AccountInv(c)'
  <1>0. TodoType /\ StateType /\ Main \in Actors /\ MainImports /\ Owns /\ ListInv(c)
    BY TypeParts, AccountParts DEF Actors
  <1>1. Doing(Main, "prune") /\ "prune" \in PodStages /\ UNCHANGED <<deps, file, unit, up, failed>>
    BY DEF PrunePod, PodStages, host
  <1>2. PICK e : e = <<>> /\ Continue(Main, e, <<>>)
    BY <1>0, <1>1, MainDoings, ImportDos DEF PrunePod, Advance
  <1>3. e \in DosOf(Main) \cup {<<>>} /\ e \in Imports \cup Prunes \cup {<<>>} /\ e \notin Prunes
    BY <1>2, ImportDos
  <1>4. PICK x \in Pods : x = Task(Main).pod
    BY <1>0, <1>1, PodStage
  <1>5. x \in Instances
    <2>1. Task(Main) = todo[Main][1] /\ 1 \in DOMAIN todo[Main] /\ Task(Main).do \in Prunes
      BY <1>0, <1>1, FirstTask, MainDoings, ImportDos
    <2>. QED
      BY <1>0, <1>4, <2>1 DEF MainImports, Does
  <1>6. pods' = [pods EXCEPT ![x] = Absent] /\ revived' = revived \ {x}
    BY <1>4 DEF PrunePod
  <1>7. ~Stored(x)'
    BY <1>0, <1>6 DEF StateType, Stored
  <1>8. \A p \in Pods : p # x => /\ pods'[p] = pods[p] /\ file'[p] = file[p] /\ unit'[p] = unit[p]
                                 /\ p \in revived => p \in revived'
    BY <1>0, <1>1, <1>6 DEF StateType
  <1>9. ASSUME x \notin failed' PROVE PodAccounted(c, x)'
    <2>1. PodAccounted(c, x)
      BY <1>1, <1>9, AccountParts
    <2>2. SameWork(c, x) /\ (Removed(c, x) => Removed(c, x)') /\ (Asked(c, x) => Asked(c, x)')
      BY <1>1, <1>2, <1>3, AtImport
    <2>3. Kept(c, x) => Kept(c, x)'
      <3>1. x \notin Standalone
        BY <1>5, NamesAssumption
      <3>. QED
        BY <2>2, <3>1 DEF Kept
    <2>4. PICK u : u = pods[x].t
      OBVIOUS
    <2>5. PodAccounted(c, x) <=> AccountOf(c, x, u)
      BY <2>4, NowIs, Zenon
    <2>6. PodAccounted(c, x)' <=> AccountOf(c, x, u)'
      BY <1>7, NextIs, Zenon
    <2>7. /\ Work(c, Stops, x)' <=> Work(c, Stops, x)
          /\ Work(c, Unlinks, x)' <=> Work(c, Unlinks, x)
          /\ Work(c, Starts \cup Restarts, x)' <=> Work(c, Starts \cup Restarts, x)
          /\ Work(c, Deploys, x)' <=> Work(c, Deploys, x)
          /\ Work(c, Fresh, x)' <=> Work(c, Fresh, x)
          /\ Work(c, Starts, x)' <=> Work(c, Starts, x)
          /\ \A t : WorkAs(c, Written, x, t)' <=> WorkAs(c, Written, x, t)
      BY <2>2, SameIs, Zenon
    <2>8. file'[x] = file[x] /\ unit'[x] = unit[x]
      BY <1>1
    <2>. QED
      BY <1>7, <2>1, <2>2, <2>3, <2>5, <2>6, <2>7, <2>8, Zenon DEF AccountOf
  <1>10. Stored(x)' /\ pods'[x].owned => x \in Instances
    BY <1>7
  <1>11. deps' = deps /\ up' = up /\ failed \subseteq failed'
    BY <1>1
  <1>. QED
    BY <1>1, <1>2, <1>3, <1>4, <1>8, <1>9, <1>10, <1>11, AccountByMain

(* What a client has to do is what it had to do, and Deployments only come *)
(* to be.                                                                  *)
LEMMA AccountPass ==
  ASSUME TypeInv, NEW c \in Actors, c # Main, AccountInv(c), todo'[c] = todo[c],
         UNCHANGED <<pods, file, unit, up, failed, revived>>,
         \A d \in Deps : deps[d] # Absent => deps'[d] = deps[d], MainImports'
  PROVE  AccountInv(c)'
  <1>0. TodoType /\ up' /\ ListInv(c) /\ StopsFirst(c) /\ Owns
    BY TypeParts, AccountParts
  <1>1. ListInv(c)' /\ StopsFirst(c)'
    <2>1. ListInv(c)'
      BY ListFrame, <1>0, Zenon
    <2>. QED
      BY <1>0, <2>1, StopsFrame, Zenon
  <1>2. Owns'
    BY <1>0 DEF Owns, Stored
  <1>3. \A d \in Deps : Desired(d) \subseteq Desired(d)'
    <2>1. ASSUME NEW d \in Deps PROVE Desired(d) \subseteq Desired(d)'
      <3>1. CASE deps[d] = Absent
        BY <3>1 DEF Desired
      <3>2. CASE deps[d] # Absent
        <4>1. deps'[d] = deps[d]
          BY <3>2
        <4>. QED
          BY <4>1 DEF Desired
      <3>. QED
        BY <3>1, <3>2
    <2>. QED
      BY <2>1
  <1>4. /\ \A dos : Busy(c, dos)' <=> Busy(c, dos)
        /\ \A dos, d : WorkOn(c, dos, d)' <=> WorkOn(c, dos, d)
        /\ \A dos, p : Work(c, dos, p)' <=> Work(c, dos, p)
        /\ \A dos, p, t : WorkAs(c, dos, p, t)' <=> WorkAs(c, dos, p, t)
    BY Zenon DEF Busy, WorkOn, Work, WorkAs, Does
  <1>5. ASSUME NEW p \in Pods, p \notin failed' PROVE PodAccounted(c, p)'
    <2>1. PodAccounted(c, p)
      BY <1>5, AccountParts
    <2>2. SameWork(c, p)
      BY <1>4, Zenon DEF SameWork
    <2>3. Asked(c, p) => Asked(c, p)'
      BY <1>3, <1>4 DEF Asked
    <2>4. Removed(c, p) => Removed(c, p)'
      <3>1. \A d \in Deps : p \in Desired(d) /\ Busy(c, PurgeAll) => p \in Desired(d)' /\ Busy(c, PurgeAll)'
        BY <1>3, <1>4
      <3>. QED
        BY <3>1, Zenon DEF Removed, Does
    <2>5. Kept(c, p) => Kept(c, p)'
      <3>1. Stored(p) => Stored(p)'
        BY DEF Stored
      <3>. QED
        BY <2>2, <2>3, <3>1, KeptFrame, Zenon
    <2>6. pods'[p] = pods[p] /\ file'[p] = file[p] /\ unit'[p] = unit[p] /\ (p \in revived => p \in revived')
      OBVIOUS
    <2>. QED
      BY <2>1, <2>2, <2>4, <2>5, <2>6, AccountFrame, Zenon
  <1>. QED
    BY <1>0, <1>1, <1>2, <1>5, AccountParts, Zenon

LEMMA AccountImportDeployment ==
  ASSUME TypeInv, NEW c \in Actors, c # Main, Actors = {c, Main}, AccountInv(c), ImportDeployment(Main)
  PROVE  AccountInv(c)'
  <1>0. TodoType /\ StateType /\ Main \in Actors /\ MainImports
    BY TypeParts, AccountParts DEF Actors
  <1>1. Doing(Main, "dep") /\ "dep" \in PodStages /\ UNCHANGED <<pods, file, unit, up, failed, revived>>
    BY DEF ImportDeployment, PodStages, host
  <1>2. todo'[c] = todo[c]
    BY <1>0, <1>1, PodGoesOn DEF ImportDeployment
  <1>3. PICK e : e = <<"pod">> /\ Continue(Main, e, <<>>)
    BY <1>0, <1>1, MainDoings, ImportDos DEF ImportDeployment, Advance
  <1>4. PICK x : x = Task(Main).pod
    OBVIOUS
  <1>5. e \in DosOf(Main) \cup {<<>>} /\ e \in Imports \cup Prunes \cup {<<>>} /\ e \notin Prunes
    BY <1>3, ImportDos DEF DosOf
  <1>6. MainImports'
    BY <1>0, <1>1, <1>3, <1>4, <1>5, MainImportsStay
  <1>7. \A d \in Deps : deps[d] # Absent => deps'[d] = deps[d]
    BY DEF ImportDeployment
  <1>. QED
    BY <1>1, <1>2, <1>6, <1>7, AccountPass

LEMMA AccountPruneCandidates ==
  ASSUME TypeInv, NEW c \in Actors, c # Main, Actors = {c, Main}, AccountInv(c), PruneCandidates(Main)
  PROVE  AccountInv(c)'
  <1>0. TodoType /\ StateType /\ Main \in Actors /\ MainImports /\ Owns
    BY TypeParts, AccountParts DEF Actors
  <1>1. Doing(Main, "allPods") /\ UNCHANGED <<deps, pods, file, unit, up, failed, revived>>
    BY DEF PruneCandidates, store, host, history
  <1>2. PICK S : S = {p \in Pods \ Task(Main).seen : Stored(p) /\ pods[p].owned}
    OBVIOUS
  <1>3. S \in SUBSET Pods /\ \A p \in S : p \in Instances
    BY <1>0, <1>2 DEF Owns
  <1>4. PICK ps \in Orders(S) : Continue(Main, <<>>, Each(<<"known", "prune">>, ps))
    BY <1>2 DEF PruneCandidates
  <1>5. ps \in Seq(S) /\ ps \in Seq(Pods)
    BY <1>3, <1>4, PodOrders
  <1>6. PICK q : q = Each(<<"known", "prune">>, ps)
    OBVIOUS
  <1>7. q \in Seq(PodTasks({<<"known", "prune">>})) /\ IsEach(q, <<"known", "prune">>, ps)
    BY <1>5, <1>6, EachAre
  <1>8. q \in Seq(TasksOf(Main))
    <2>1. PodTasks({<<"known", "prune">>}) \subseteq TasksOf(Main)
      BY ImportDos DEF PodTasks, TasksOf, MainTasks
    <2>. QED
      BY <1>7, <2>1
  <1>9. Continue(Main, <<>>, q)
    BY <1>4, <1>6
  <1>10. /\ \A b \in Actors \ {Main} : todo'[b] = todo[b]
         /\ DOMAIN todo'[Main] = 1..Len(todo'[Main]) /\ Len(todo'[Main]) = Len(q) + Len(todo[Main]) - 1
         /\ \A j \in 1..Len(q) : j \in DOMAIN todo'[Main] /\ todo'[Main][j] = q[j]
         /\ \A j \in DOMAIN todo'[Main] : j > Len(q) =>
              /\ j - Len(q) + 1 \in 2..Len(todo[Main])
              /\ todo'[Main][j] = todo[Main][j - Len(q) + 1]
    BY <1>0, <1>1, <1>8, <1>9, MoreStays
  <1>11. MainImports'
    <2> DEFINE r == todo'[Main]
    <2>1. ASSUME NEW j \in DOMAIN r
          PROVE  /\ r[j].do \in Imports \cup Prunes \cup {<<"allPods">>}
                 /\ r[j].do \in Prunes => r[j].pod \in Instances
      <3>0. Len(q) \in Nat /\ Len(q) = Len(ps) /\ Len(todo'[Main]) \in Int
        BY <1>7, <1>10, <1>0, FirstTask DEF IsEach
      <3>1. CASE j > Len(q)
        <4>1. PICK i \in DOMAIN todo[Main] : r[j] = todo[Main][i]
          BY <1>0, <1>1, <1>10, <2>1, <3>1, FirstTask
        <4>. QED
          BY <1>0, <4>1 DEF MainImports, Does
      <3>2. CASE ~(j > Len(q))
        <4>1. j \in 1..Len(q)
          BY <1>10, <2>1, <3>0, <3>2
        <4>2. r[j] = q[j]
          BY <1>10, <4>1
        <4>3. q[j].do = <<"known", "prune">> /\ q[j].pod = ps[j]
          BY <1>7, <3>0, <4>1 DEF IsEach
        <4>4. ps[j] \in Instances
          BY <1>3, <1>5, <3>0, <4>1
        <4>. QED
          BY <4>2, <4>3, <4>4, ImportDos
      <3>. QED
        BY <3>1, <3>2
    <2>. QED
      BY <2>1 DEF MainImports, Does
  <1>. QED
    BY <1>1, <1>10, <1>11, AccountPass

LEMMA AccountListOwned ==
  ASSUME TypeInv, NEW c \in Actors, c # Main, Actors = {c, Main}, AccountInv(c), ListOwned
  PROVE  AccountInv(c)'
  <1>0. TodoType /\ StateType /\ Main \in Actors
    BY TypeParts DEF Actors
  <1>1. UNCHANGED <<deps, pods, file, unit, up, failed, revived>>
    BY DEF ListOwned, store, host, history
  <1>2. PICK seen \in SUBSET Pods : \E ps \in Orders(seen) :
          todo' = [todo EXCEPT ![Main] =
                     Each(<<"ns", "dep", "pod">>, ps) \o <<[do |-> <<"allPods">>, seen |-> seen]>>]
    <2>1. PICK flap \in SUBSET Flapping :
            \E ps \in Orders({p \in Pods : unit[p] # Absent} \ flap) :
              todo' = [todo EXCEPT ![Main] =
                         Each(<<"ns", "dep", "pod">>, ps)
                           \o <<[do |-> <<"allPods">>, seen |-> {p \in Pods : unit[p] # Absent} \ flap]>>]
      BY DEF ListOwned
    <2>2. {p \in Pods : unit[p] # Absent} \ flap \in SUBSET Pods
      OBVIOUS
    <2>. QED
      BY <2>1, <2>2
  <1>a. PICK ps \in Orders(seen) :
          todo' = [todo EXCEPT ![Main] =
                     Each(<<"ns", "dep", "pod">>, ps) \o <<[do |-> <<"allPods">>, seen |-> seen]>>]
    BY <1>2
  <1>3. ps \in Seq(Pods)
    BY <1>a, PodOrders
  <1>4. PICK q : q = Each(<<"ns", "dep", "pod">>, ps)
    OBVIOUS
  <1>5. PICK x : x = [do |-> <<"allPods">>, seen |-> seen]
    OBVIOUS
  <1>6. q \in Seq(PodTasks({<<"ns", "dep", "pod">>})) /\ IsEach(q, <<"ns", "dep", "pod">>, ps)
    BY <1>3, <1>4, EachAre
  <1>7. InEnd(q \o <<x>>, q, x)
    <2>1. PICK S : S = PodTasks({<<"ns", "dep", "pod">>}) \cup {x}
      OBVIOUS
    <2>2. q \in Seq(S) /\ x \in S
      BY <1>6, <2>1
    <2>. QED
      BY <2>2, EndIs
  <1>8. todo' = [todo EXCEPT ![Main] = q \o <<x>>]
    BY <1>a, <1>4, <1>5
  <1>9. todo'[Main] = q \o <<x>> /\ todo'[c] = todo[c]
    BY <1>0, <1>8 DEF TodoType
  <1>10. MainImports'
    <2> DEFINE r == todo'[Main]
    <2>0. InEnd(r, q, x)
      BY <1>7, <1>9
    <2> HIDE DEF r
    <2>1. ASSUME NEW j \in DOMAIN r
          PROVE  /\ r[j].do \in Imports \cup Prunes \cup {<<"allPods">>}
                 /\ r[j].do \in Prunes => r[j].pod \in Instances
      <3>1. Len(q) \in Nat /\ Len(q) = Len(ps)
        BY <1>6 DEF IsEach
      <3>2. j \in 1..Len(q) \/ j = Len(q) + 1
        BY <2>0, <2>1, <3>1 DEF InEnd
      <3>3. CASE j \in 1..Len(q)
        <4>1. r[j] = q[j] /\ q[j].do = <<"ns", "dep", "pod">>
          BY <1>6, <2>0, <3>1, <3>3 DEF InEnd, IsEach
        <4>2. <<"ns", "dep", "pod">> \in Imports
          BY DEF Imports
        <4>. QED
          BY <4>1, <4>2, ImportDos
      <3>4. CASE j = Len(q) + 1
        <4>1. r[j].do = <<"allPods">>
          BY <1>5, <2>0, <3>4 DEF InEnd
        <4>. QED
          BY <4>1, ImportDos
      <3>. QED
        BY <3>2, <3>3, <3>4
    <2>. QED
      BY <2>1 DEF MainImports, Does, r
  <1>. QED
    BY <1>1, <1>9, <1>10, AccountPass

LEMMA AccountStutters ==
  ASSUME TypeInv, NEW c \in Actors, c # Main, AccountInv(c), UNCHANGED vars
  PROVE  AccountInv(c)'
  <1>1. UNCHANGED <<deps, pods, file, unit, up, failed, revived, todo>>
    BY DEF vars, store, host, history
  <1>2. MainImports'
    BY <1>1, AccountParts DEF MainImports, Does
  <1>. QED
    BY <1>1, <1>2, AccountPass

LEMMA AccountMainSteps ==
  ASSUME TypeInv, NEW c \in Actors, c # Main, Actors = {c, Main}, AccountInv(c), Step(Main)
  PROVE  AccountInv(c)'
  <1>0. TodoType /\ Main \in Actors /\ MainImports
    BY TypeParts, AccountParts DEF Actors
  <1>1. \A s : s \notin {"ns", "dep", "pod", "known", "prune", "allPods"} => ~Doing(Main, s)
    BY <1>0, MainDoings
  <1>2. ~Sync(Main) /\ ~CreateInstance(Main) /\ ~Run(Main)
    BY <1>1 DEF Sync, CreateInstance, Run
  <1>3. ~BootDeps(Main) /\ ~RestoreReplicas(Main) /\ ~BootPods(Main) /\ ~Regenerate(Main) /\ ~Rewrite(Main)
    BY <1>1 DEF BootDeps, RestoreReplicas, BootPods, Regenerate, Rewrite
  <1>4. \/ ImportIntoNamespace(Main) \/ ImportDeployment(Main) \/ ImportPod(Main)
        \/ PruneCandidates(Main) \/ CheckUnit(Main) \/ PrunePod(Main)
    BY <1>0, <1>2, <1>3, StepsOf, Zenon
  <1>5. /\ ImportIntoNamespace(Main) => AccountInv(c)'
        /\ CheckUnit(Main) => AccountInv(c)'
    BY AccountQuietSteps
  <1>6. ImportDeployment(Main) => AccountInv(c)'
    BY AccountImportDeployment
  <1>7. ImportPod(Main) => AccountInv(c)'
    BY AccountImportPod
  <1>8. PruneCandidates(Main) => AccountInv(c)'
    BY AccountPruneCandidates
  <1>9. PrunePod(Main) => AccountInv(c)'
    BY AccountPrunePod
  <1>. QED
    BY <1>4, <1>5, <1>6, <1>7, <1>8, <1>9

---------------------------------------------------------------------------
(* A pod nothing is to be done about. *)
Peace(c, p, u) ==
  /\ unit[p] # Absent => Kept(c, p)
  /\ file[p] # Absent => Kept(c, p)
  /\ Stored(p) /\ p \notin revived => Kept(c, p)
  /\ Stored(p) /\ u # Stub => file[p] = u
  /\ file[p] # Absent => unit[p] = file[p]

LEMMA PeaceNow ==
  ASSUME NEW c, NEW p, NEW u, Stored(p) => u = pods[p].t, PodAccounted(c, p),
         \A dos : dos \subseteq AllDos => ~Work(c, dos, p), ~Busy(c, Purges), ~Removed(c, p)
  PROVE  Peace(c, p, u)
  <1>1. ~Work(c, Deploys, p) /\ ~Work(c, Stops, p) /\ ~Work(c, Unlinks, p) /\ ~Work(c, Drops, p)
    BY FamiliesOfPods, MoreFamilies, Zenon
  <1>2. Rests(c, p, u)
    BY <1>1, RestsNow
  <1>. QED
    BY <1>1, <1>2 DEF Rests, Peace

LEMMA PeaceNext ==
  ASSUME NEW c, NEW p, NEW u, Stored(p)' => u = pods'[p].t, Peace(c, p, u)', ~Work(c, Deploys, p)'
  PROVE  PodAccounted(c, p)'
  <1>1. Rests(c, p, u)'
    BY DEF Rests, Peace
  <1>. QED
    BY <1>1, RestsNext

(* A request starts, or goes on, with another list. *)
LEMMA AccountAnew ==
  ASSUME TypeInv, NEW c, AccountInv(c), ListInv(c)', StopsFirst(c)', todo'[Main] = todo[Main],
         UNCHANGED <<up, failed>>, Owns',
         \A p \in Pods : p \notin failed => PodAccounted(c, p)'
  PROVE  AccountInv(c)'
  <1>1. MainImports'
    BY AccountParts DEF MainImports, Does
  <1>2. up'
    BY AccountParts
  <1>. QED
    BY <1>1, <1>2, AccountParts, Zenon

LEMMA NothingFirst ==
  ASSUME NEW c
  PROVE  /\ (\A p : ~Work(c, Goes, p)') => StopsFirst(c)'
         /\ todo'[c] = <<>> => ListInv(c)' /\ StopsFirst(c)'
  <1>1. ASSUME \A p : ~Work(c, Goes, p)' PROVE StopsFirst(c)'
    <2>1. \A j \in DOMAIN todo'[c] : todo'[c][j].do \notin Goes
      BY <1>1 DEF Work, Does
    <2>2. \A j \in DOMAIN todo'[c] : todo'[c][j].do \notin Stops /\ todo'[c][j].do \notin Unlinks
      BY <2>1 DEF Goes
    <2>. QED
      BY <2>1, <2>2 DEF StopsFirst, Work, Does
  <1>2. ASSUME todo'[c] = <<>> PROVE ListInv(c)' /\ StopsFirst(c)'
    <2>1. DeployList(c)' /\ \A dos, p : ~Work(c, dos, p)'
      BY <1>2, NothingToDo
    <2>. QED
      BY <1>1, <2>1 DEF ListInv
  <1>. QED
    BY <1>1, <1>2

(* The last task of a request. *)
LEMMA AccountLast ==
  ASSUME TypeInv, NEW c \in Actors, c # Main, Main \in Actors, AccountInv(c),
         NEW s, Doing(c, s), Tail(Task(c).do) = <<>>, Task(c).do \in {<<"dropDep">>, <<"dropNs">>},
         Advance(c), UNCHANGED <<pods, file, unit, up, failed, revived>>,
         \A d \in Deps : deps'[d] = deps[d] \/ (Task(c).do = <<"dropDep">> /\ Task(c).dep = d)
  PROVE  AccountInv(c)'
  <1>0. TodoType /\ ListInv(c) /\ Owns
    BY TypeParts, AccountParts
  <1>1. PICK do \in {<<"dropDep">>, <<"dropNs">>} : do = Task(c).do
    OBVIOUS
  <1>2. do \in Finals /\ do \notin Purges /\ do \notin PurgeAll /\ do # <<"remove">> /\ do \notin AllDos
    BY <1>1, FinalDos
  <1>3. /\ todo'[c] = <<>> /\ todo'[Main] = todo[Main]
        /\ \A dos : Busy(c, dos) <=> do \in dos
        /\ \A dos, p : Work(c, dos, p) <=> do \in dos /\ Task(c).pod = p
        /\ \A dos, d : WorkOn(c, dos, d) <=> do \in dos /\ Task(c).dep = d
    <2>1. Task(c).do \in Finals
      BY <1>1, <1>2
    <2>2. /\ todo'[c] = <<>> /\ todo'[Main] = todo[Main]
          /\ \A dos : Busy(c, dos) <=> Task(c).do \in dos
          /\ \A dos, p : Work(c, dos, p) <=> Task(c).do \in dos /\ Task(c).pod = p
          /\ \A dos, d : WorkOn(c, dos, d) <=> Task(c).do \in dos /\ Task(c).dep = d
      BY <1>0, <2>1, LastIs
    <2>. QED
      BY <1>1, <2>2, Zenon
  <1>4. ListInv(c)' /\ StopsFirst(c)'
    BY <1>3, NothingFirst
  <1>5. Owns'
    BY <1>0 DEF Owns, Stored
  <1>6. /\ \A dos : ~Busy(c, dos)'
        /\ \A dos, p : ~Work(c, dos, p)' /\ ~WorkOn(c, dos, p)'
    BY <1>3, NothingToDo
  <1>7. ~Busy(c, Purges) /\ ~Busy(c, PurgeAll) /\ ~Busy(c, {<<"remove">>})
    BY <1>2, <1>3
  <1>8. \A p : \A dos : dos \subseteq AllDos => ~Work(c, dos, p)
    BY <1>2, <1>3
  <1>9. \A p : ~Removed(c, p)
    BY <1>7 DEF Removed, Busy
  <1>10. ASSUME NEW p \in Pods, p \notin failed PROVE PodAccounted(c, p)'
    <2>1. PICK u : u = pods[p].t
      OBVIOUS
    <2>2. PodAccounted(c, p)
      BY <1>10, AccountParts
    <2>3. Peace(c, p, u)
      BY <1>7, <1>8, <1>9, <2>1, <2>2, PeaceNow
    <2>4. Asked(c, p) => Asked(c, p)'
      <3>1. ASSUME NEW d \in Deps, p \in Desired(d), ~WorkOn(c, {<<"dropDep">>}, d) PROVE Asked(c, p)'
        <4>1. deps'[d] = deps[d]
          BY <1>1, <1>3, <3>1
        <4>2. p \in Desired(d)'
          BY <3>1, <4>1 DEF Desired
        <4>. QED
          BY <1>6, <4>2 DEF Asked
      <3>. QED
        BY <3>1 DEF Asked
    <2>5. Kept(c, p) => Kept(c, p)'
      BY <1>6, <2>4 DEF Kept, Stored
    <2>6. Peace(c, p, u)'
      BY <2>3, <2>5 DEF Peace, Stored
    <2>7. u = pods'[p].t
      BY <2>1
    <2>. QED
      BY <1>6, <2>6, <2>7, PeaceNext
  <1>. QED
    BY <1>3, <1>4, <1>5, <1>10, AccountAnew

LEMMA AccountDrops ==
  ASSUME TypeInv, NEW c \in Actors, c # Main, Main \in Actors, AccountInv(c)
  PROVE  /\ DropDeployment(c) => AccountInv(c)'
         /\ DropNamespace(c) => AccountInv(c)'
  <1>0. TodoType /\ StateType
    BY TypeParts
  <1>1. ASSUME DropDeployment(c) PROVE AccountInv(c)'
    <2>1. Doing(c, "dropDep") /\ Task(c) \in [do : {<<"dropDep">>}, dep : Deps]
      BY <1>0, <1>1, PlainStage DEF DropDeployment
    <2>2. Task(c).do = <<"dropDep">>
      BY <2>1
    <2>3. Tail(Task(c).do) = <<>> /\ Advance(c) /\ UNCHANGED <<pods, file, unit, up, failed, revived>>
      BY <1>1, <2>2, ShortTails DEF DropDeployment, host, history
    <2>4. \A d \in Deps : deps'[d] = deps[d] \/ (Task(c).do = <<"dropDep">> /\ Task(c).dep = d)
      BY <1>0, <1>1, <2>2 DEF DropDeployment, StateType
    <2>. QED
      BY <2>1, <2>2, <2>3, <2>4, AccountLast
  <1>2. ASSUME DropNamespace(c) PROVE AccountInv(c)'
    <2>1. Doing(c, "dropNs") /\ Task(c) \in [do : {<<"dropNs">>}]
      BY <1>0, <1>2, PlainStage DEF DropNamespace
    <2>2. Task(c).do = <<"dropNs">>
      BY <2>1
    <2>3. Tail(Task(c).do) = <<>> /\ Advance(c) /\ UNCHANGED <<deps, pods, file, unit, up, failed, revived>>
      BY <1>2, <2>2, ShortTails DEF DropNamespace, host, history
    <2>. QED
      BY <2>1, <2>2, <2>3, AccountLast
  <1>. QED
    BY <1>1, <1>2

(* A list that takes each of its pods away at once. *)
LEMMA OnceStops ==
  ASSUME NEW c, NEW ps, Once(ps), DOMAIN todo'[c] \subseteq Int,
         \A j \in DOMAIN todo'[c] :
           \/ todo'[c][j].do \in Goes /\ todo'[c][j].do \in Unlinks
              /\ j \in 1..Len(ps) /\ todo'[c][j].pod = ps[j]
           \/ todo'[c][j].do \in Finals
  PROVE  StopsFirst(c)'
  <1> DEFINE r == todo'[c]
  <1>0. \A do \in Finals : do \notin Goes /\ do \notin Stops /\ do \notin Unlinks
    BY FinalDos, FamiliesOfPods, MoreFamilies
  <1>a. \A do \in Goes \cup Finals : do # <<"remove">>
    BY FinalDos, MoreFamilies
  <1>1. ASSUME NEW i \in DOMAIN r, NEW j \in DOMAIN r, i # j,
               r[i].do \in Unlinks, r[j].do \in Stops
        PROVE  r[i].pod # r[j].pod
    <2>1. i \in 1..Len(ps) /\ j \in 1..Len(ps) /\ r[i].pod = ps[i] /\ r[j].pod = ps[j]
      BY <1>0, <1>1
    <2>. QED
      BY <1>1, <2>1 DEF Once
  <1>2. \A i, j \in DOMAIN r : i < j => i # j
    OBVIOUS
  <1>3. \A j \in DOMAIN r : r[j].do # <<"remove">>
    BY <1>a
  <1>4. \A p : \A j \in DOMAIN r : r[j].do \in Stops /\ r[j].pod = p => r[j].do \in Unlinks
    BY <1>0
  <1> HIDE DEF r
  <1>. QED
    BY <1>1, <1>2, <1>3, <1>4, Zenon DEF StopsFirst, Does, Work, r

LEMMA AccountPurge ==
  ASSUME TypeInv, NEW c \in Actors, c # Main, Main \in Actors, AccountInv(c), Purge(c)
  PROVE  AccountInv(c)'
  <1>0. TodoType /\ StateType /\ ListInv(c)
    BY TypeParts, AccountParts
  <1>1. /\ GoList(c)' /\ todo'[Main] = todo[Main]
        /\ \A dos : dos \subseteq AllDos => \A p : ~Work(c, dos, p)'
        /\ \A dos : Busy(c, dos) <=> <<"purge", "dropNs">> \in dos
        /\ \A dos, p : Work(c, dos, p) => <<"purge", "dropNs">> \in dos
    BY <1>0, PurgeIs
  <1>2. UNCHANGED <<up, failed, file, unit>>
    BY DEF Purge, host
  <1>3. /\ Busy(c, Purges) /\ ~Busy(c, PurgeAll) /\ ~Busy(c, {<<"remove">>})
    BY <1>1, FinalDos
  <1>4. <<"purge", "dropNs">> \notin AllDos
    BY FinalDos
  <1>5. \A p : ~Kept(c, p) /\ ~Removed(c, p)
    BY <1>3 DEF Kept, Asked, Removed, Busy
  <1>6. \A p \in Pods : ~Stored(p)'
    BY DEF Purge, Stored
  <1>7. ListInv(c)' /\ StopsFirst(c)' /\ Owns'
    BY <1>1, <1>6, NothingFirst, MoreFamilies DEF ListInv, Owns
  <1>8. ASSUME NEW p \in Pods, p \notin failed PROVE PodAccounted(c, p)'
    <2>1. PodAccounted(c, p)
      BY <1>8, AccountParts
    <2>2. ~Work(c, Deploys, p) /\ ~Work(c, Stops, p) /\ ~Work(c, Unlinks, p)
      BY <1>1, <1>4, FamiliesOfPods, MoreFamilies, Zenon
    <2>3. PICK u : u = pods[p].t
      OBVIOUS
    <2>4. Rests(c, p, u)
      BY <2>1, <2>2, <2>3, RestsNow
    <2>5. unit[p] = Absent /\ file[p] = Absent
      BY <1>5, <2>2, <2>4 DEF Rests
    <2>6. Rests(c, p, u)' /\ ~Work(c, Deploys, p)'
      BY <1>1, <1>2, <1>6, <2>5, MoreFamilies DEF Rests
    <2>. QED
      BY <1>6, <2>6, RestsNext
  <1>. QED
    BY <1>1, <1>2, <1>7, <1>8, AccountAnew

LEMMA AccountPurgeDeployments ==
  ASSUME TypeInv, NEW c \in Actors, c # Main, Main \in Actors, AccountInv(c), PurgeDeployments(c)
  PROVE  AccountInv(c)'
  <1>0. TodoType /\ StateType /\ ListInv(c) /\ Owns
    BY TypeParts, AccountParts
  <1>1. /\ GoList(c)' /\ Busy(c, Purges)' /\ (\A b \in Actors \ {c} : todo'[b] = todo[b])
        /\ Len(todo[c]) = 1 /\ Task(c).do \in PurgeAll
        /\ \A d \in Deps : deps[d] # Absent => \E j \in DOMAIN todo'[c] :
             todo'[c][j].do = <<"remove">> /\ todo'[c][j].dep = d /\ todo'[c][j].n = deps[d].n
        /\ \A p : ~Work(c, Goes, p)'
    BY <1>0, RemovalsIs
  <1>2. UNCHANGED <<ns, deps, pods, file, unit, up, failed, revived>>
    BY DEF PurgeDeployments, store, host, history
  <1>3. PICK do \in PurgeAll : do = Task(c).do
    BY <1>1
  <1>4. do \in Purges /\ do # <<"remove">> /\ do \notin AllDos
    BY <1>3, FinalDos
  <1>5. Doing(c, "purgeDeps")
    BY DEF PurgeDeployments
  <1>6. /\ \A dos : Busy(c, dos) <=> do \in dos
        /\ \A dos, p : Work(c, dos, p) <=> do \in dos /\ Task(c).pod = p
    <2>1. Task(c) = todo[c][1] /\ DOMAIN todo[c] = 1..Len(todo[c])
      BY <1>0, <1>5, FirstTask
    <2>2. /\ \A dos : Busy(c, dos) <=> Task(c).do \in dos
          /\ \A dos, p : Work(c, dos, p) <=> Task(c).do \in dos /\ Task(c).pod = p
      BY <1>1, <2>1, OnlyTask
    <2>. QED
      BY <1>3, <2>2
  <1>7. /\ Busy(c, Purges) /\ ~Busy(c, {<<"remove">>})
        /\ \A p : ~Kept(c, p)
        /\ \A p, dos : dos \subseteq AllDos => ~Work(c, dos, p)
    BY <1>4, <1>6 DEF Kept, Asked
  <1>8. ASSUME NEW p, Removed(c, p) PROVE Removed(c, p)'
    <2>1. PICK d \in Deps : p \in Desired(d)
      BY <1>7, <1>8 DEF Removed, Busy
    <2>2. deps[d] # Absent /\ \E i \in 0..(deps[d].n - 1) : p = Inst[d][i]
      BY <2>1 DEF Desired
    <2>3. PICK j \in DOMAIN todo'[c] :
            todo'[c][j].do = <<"remove">> /\ todo'[c][j].dep = d /\ todo'[c][j].n = deps[d].n
      BY <1>1, <2>2
    <2>. QED
      BY <2>2, <2>3 DEF Removed, Does
  <1>9. ListInv(c)' /\ StopsFirst(c)' /\ Owns'
    BY <1>0, <1>1, <1>2, NothingFirst DEF ListInv, Owns, Stored
  <1>10. ASSUME NEW p \in Pods, p \notin failed PROVE PodAccounted(c, p)'
    <2>1. PodAccounted(c, p)
      BY <1>10, AccountParts
    <2>2. ~Work(c, Deploys, p) /\ ~Work(c, Stops, p) /\ ~Work(c, Unlinks, p)
      BY <1>7, FamiliesOfPods, MoreFamilies, Zenon
    <2>3. PICK u : u = pods[p].t
      OBVIOUS
    <2>4. Rests(c, p, u)
      BY <2>1, <2>2, <2>3, RestsNow
    <2>5. ~Work(c, Deploys, p)'
      BY <1>1, OneKind
    <2>6. Rests(c, p, u)'
      BY <1>1, <1>2, <1>7, <1>8, <2>2, <2>4 DEF Rests
    <2>7. u = pods'[p].t
      BY <1>2, <2>3
    <2>. QED
      BY <2>5, <2>6, <2>7, RestsNext
  <1>11. todo'[Main] = todo[Main]
    BY <1>1
  <1>. QED
    BY <1>2, <1>9, <1>10, <1>11, AccountAnew

LEMMA AccountRemoveReplicas ==
  ASSUME TypeInv, NEW c \in Actors, c # Main, Main \in Actors, AccountInv(c), RemoveReplicas(c)
  PROVE  AccountInv(c)'
  <1>0. TodoType /\ StateType /\ ListInv(c) /\ Owns /\ StopsFirst(c)
    BY TypeParts, AccountParts
  <1>1. /\ GoList(c)' /\ Busy(c, Purges)' /\ Busy(c, Purges) /\ GoesOn(c)
        /\ StopsFirst(c)'
        /\ \A b \in Actors \ {c} : todo'[b] = todo[b]
        /\ Task(c).do = <<"remove">> /\ Task(c).dep \in Deps
        /\ \A d, k : d = Task(c).dep /\ k = Task(c).n => \A i \in 0..(k - 1) :
             Work(c, Stops, Inst[d][i])' /\ Work(c, Unlinks, Inst[d][i])'
    BY <1>0, RemoveIs
  <1>2. UNCHANGED <<ns, deps, pods, file, unit, up, failed, revived>>
    BY DEF RemoveReplicas, store, host, history
  <1>3. Doing(c, "remove")
    BY DEF RemoveReplicas
  <1>4. /\ todo[c] \in Seq(TasksOf(c)) /\ Task(c) = todo[c][1] /\ DOMAIN todo[c] = 1..Len(todo[c])
        /\ Len(todo[c]) \in Nat \ {0}
    BY <1>0, <1>3, FirstTask
  <1>5. \A j \in DOMAIN todo[c] : j = 1 \/ j \in 2..Len(todo[c])
    BY <1>4
  <1>6. <<"remove">> \notin AllDos /\ <<"remove">> \notin Purges /\ <<"remove">> \notin PurgeAll
    BY FinalDos
  <1>7. /\ \A dos, p : <<"remove">> \notin dos => (Work(c, dos, p) => Work(c, dos, p)')
        /\ \A dos : <<"remove">> \notin dos => (Busy(c, dos) => Busy(c, dos)')
    BY <1>1, <1>4, <1>5 DEF Work, Busy, Does, GoesOn
  <1>8. GoList(c) /\ \A p : ~Kept(c, p)
    <2>1. GoList(c)
      BY <1>0, <1>1, <1>3, KindOfList
    <2>. QED
      BY <1>1, <2>1 DEF Kept, Asked
  <1>9. ASSUME NEW p, Removed(c, p)
        PROVE  Removed(c, p)' \/ (Work(c, Stops, p)' /\ Work(c, Unlinks, p)')
    <2>1. CASE \E d \in Deps : p \in Desired(d) /\ Busy(c, PurgeAll)
      <3>1. PICK d \in Deps : p \in Desired(d) /\ Busy(c, PurgeAll)
        BY <2>1
      <3>2. p \in Desired(d)' /\ Busy(c, PurgeAll)'
        BY <1>2, <1>6, <1>7, <3>1 DEF Desired
      <3>. QED
        BY <3>2 DEF Removed
    <2>2. CASE \E j \in DOMAIN todo[c] :
                 /\ todo[c][j].do \in {<<"remove">>}
                 /\ \E i \in 0..(todo[c][j].n - 1) : p = Inst[todo[c][j].dep][i]
      <3>1. PICK j \in DOMAIN todo[c] :
                 /\ todo[c][j].do \in {<<"remove">>}
                 /\ \E i \in 0..(todo[c][j].n - 1) : p = Inst[todo[c][j].dep][i]
        BY <2>2
      <3>2. CASE j = 1
        <4>1. PICK d, k : d = Task(c).dep /\ k = Task(c).n
          OBVIOUS
        <4>2. PICK i \in 0..(k - 1) : p = Inst[d][i]
          BY <1>4, <3>1, <3>2, <4>1
        <4>3. Work(c, Stops, Inst[d][i])' /\ Work(c, Unlinks, Inst[d][i])'
          BY <1>1, <4>1, <4>2
        <4>. QED
          BY <4>2, <4>3
      <3>3. CASE j \in 2..Len(todo[c])
        <4>1. PICK g \in DOMAIN todo'[c] : todo'[c][g] = todo[c][j]
          BY <1>1, <3>3 DEF GoesOn
        <4>. QED
          BY <3>1, <4>1, Zenon DEF Removed, Does
      <3>. QED
        BY <1>5, <3>2, <3>3
    <2>. QED
      BY <1>9, <2>1, <2>2, Zenon DEF Removed, Does
  <1>10. Owns' /\ ListInv(c)'
    BY <1>0, <1>1, <1>2 DEF ListInv, Owns, Stored
  <1>11. ASSUME NEW p \in Pods, p \notin failed PROVE PodAccounted(c, p)'
    <2>1. PodAccounted(c, p)
      BY <1>11, AccountParts
    <2>2. ~Work(c, Deploys, p) /\ ~Work(c, Deploys, p)'
      BY <1>1, <1>8, OneKind
    <2>3. PICK u : u = pods[p].t
      OBVIOUS
    <2>4. Rests(c, p, u)
      BY <2>1, <2>2, <2>3, RestsNow
    <2>5. /\ Work(c, Stops, p) => Work(c, Stops, p)'
          /\ Work(c, Unlinks, p) => Work(c, Unlinks, p)'
      BY <1>6, <1>7, FamiliesOfPods
    <2>6. /\ Removed(c, p) => Removed(c, p)' \/ (Work(c, Stops, p)' /\ Work(c, Unlinks, p)')
      BY <1>9
    <2>7. Rests(c, p, u)
            => /\ unit[p] # Absent => Work(c, Stops, p)' \/ Removed(c, p)'
               /\ file[p] # Absent => Work(c, Unlinks, p)' \/ Removed(c, p)'
               /\ file[p] # Absent => unit[p] = file[p] \/ Work(c, Unlinks, p)'
      BY <1>8, <2>5, <2>6 DEF Rests
    <2>8. Rests(c, p, u)'
      BY <1>1, <1>2, <2>4, <2>7 DEF Rests
    <2>9. u = pods'[p].t
      BY <1>2, <2>3
    <2>. QED
      BY <2>2, <2>8, <2>9, RestsNext
  <1>12. todo'[Main] = todo[Main]
    BY <1>1
  <1>. QED
    BY <1>1, <1>2, <1>10, <1>11, <1>12, AccountAnew

(* A client whose request has done nothing yet. *)
Wanted(p) == \E d \in Deps : p \in Desired(d)
Idle(c) ==
  /\ \A p \in Pods : p \notin failed => \A u : u = pods[p].t => Peace(c, p, u)
  /\ \A p : Kept(c, p) <=> Wanted(p) \/ (p \in Standalone /\ Stored(p))

LEMMA KeptIs ==
  ASSUME NEW c
  PROVE  /\ ~Busy(c, Purges) /\ (\A d : ~WorkOn(c, {<<"dropDep">>}, d)) =>
              \A p : ~Work(c, Drops, p) => (Kept(c, p) <=> Wanted(p) \/ (p \in Standalone /\ Stored(p)))
         /\ ~Busy(c, Purges)' /\ (\A d : ~WorkOn(c, {<<"dropDep">>}, d)') =>
              \A p : ~Work(c, Drops, p)' => (Kept(c, p)' <=> Wanted(p)' \/ (p \in Standalone /\ Stored(p)'))
  <1>1. ASSUME ~Busy(c, Purges), \A d : ~WorkOn(c, {<<"dropDep">>}, d)
        PROVE  \A p : ~Work(c, Drops, p) => (Kept(c, p) <=> Wanted(p) \/ (p \in Standalone /\ Stored(p)))
    BY <1>1, Zenon DEF Kept, Asked, Wanted
  <1>2. ASSUME ~Busy(c, Purges)', \A d : ~WorkOn(c, {<<"dropDep">>}, d)'
        PROVE  \A p : ~Work(c, Drops, p)' => (Kept(c, p)' <=> Wanted(p)' \/ (p \in Standalone /\ Stored(p)'))
    BY <1>2, Zenon DEF Kept, Asked, Wanted
  <1>. QED
    BY <1>1, <1>2

LEMMA IdleNow ==
  ASSUME NEW c, AccountInv(c),
         \A dos : dos \subseteq AllDos => \A p : ~Work(c, dos, p),
         ~Busy(c, Purges), ~Busy(c, PurgeAll), ~Busy(c, {<<"remove">>}),
         \A d : ~WorkOn(c, {<<"dropDep">>}, d)
  PROVE  Idle(c)
  <1>1. \A p : ~Removed(c, p)
    BY DEF Removed, Busy
  <1>2. ASSUME NEW p \in Pods, p \notin failed, NEW u, u = pods[p].t PROVE Peace(c, p, u)
    <2>1. PodAccounted(c, p)
      BY <1>2, AccountParts
    <2>. QED
      BY <1>1, <1>2, <2>1, PeaceNow
  <1>3. \A p : ~Work(c, Drops, p)
    BY FamiliesOfPods
  <1>4. \A p : Kept(c, p) <=> Wanted(p) \/ (p \in Standalone /\ Stored(p))
    BY <1>3, KeptIs
  <1>. QED
    BY <1>2, <1>4 DEF Idle

LEMMA AcceptIdle ==
  ASSUME TypeInv, NEW c \in Actors, c # Main, Main \in Actors, AccountInv(c), NEW tasks, Accept(c, tasks)
  PROVE  /\ Idle(c) /\ todo'[c] = tasks /\ todo'[Main] = todo[Main]
         /\ \A p : ~Kept(c, p) => ~Wanted(p) /\ ~(p \in Standalone /\ Stored(p))
  <1>0. TodoType
    BY TypeParts
  <1>1. /\ todo'[c] = tasks /\ todo'[Main] = todo[Main]
        /\ \A dos : ~Busy(c, dos)
        /\ \A dos, p : ~Work(c, dos, p) /\ ~WorkOn(c, dos, p)
    BY <1>0, AcceptIs
  <1>2. Idle(c)
    BY <1>1, IdleNow
  <1>. QED
    BY <1>1, <1>2 DEF Idle

LEMMA WantedIs ==
  ASSUME StateType
  PROVE  /\ \A p : Wanted(p) => p \in Instances /\ p \notin Standalone
         /\ \A d \in Deps : deps[d] = Absent => Desired(d) = {}
         /\ \A d \in Deps : deps[d] # Absent => deps[d].n \in 0..MaxReplicas
         /\ deps' = deps => \A p : Wanted(p)' <=> Wanted(p)
  <1>1. \A d \in Deps : deps[d] # Absent => deps[d].n \in 0..MaxReplicas
    BY DEF StateType
  <1>2. ASSUME NEW p, Wanted(p) PROVE p \in Instances /\ p \notin Standalone
    <2>1. PICK d \in Deps : p \in Desired(d)
      BY <1>2 DEF Wanted
    <2>2. deps[d] # Absent /\ \E i \in 0..(deps[d].n - 1) : p = Inst[d][i]
      BY <2>1 DEF Desired
    <2>3. PICK i \in 0..(deps[d].n - 1) : p = Inst[d][i]
      BY <2>2
    <2>4. i \in 0..(MaxReplicas - 1)
      BY <1>1, <2>2, NamesAssumption
    <2>5. p \in Instances
      BY <2>3, <2>4 DEF Instances
    <2>. QED
      BY <2>5, NamesAssumption
  <1>3. \A d \in Deps : deps[d] = Absent => Desired(d) = {}
    BY DEF Desired
  <1>4. deps' = deps => \A p : Wanted(p)' <=> Wanted(p)
    BY DEF Wanted, Desired
  <1>. QED
    BY <1>1, <1>2, <1>3, <1>4

LEMMA OnlyAsNext ==
  ASSUME NEW c, NEW x, todo'[c] = <<x>>
  PROVE  \A dos, p, t : WorkAs(c, dos, p, t)' <=> x.do \in dos /\ x.pod = p /\ x.t = t
  <1>1. DOMAIN todo'[c] = {1} /\ todo'[c][1] = x
    OBVIOUS
  <1>. QED
    BY <1>1, Zenon DEF WorkAs, Does

(* A pod the request leaves alone. *)
LEMMA StaysAtPeace ==
  ASSUME NEW c, NEW p, NEW u, u = pods[p].t, Peace(c, p, u),
         pods'[p] = pods[p], file'[p] = file[p], unit'[p] = unit[p], p \in revived => p \in revived',
         Kept(c, p) => Kept(c, p)', ~Work(c, Deploys, p)'
  PROVE  PodAccounted(c, p)'
  <1>1. Peace(c, p, u)'
    BY DEF Peace, Stored
  <1>2. u = pods'[p].t
    OBVIOUS
  <1>. QED
    BY <1>1, <1>2, PeaceNext

LEMMA AccountOnePod ==
  ASSUME TypeInv, NEW c \in Actors, c # Main, Main \in Actors, AccountInv(c),
         NEW p \in Pods, NEW do \in Replaces, NEW t \in Specs, Accept(c, <<PodTask(do, p, t, FALSE)>>),
         UNCHANGED <<deps, file, unit, up, failed>>, Owns',
         \A q \in Pods : q # p => pods'[q] = pods[q] /\ (q \in revived => q \in revived'),
         Stored(p)', pods'[p].t = t,
         p \notin failed => /\ Wanted(p) \/ p \in Standalone
                            /\ file[p] # Absent => unit[p] = file[p]
                            /\ do \in Fresh => file[p] = Absent /\ unit[p] = Absent
  PROVE  AccountInv(c)'
  <1>0. StateType
    BY TypeParts
  <1>1. PICK x : x = PodTask(do, p, t, FALSE)
    OBVIOUS
  <1>2. x.do = do /\ x.pod = p /\ x.t = t
    BY <1>1 DEF PodTask
  <1>3. Idle(c) /\ todo'[c] = <<x>> /\ todo'[Main] = todo[Main]
    BY <1>1, AcceptIdle
  <1>4. /\ \A dos : Busy(c, dos)' <=> do \in dos
        /\ \A dos, q : Work(c, dos, q)' <=> do \in dos /\ p = q
        /\ \A dos, d : WorkOn(c, dos, d)' <=> do \in dos /\ x.dep = d
        /\ DeployList(c)'
    BY <1>2, <1>3, OnlyTaskNext
  <1>5. \A dos, q, w : WorkAs(c, dos, q, w)' <=> do \in dos /\ p = q /\ t = w
    <2>1. todo'[c] = <<x>>
      BY <1>3
    <2>2. \A dos, q, w : WorkAs(c, dos, q, w)' <=> x.do \in dos /\ x.pod = q /\ x.t = w
      BY <2>1, OnlyAsNext, Zenon
    <2>. QED
      BY <1>2, <2>2, Zenon
  <1>6. /\ do \in Deploys /\ do \notin Purges /\ do \notin {<<"dropDep">>} /\ do \notin Drops /\ do \notin Goes
        /\ do \notin Written /\ do \notin Starts
    <2>1. do \in Deploys /\ do \in Writes
      BY DEF Deploys, Writes
    <2>2. do \in AllDos /\ do \notin Goes /\ do \notin Written
      BY <2>1, Kinds DEF AllDos
    <2>3. do \notin Finals
      BY <2>2, Kinds
    <2>4. do \notin Purges /\ do # <<"dropDep">>
      BY <2>3, FinalDos
    <2>. QED
      BY <2>1, <2>2, <2>4 DEF Goes, Written
  <1>7. ListInv(c)' /\ StopsFirst(c)'
    <2>1. \A q : ~Work(c, Goes, q)'
      BY <1>4, <1>6
    <2>. QED
      BY <1>4, <2>1, NothingFirst DEF ListInv
  <1>8. \A q : Kept(c, q)' <=> Wanted(q)' \/ (q \in Standalone /\ Stored(q)')
    <2>1. ~Busy(c, Purges)' /\ (\A d : ~WorkOn(c, {<<"dropDep">>}, d)') /\ \A q : ~Work(c, Drops, q)'
      BY <1>4, <1>6
    <2>. QED
      BY <2>1, KeptIs
  <1>9. \A q : Wanted(q)' <=> Wanted(q)
    BY <1>0, WantedIs
  <1>10. ASSUME NEW q \in Pods, q \notin failed, q # p PROVE PodAccounted(c, q)'
    <2>1. PICK u : u = pods[q].t
      OBVIOUS
    <2>2. Peace(c, q, u)
      BY <1>3, <1>10, <2>1 DEF Idle
    <2>3. Kept(c, q) => Kept(c, q)'
      BY <1>3, <1>8, <1>9, <1>10 DEF Idle, Stored
    <2>4. ~Work(c, Deploys, q)'
      BY <1>4, <1>10
    <2>. QED
      BY <1>10, <2>1, <2>2, <2>3, <2>4, StaysAtPeace
  <1>11. ASSUME p \notin failed PROVE PodAccounted(c, p)'
    <2>1. Kept(c, p)'
      BY <1>8, <1>9, <1>11
    <2>2. PICK u : u = t
      OBVIOUS
    <2>3. u = pods'[p].t
      BY <2>2
    <2>4. PodAccounted(c, p)' <=> AccountOf(c, p, u)'
      BY <2>3, NextIs, Zenon
    <2>5. file' = file /\ unit' = unit
      OBVIOUS
    <2>6. /\ WorkAs(c, Replaces, p, u)'
          /\ Work(c, Fresh, p)' => do \in Fresh
          /\ ~Work(c, Starts, p)'
          /\ \A w \in Specs : ~WorkAs(c, Written, p, w)'
          /\ \A w \in Specs : WorkAs(c, Replaces, p, w)' => u = w
      BY <1>4, <1>5, <1>6, <2>2
    <2>7. \A w : u \in {u, w}
      OBVIOUS
    <2>. QED
      BY <1>11, <2>1, <2>4, <2>5, <2>6, <2>7 DEF AccountOf
  <1>12. \A q \in Pods : q \notin failed => PodAccounted(c, q)'
    BY <1>10, <1>11
  <1>. QED
    BY <1>3, <1>7, <1>12, AccountAnew

LEMMA AccountPostPod ==
  ASSUME TypeInv, NEW c \in Actors, c # Main, Main \in Actors, AccountInv(c),
         NEW p \in Standalone, NEW t \in Templates, PostPod(c, p, t)
  PROVE  AccountInv(c)'
  <1>0. StateType /\ Owns /\ p \in Pods /\ t \in Specs
    BY TypeParts, AccountParts, Replicas DEF Specs
  <1>1. PICK do : do = <<"write", "start">>
    OBVIOUS
  <1>2. do \in Replaces
    BY <1>1 DEF Replaces
  <1>3. Accept(c, <<PodTask(do, p, t, FALSE)>>) /\ UNCHANGED <<deps, file, unit, up, failed>>
    BY <1>1 DEF PostPod, host
  <1>4. PICK v : v = [t |-> t, owned |-> FALSE]
    OBVIOUS
  <1>5. pods' = [pods EXCEPT ![p] = v] /\ revived' = revived \ {p} /\ ~Stored(p)
    BY <1>4 DEF PostPod
  <1>6. v.t = t /\ v.owned = FALSE /\ v # Absent
    <2>1. v \in [t : Specs, owned : BOOLEAN]
      BY <1>0, <1>4
    <2>2. Absent \notin [t : Specs, owned : BOOLEAN]
      BY NamesAssumption, Zenon
    <2>. QED
      BY <1>4, <2>1, <2>2
  <1>7. pods'[p] = v /\ \A q \in Pods : q # p => pods'[q] = pods[q] /\ (q \in revived => q \in revived')
    BY <1>0, <1>5 DEF StateType
  <1>8. Stored(p)' /\ pods'[p].t = t /\ Owns'
    BY <1>0, <1>6, <1>7 DEF Owns, Stored
  <1>9. ASSUME p \notin failed PROVE file[p] = Absent /\ unit[p] = Absent
    <2>1. Idle(c)
      BY <1>3, AcceptIdle
    <2>2. ~Kept(c, p)
      BY <1>0, <1>5, <2>1, WantedIs DEF Idle
    <2>3. PICK u : u = pods[p].t
      OBVIOUS
    <2>4. Peace(c, p, u)
      BY <1>0, <1>9, <2>1, <2>3 DEF Idle
    <2>. QED
      BY <2>2, <2>4 DEF Peace
  <1>. QED
    BY <1>0, <1>2, <1>3, <1>7, <1>8, <1>9, AccountOnePod

LEMMA AccountPatchPod ==
  ASSUME TypeInv, NEW c \in Actors, c # Main, Main \in Actors, AccountInv(c),
         NEW p \in Pods, p \notin revived, NEW t \in Templates, PatchPod(c, p, t)
  PROVE  AccountInv(c)'
  <1>0. StateType /\ Owns /\ t \in Specs
    BY TypeParts, AccountParts DEF Specs
  <1>1. PICK do : do = <<"write", "restart">>
    OBVIOUS
  <1>2. do \in Replaces /\ do \notin Fresh
    BY <1>1 DEF Replaces, Fresh
  <1>3. Accept(c, <<PodTask(do, p, t, FALSE)>>) /\ UNCHANGED <<deps, file, unit, up, failed, revived>>
    BY <1>1 DEF PatchPod, host, history
  <1>4. Stored(p) /\ pods' = [pods EXCEPT ![p].t = t]
    BY DEF PatchPod
  <1>5. pods[p] \in [t : Specs, owned : BOOLEAN]
    BY <1>0, <1>4 DEF StateType, Stored
  <1>6. PICK v : v = [pods[p] EXCEPT !.t = t]
    OBVIOUS
  <1>7. v.t = t /\ v.owned = pods[p].owned /\ v \in [t : Specs, owned : BOOLEAN]
    BY <1>0, <1>5, <1>6
  <1>8. v # Absent
    <2>1. Absent \notin [t : Specs, owned : BOOLEAN]
      BY NamesAssumption, Zenon
    <2>. QED
      BY <1>7, <2>1
  <1>9. pods'[p] = v /\ \A q \in Pods : q # p => pods'[q] = pods[q]
    BY <1>0, <1>4, <1>6 DEF StateType
  <1>10. Stored(p)' /\ pods'[p].t = t /\ Owns'
    BY <1>0, <1>4, <1>7, <1>8, <1>9 DEF Owns, Stored
  <1>11. Idle(c)
    BY <1>3, AcceptIdle
  <1>12. \A q \in Pods : q # p => pods'[q] = pods[q] /\ (q \in revived => q \in revived')
    BY <1>3, <1>9
  <1>13. CASE p \in failed
    BY <1>0, <1>2, <1>3, <1>10, <1>12, <1>13, AccountOnePod
  <1>14. CASE p \notin failed
    <2>1. PICK u : u = pods[p].t
      OBVIOUS
    <2>2. Peace(c, p, u)
      BY <1>11, <1>14, <2>1 DEF Idle
    <2>3. Kept(c, p)
      BY <1>4, <2>2 DEF Peace
    <2>4. Wanted(p) \/ p \in Standalone
      BY <1>11, <2>3 DEF Idle
    <2>5. file[p] # Absent => unit[p] = file[p]
      BY <2>2 DEF Peace
    <2>. QED
      BY <1>0, <1>2, <1>3, <1>10, <1>12, <2>4, <2>5, AccountOnePod
  <1>. QED
    BY <1>13, <1>14

(* A pod the request takes away. *)
Away(c, p) ==
  /\ Work(c, Stops, p) \/ Removed(c, p)
  /\ Work(c, Unlinks, p) \/ Removed(c, p)
  /\ Work(c, Drops, p) \/ Busy(c, Purges)

LEMMA AccountAway ==
  ASSUME TypeInv, NEW c, AccountInv(c), Idle(c), ListInv(c)', StopsFirst(c)', todo'[Main] = todo[Main],
         UNCHANGED <<pods, file, unit, up, failed, revived>>,
         \A p : ~Work(c, Deploys, p)',
         \A p \in Pods : p \notin failed => Away(c, p)' \/ (Kept(c, p) => Kept(c, p)')
  PROVE  AccountInv(c)'
  <1>1. ASSUME NEW p \in Pods, p \notin failed PROVE PodAccounted(c, p)'
    <2>1. PICK u : u = pods[p].t
      OBVIOUS
    <2>2. Peace(c, p, u)
      BY <1>1, <2>1 DEF Idle
    <2>3. ~Work(c, Deploys, p)'
      OBVIOUS
    <2>4. CASE Away(c, p)'
      <3>1. Rests(c, p, u)'
        BY <2>2, <2>4 DEF Rests, Peace, Away, Stored
      <3>2. u = pods'[p].t
        BY <2>1
      <3>. QED
        BY <2>3, <3>1, <3>2, RestsNext
    <2>5. CASE Kept(c, p) => Kept(c, p)'
      BY <2>1, <2>2, <2>3, <2>5, StaysAtPeace
    <2>. QED
      BY <1>1, <2>4, <2>5
  <1>2. Owns'
    BY AccountParts DEF Owns, Stored
  <1>. QED
    BY <1>1, <1>2, AccountAnew

LEMMA GoingIs ==
  ASSUME NEW c \in Actors, c # Main, NEW ps \in Seq(Pods), Once(ps),
         todo'[c] = Each(<<"stop", "unlink", "drop">>, ps)
  PROVE  /\ ListInv(c)' /\ StopsFirst(c)' /\ (\A p : ~Work(c, Deploys, p)')
         /\ ~Busy(c, Purges)' /\ (\A d : ~WorkOn(c, {<<"dropDep">>}, d)')
         /\ \A j \in 1..Len(ps) :
              Work(c, Stops, ps[j])' /\ Work(c, Unlinks, ps[j])' /\ Work(c, Drops, ps[j])'
         /\ \A p : Work(c, Drops, p)' => \E i \in 1..Len(ps) : p = ps[i]
  <1>1. /\ GoList(c)'
        /\ \A j \in DOMAIN todo'[c] :
             todo'[c][j].do \in Goes /\ j \in 1..Len(ps) /\ todo'[c][j].pod = ps[j]
        /\ \A j \in 1..Len(ps) :
             Work(c, Stops, ps[j])' /\ Work(c, Unlinks, ps[j])' /\ Work(c, Drops, ps[j])'
    BY GoesIs
  <1>2. \A do \in Goes : do \notin Purges /\ do \notin {<<"dropDep">>}
    BY FinalDos, MoreFamilies
  <1>3. ~Busy(c, Purges)' /\ (\A d : ~WorkOn(c, {<<"dropDep">>}, d)')
    BY <1>1, <1>2 DEF Busy, WorkOn, Does
  <1>4. \A p : Work(c, Drops, p)' => \E i \in 1..Len(ps) : p = ps[i]
    BY <1>1, ZenonT(40) DEF Work, Does
  <1>5. \A p : ~Work(c, Deploys, p)'
    BY <1>1, OneKind
  <1>6. \A j \in DOMAIN todo'[c] : todo'[c][j].do \in Unlinks
    <2>1. PICK go : go = <<"stop", "unlink", "drop">>
      OBVIOUS
    <2>2. go \in Unlinks
      BY <2>1, GoDos
    <2>3. IsEach(todo'[c], go, ps)
      BY <2>1, EachAre, Zenon
    <2>4. \A j \in DOMAIN todo'[c] : todo'[c][j].do = go
      BY <1>1, <2>3 DEF IsEach
    <2>. QED
      BY <2>2, <2>4
  <1>7. StopsFirst(c)'
    <2>1. DOMAIN todo'[c] \subseteq Int
      BY <1>1
    <2>. QED
      BY <1>1, <1>6, <2>1, OnceStops
  <1>. QED
    BY <1>1, <1>3, <1>4, <1>5, <1>7 DEF ListInv

LEMMA AccountDeletePod ==
  ASSUME TypeInv, NEW c \in Actors, c # Main, Main \in Actors, AccountInv(c),
         NEW p \in Pods, DeletePod(c, p)
  PROVE  AccountInv(c)'
  <1>0. StateType
    BY TypeParts
  <1>1. PICK ps : ps = <<p>>
    OBVIOUS
  <1>2. ps \in Seq(Pods) /\ Len(ps) = 1 /\ ps[1] = p
    BY <1>1
  <1>3. Once(ps)
    BY <1>2 DEF Once
  <1>4. Accept(c, Each(<<"stop", "unlink", "drop">>, ps))
    BY <1>1 DEF DeletePod
  <1>5. Idle(c) /\ todo'[c] = Each(<<"stop", "unlink", "drop">>, ps) /\ todo'[Main] = todo[Main]
    BY <1>4, AcceptIdle
  <1>7. /\ ListInv(c)' /\ StopsFirst(c)' /\ (\A q : ~Work(c, Deploys, q)')
        /\ ~Busy(c, Purges)' /\ (\A d : ~WorkOn(c, {<<"dropDep">>}, d)')
        /\ \A j \in 1..Len(ps) :
             Work(c, Stops, ps[j])' /\ Work(c, Unlinks, ps[j])' /\ Work(c, Drops, ps[j])'
        /\ \A q : Work(c, Drops, q)' => \E i \in 1..Len(ps) : q = ps[i]
    BY <1>2, <1>3, <1>5, GoingIs
  <1>8. UNCHANGED <<deps, pods, file, unit, up, failed, revived>>
    BY DEF DeletePod, store, host
  <1>9. \A q : Wanted(q)' <=> Wanted(q)
    BY <1>0, <1>8, WantedIs
  <1>10. \A q : ~Work(c, Drops, q)' => (Kept(c, q)' <=> Wanted(q)' \/ (q \in Standalone /\ Stored(q)'))
    BY <1>7, KeptIs
  <1>11. ASSUME NEW q \in Pods PROVE Away(c, q)' \/ (Kept(c, q) => Kept(c, q)')
    <2>1. CASE Work(c, Drops, q)'
      BY <1>7, <2>1 DEF Away
    <2>2. CASE ~Work(c, Drops, q)'
      BY <1>5, <1>8, <1>9, <1>10, <2>2 DEF Idle, Stored
    <2>. QED
      BY <2>1, <2>2
  <1>. QED
    BY <1>5, <1>7, <1>8, <1>11, AccountAway

LEMMA AccountDeleteDeployment ==
  ASSUME TypeInv, NEW c \in Actors, c # Main, Main \in Actors, AccountInv(c),
         NEW d \in Deps, DeleteDeployment(c, d)
  PROVE  AccountInv(c)'
  <1>0. StateType
    BY TypeParts
  <1>a. MaxReplicas \in Nat /\ 0 \in 0..MaxReplicas
    BY NamesAssumption
  <1>1. deps[d] # Absent /\ deps[d].n \in 0..MaxReplicas
    BY <1>0 DEF DeleteDeployment, StateType
  <1>2. PICK k \in 0..MaxReplicas : k = deps[d].n
    BY <1>1
  <1>3. PICK ps : ps = Range_(d, 0, k)
    OBVIOUS
  <1>4. /\ ps \in Seq(Pods)
        /\ \A i \in 0..(k - 1) : \E j \in 1..Len(ps) : ps[j] = Inst[d][i]
    BY <1>a, <1>3, RangeIs, Zenon
  <1>5. PICK tasks : tasks = Each(<<"stop">>, ps) \o Each(<<"unlink">>, ps) \o Each(<<"drop">>, ps)
                               \o <<[do |-> <<"dropDep">>, dep |-> d]>>
    OBVIOUS
  <1>6. Accept(c, tasks)
    BY <1>2, <1>3, <1>5, Zenon DEF DeleteDeployment
  <1>7. Idle(c) /\ todo'[c] = tasks /\ todo'[Main] = todo[Main]
    BY <1>6, AcceptIdle
  <1>8. /\ GoList(c)' /\ StopsFirst(c)' /\ ~Busy(c, Purges)'
        /\ \A e : WorkOn(c, {<<"dropDep">>}, e)' => e = d
        /\ \A i \in 1..Len(ps) : Work(c, Stops, ps[i])' /\ Work(c, Unlinks, ps[i])' /\ Work(c, Drops, ps[i])'
        /\ \A p : ~Work(c, Deploys, p)'
        /\ \A j \in DOMAIN todo'[c] : todo'[c][j].do \in Goes =>
             \E i \in 1..Len(ps) : todo'[c][j].pod = ps[i]
    <2>1. todo'[c] = Each(<<"stop">>, ps) \o Each(<<"unlink">>, ps) \o Each(<<"drop">>, ps)
                       \o <<[do |-> <<"dropDep">>, dep |-> d]>>
      BY <1>5, <1>7, Zenon
    <2>. QED
      BY <1>4, <2>1, RoundsIs, ZenonT(40)
  <1>9. UNCHANGED <<deps, pods, file, unit, up, failed, revived>>
    BY DEF DeleteDeployment, store, host, history
  <1>10. \A p : Work(c, Drops, p)' => \E i \in 1..Len(ps) : p = ps[i]
    <2>1. \A do \in Drops : do \in Goes
      BY DEF Goes
    <2>. QED
      BY <1>8, <2>1 DEF Work, Does
  <1>11. ASSUME NEW p \in Pods PROVE Away(c, p)' \/ (Kept(c, p) => Kept(c, p)')
    <2>1. CASE Work(c, Drops, p)'
      BY <1>8, <1>10, <2>1 DEF Away
    <2>2. CASE ~Work(c, Drops, p)'
      <3>1. ASSUME p \in Standalone, Stored(p) PROVE Kept(c, p)'
        BY <1>8, <1>9, <2>2, <3>1 DEF Kept, Stored
      <3>2. ASSUME Wanted(p) PROVE Kept(c, p)' \/ Away(c, p)'
        <4>1. PICK e \in Deps : p \in Desired(e)
          BY <3>2 DEF Wanted
        <4>2. CASE e = d
          <5>1. PICK i \in 0..(k - 1) : p = Inst[d][i]
            BY <1>2, <4>1, <4>2 DEF Desired
          <5>2. PICK j \in 1..Len(ps) : ps[j] = p
            BY <1>4, <5>1
          <5>. QED
            BY <1>8, <5>2 DEF Away
        <4>3. CASE e # d
          <5>1. p \in Desired(e)' /\ ~WorkOn(c, {<<"dropDep">>}, e)'
            BY <1>8, <1>9, <4>1, <4>3 DEF Desired
          <5>. QED
            BY <1>8, <5>1 DEF Kept, Asked
        <4>. QED
          BY <4>2, <4>3
      <3>. QED
        BY <1>7, <3>1, <3>2 DEF Idle
    <2>. QED
      BY <2>1, <2>2
  <1>12. ListInv(c)'
    BY <1>8 DEF ListInv
  <1>. QED
    BY <1>7, <1>8, <1>9, <1>11, <1>12, AccountAway

(* The pods of a namespace are listed once each. *)
LEMMA OrderOnce ==
  ASSUME NEW S \in SUBSET Pods, NEW ps \in Orders(S)
  PROVE  Once(ps)
  BY PodsFinite, FS_Subset, OrdersCover

LEMMA NamespaceStops ==
  ASSUME NEW c \in Actors, c # Main, NEW ps \in Seq(Pods), Once(ps),
         todo'[c] = Each(<<"stop", "unlink">>, ps) \o <<[do |-> <<"purgeDeps", "purge", "dropNs">>]>>
  PROVE  StopsFirst(c)'
  <1>1. PICK x \in TasksOf(c) : x = [do |-> <<"purgeDeps", "purge", "dropNs">>]
    BY DEF TasksOf, ClientTasks, Purges, PurgeAll
  <1>2. x.do \in Finals
    <2>1. x.do = <<"purgeDeps", "purge", "dropNs">>
      BY <1>1
    <2>. QED
      BY <2>1 DEF Finals, Purges, PurgeAll
  <1>3. PICK go : go = <<"stop", "unlink">>
    OBVIOUS
  <1>4. go \in Unlinks /\ go \in Goes
    BY <1>3, GoDos
  <1>5. PICK A : A = Each(go, ps)
    OBVIOUS
  <1>6. A \in Seq(PodTasks({go})) /\ IsEach(A, go, ps)
    BY <1>5, EachAre, Zenon
  <1>7. A \in Seq(TasksOf(c))
    BY <1>4, <1>6, ClientParts, Zenon
  <1>8. InEnd(A \o <<x>>, A, x) /\ Len(A) \in Nat
    BY <1>7, EndIs, Zenon
  <1>9. InEnd(todo'[c], A, x)
    BY <1>1, <1>3, <1>5, <1>8, Zenon
  <1>10. /\ DOMAIN todo'[c] = 1..(Len(ps) + 1) /\ Len(ps) \in Nat
         /\ (\A j \in 1..Len(ps) : todo'[c][j].do = go /\ todo'[c][j].pod = ps[j])
         /\ todo'[c][Len(ps) + 1] = x
    BY <1>6, <1>8, <1>9 DEF InEnd, IsEach
  <1>11. \A j \in DOMAIN todo'[c] : j \in 1..Len(ps) \/ j = Len(ps) + 1
    BY <1>10
  <1>12. \A j \in DOMAIN todo'[c] :
           \/ todo'[c][j].do \in Goes /\ todo'[c][j].do \in Unlinks
              /\ j \in 1..Len(ps) /\ todo'[c][j].pod = ps[j]
           \/ todo'[c][j].do \in Finals
    BY <1>2, <1>4, <1>10, <1>11
  <1>13. DOMAIN todo'[c] \subseteq Int
    BY <1>10
  <1>. QED
    BY <1>12, <1>13, OnceStops

LEMMA AccountDeleteNamespace ==
  ASSUME TypeInv, NEW c \in Actors, c # Main, Main \in Actors, AccountInv(c), DeleteNamespace(c)
  PROVE  AccountInv(c)'
  <1>1. PICK ps \in Orders({p \in Pods : Stored(p)}) :
          Accept(c, Each(<<"stop", "unlink">>, ps)
                      \o <<[do |-> <<"purgeDeps", "purge", "dropNs">>]>>)
    BY Zenon DEF DeleteNamespace
  <1>2. PICK Y \in SUBSET Pods : Y = {p \in Pods : Stored(p)}
    OBVIOUS
  <1>3. ps \in Orders(Y)
    BY <1>2
  <1>4. ps \in Seq(Pods) /\ Once(ps) /\ \A p \in Y : \E j \in 1..Len(ps) : ps[j] = p
    BY <1>3, PodOrders, OrderOnce
  <1>5. /\ Idle(c) /\ todo'[Main] = todo[Main]
        /\ todo'[c] = Each(<<"stop", "unlink">>, ps) \o <<[do |-> <<"purgeDeps", "purge", "dropNs">>]>>
    BY <1>1, AcceptIdle
  <1>6. /\ GoList(c)' /\ Busy(c, Purges)' /\ Busy(c, PurgeAll)'
        /\ \A i \in 1..Len(ps) : Work(c, Stops, ps[i])' /\ Work(c, Unlinks, ps[i])'
    BY <1>4, <1>5, NamespaceIs
  <1>7. StopsFirst(c)'
    BY <1>4, <1>5, NamespaceStops
  <1>8. UNCHANGED <<deps, pods, file, unit, up, failed, revived>>
    BY DEF DeleteNamespace, store, host, history
  <1>9. ASSUME NEW p \in Pods PROVE Away(c, p)' \/ (Kept(c, p) => Kept(c, p)')
    <2>1. CASE Stored(p)
      <3>1. PICK j \in 1..Len(ps) : ps[j] = p
        BY <1>2, <1>4, <2>1
      <3>. QED
        BY <1>6, <3>1 DEF Away
    <2>2. CASE Wanted(p)
      <3>1. PICK d \in Deps : p \in Desired(d)
        BY <2>2 DEF Wanted
      <3>2. p \in Desired(d)'
        BY <1>8, <3>1 DEF Desired
      <3>. QED
        BY <1>6, <3>2 DEF Away, Removed
    <2>3. CASE ~Stored(p) /\ ~Wanted(p)
      BY <1>5, <2>3 DEF Idle
    <2>. QED
      BY <2>1, <2>2, <2>3
  <1>10. ListInv(c)' /\ \A p : ~Work(c, Deploys, p)'
    BY <1>6, OneKind DEF ListInv
  <1>. QED
    BY <1>5, <1>7, <1>8, <1>9, <1>10, AccountAway

LEMMA AccountPostNamespace ==
  ASSUME TypeInv, NEW c \in Actors, c # Main, Main \in Actors, AccountInv(c), PostNamespace(c)
  PROVE  AccountInv(c)'
  <1>0. StateType
    BY TypeParts
  <1>1. Accept(c, <<>>) /\ UNCHANGED <<deps, pods, file, unit, up, failed, revived>>
    BY DEF PostNamespace, host, history
  <1>2. Idle(c) /\ todo'[c] = <<>> /\ todo'[Main] = todo[Main]
    BY <1>1, AcceptIdle
  <1>3. /\ \A dos : ~Busy(c, dos)'
        /\ \A dos, p : ~Work(c, dos, p)' /\ ~WorkOn(c, dos, p)'
    BY <1>2, NothingToDo
  <1>4. ListInv(c)' /\ StopsFirst(c)'
    BY <1>2, NothingFirst
  <1>5. \A p : Wanted(p)' <=> Wanted(p)
    BY <1>0, <1>1, WantedIs
  <1>6. \A p : Kept(c, p)' <=> Wanted(p)' \/ (p \in Standalone /\ Stored(p)')
    BY <1>3, KeptIs
  <1>7. \A p \in Pods : Kept(c, p) => Kept(c, p)'
    BY <1>1, <1>2, <1>5, <1>6 DEF Idle, Stored
  <1>8. \A p : ~Work(c, Deploys, p)'
    BY <1>3
  <1>. QED
    BY <1>1, <1>2, <1>4, <1>7, <1>8, AccountAway

LEMMA AccountChangeDeployment ==
  ASSUME TypeInv, NEW c \in Actors, c # Main, Main \in Actors, AccountInv(c),
         NEW d \in Deps, NEW n \in 0..MaxReplicas, NEW t \in Specs, NEW scale \in BOOLEAN,
         ChangeDeployment(c, d, n, t, scale)
  PROVE  AccountInv(c)'
  <1>0. StateType
    BY TypeParts
  <1>1. PICK u : u = [do |-> <<"update">>, dep |-> d, n |-> n, t |-> t,
                      old |-> deps[d].n, scale |-> scale]
    OBVIOUS
  <1>2. u.do = <<"update">> /\ u.dep = d /\ u.old = deps[d].n
    BY <1>1
  <1>3. Accept(c, <<u>>)
    BY <1>1, Zenon DEF ChangeDeployment
  <1>4. Idle(c) /\ todo'[c] = <<u>> /\ todo'[Main] = todo[Main]
    BY <1>3, AcceptIdle
  <1>5. UNCHANGED <<deps, pods, file, unit, up, failed, revived>> /\ deps[d] # Absent
    BY DEF ChangeDeployment, store, host, history
  <1>6. Len(todo'[c]) = 1 /\ todo'[c][1] = u /\ DOMAIN todo'[c] = {1}
    BY <1>4
  <1>7. ListInv(c)'
    BY <1>2, <1>5, <1>6 DEF ListInv, UpdateList
  <1>8. StopsFirst(c)'
    <2>1. \A j \in DOMAIN todo'[c] : todo'[c][j].do \in Deploys \cup {<<"update">>} \cup Finals
      BY <1>2, <1>6
    <2>. QED
      BY <2>1, NoStops
  <1>9. /\ \A dos : Busy(c, dos)' <=> u.do \in dos
        /\ \A dos, p : Work(c, dos, p)' <=> u.do \in dos /\ u.pod = p
        /\ \A dos, e : WorkOn(c, dos, e)' <=> u.do \in dos /\ u.dep = e
    BY <1>4, OnlyTaskNext, Zenon
  <1>10. /\ <<"update">> \notin Purges /\ <<"update">> # <<"dropDep">>
         /\ <<"update">> \notin Deploys /\ <<"update">> \notin Drops
    BY Kinds, PlainHeads DEF AllDos, Goes
  <1>11. /\ ~Busy(c, Purges)' /\ (\A e : ~WorkOn(c, {<<"dropDep">>}, e)')
         /\ \A p : ~Work(c, Deploys, p)' /\ ~Work(c, Drops, p)'
    <2>1. <<"update">> \notin {<<"dropDep">>}
      BY <1>10
    <2>. QED
      BY <1>2, <1>9, <1>10, <2>1, Zenon
  <1>12. \A p : Wanted(p)' <=> Wanted(p)
    BY <1>0, <1>5, WantedIs
  <1>13. \A p : Kept(c, p)' <=> Wanted(p)' \/ (p \in Standalone /\ Stored(p)')
    BY <1>11, KeptIs
  <1>14. \A p \in Pods : Kept(c, p) => Kept(c, p)'
    BY <1>4, <1>5, <1>12, <1>13 DEF Idle, Stored
  <1>. QED
    BY <1>4, <1>5, <1>7, <1>8, <1>11, <1>14, AccountAway

LEMMA WantedOf ==
  ASSUME StateType, NEW d \in Deps
  PROVE  \A i \in 0..(MaxReplicas - 1) : Wanted(Inst[d][i]) => deps[d] # Absent /\ i < deps[d].n
  <1> TAKE i \in 0..(MaxReplicas - 1)
  <1> HAVE Wanted(Inst[d][i])
  <1>1. PICK e \in Deps : Inst[d][i] \in Desired(e)
    BY DEF Wanted
  <1>2. deps[e] # Absent /\ \E m \in 0..(deps[e].n - 1) : Inst[d][i] = Inst[e][m]
    BY <1>1 DEF Desired
  <1>3. deps[e].n \in 0..MaxReplicas
    BY <1>2, WantedIs
  <1>4. PICK m \in 0..(deps[e].n - 1) : Inst[d][i] = Inst[e][m]
    BY <1>2
  <1>5. m \in 0..(MaxReplicas - 1) /\ m < deps[e].n
    BY <1>3, NamesAssumption
  <1>6. d = e /\ i = m
    BY <1>4, <1>5, Replicas, ZenonT(40)
  <1>. QED
    BY <1>2, <1>5, <1>6

LEMMA AccountFresh ==
  ASSUME TypeInv, NEW c \in Actors, c # Main, Main \in Actors, AccountInv(c), Idle(c),
         NEW d \in Deps, NEW from \in 0..MaxReplicas, NEW to \in 0..MaxReplicas,
         NEW t \in Specs, NEW how \in {"start", "restart"},
         todo'[c] = DeployInstances(d, t, from, to, how), todo'[Main] = todo[Main],
         UNCHANGED <<pods, file, unit, up, failed, revived>>,
         \A e \in Deps : Desired(e) \subseteq Desired(e)',
         \A i \in from..(to - 1) : Inst[d][i] \in Desired(d)',
         how = "start" => \A i \in from..(to - 1) : ~Wanted(Inst[d][i])
  PROVE  AccountInv(c)'
  <1>0. StateType /\ MaxReplicas \in Nat
    BY TypeParts, NamesAssumption
  <1>1. PICK do : do = <<"write", "sync", how>>
    OBVIOUS
  <1>2. /\ DeployList(c)'
        /\ \A j \in DOMAIN todo'[c] :
             /\ todo'[c][j].do = do /\ todo'[c][j].do \in Syncs /\ todo'[c][j].t = t
             /\ \E i \in from..(to - 1) : todo'[c][j].pod = Inst[d][i]
    BY <1>1, DeploysIs
  <1>3. /\ \A x \in Syncs : x \notin Written /\ x \in Deploys /\ x \notin Goes
        /\ \A x \in Syncs : x \notin Purges /\ x \notin {<<"dropDep">>}
    <2>1. \A x \in Syncs : x \in AllDos
      BY DEF AllDos, Deploys, Writes
    <2>. QED
      BY <2>1, Kinds, FinalDos DEF Writes, Deploys
  <1>5. /\ ~Busy(c, Purges)' /\ (\A e : ~WorkOn(c, {<<"dropDep">>}, e)')
        /\ \A p : ~Work(c, Goes, p)'
    BY <1>2, <1>3 DEF Busy, WorkOn, Work, Does
  <1>6. ListInv(c)' /\ StopsFirst(c)'
    BY <1>2, <1>5, NothingFirst DEF ListInv
  <1>7. \A p : Kept(c, p)' <=> Wanted(p)' \/ (p \in Standalone /\ Stored(p)')
    <2>1. \A p : ~Work(c, Drops, p)'
      BY <1>5 DEF Goes, Work, Does
    <2>. QED
      BY <1>5, <2>1, KeptIs
  <1>8. \A p : Wanted(p) => Wanted(p)'
    BY DEF Wanted
  <1>9. \A p : Kept(c, p) => Kept(c, p)'
    BY <1>7, <1>8 DEF Idle, Stored
  <1>10. ASSUME NEW p, Work(c, Deploys, p)' PROVE \E i \in from..(to - 1) : p = Inst[d][i]
    BY <1>2, <1>10 DEF Work, Does
  <1>11. ASSUME NEW p \in Pods, p \notin failed PROVE PodAccounted(c, p)'
    <2>1. PICK u : u = pods[p].t
      OBVIOUS
    <2>2. Peace(c, p, u)
      BY <1>11, <2>1 DEF Idle
    <2>3. CASE ~Work(c, Deploys, p)'
      BY <1>9, <2>1, <2>2, <2>3, StaysAtPeace
    <2>4. CASE Work(c, Deploys, p)'
      <3>1. PICK i \in from..(to - 1) : p = Inst[d][i]
        BY <1>10, <2>4
      <3>2. Kept(c, p)'
        BY <1>7, <3>1 DEF Wanted
      <3>3. p \in Instances /\ p \notin Standalone
        <4>1. i \in 0..(MaxReplicas - 1)
          BY <1>0
        <4>2. p \in Instances
          BY <3>1, <4>1, Replicas
        <4>. QED
          BY <4>2, NamesAssumption
      <3>4. Work(c, Fresh, p)' => file[p] = Absent /\ unit[p] = Absent
        <4>1. ASSUME Work(c, Fresh, p)' PROVE how = "start"
          <5>1. do \in Fresh
            BY <1>2, <4>1 DEF Work, Does
          <5>2. CASE do = <<"write", "sync", "start">>
            BY <1>1, <5>2
          <5>3. CASE do = <<"write", "start">>
            BY <1>1, <5>3
          <5>. QED
            BY <5>1, <5>2, <5>3 DEF Fresh
        <4>2. how = "start" => ~Kept(c, p)
          BY <3>1, <3>3 DEF Idle
        <4>. QED
          BY <2>2, <4>1, <4>2 DEF Peace
      <3>5. /\ ~Work(c, Starts, p)'
            /\ \A w \in Specs : ~WorkAs(c, Written, p, w)'
        BY <1>2, <1>3 DEF Work, WorkAs, Does, Written
      <3>6. \A w \in Specs : ~WorkAs(c, Replaces, p, w)'
        <4>1. \A x \in Syncs : x \notin Replaces
          <5>1. <<"write", "sync", "start">> \notin Replaces /\ <<"write", "sync", "restart">> \notin Replaces
            BY DEF Replaces
          <5>. QED
            BY <5>1 DEF Syncs
        <4>. QED
          BY <1>2, <4>1 DEF WorkAs, Does
      <3>7. u = pods'[p].t
        BY <2>1
      <3>8. PodAccounted(c, p)' <=> AccountOf(c, p, u)'
        BY <3>7, NextIs, Zenon
      <3>9. /\ Stored(p)' /\ u # Stub => file'[p] = u
            /\ file'[p] # Absent => unit'[p] = file'[p]
        BY <2>2 DEF Peace, Stored
      <3>10. file' = file /\ unit' = unit
        OBVIOUS
      <3>. QED
        BY <3>2, <3>4, <3>5, <3>6, <3>8, <3>9, <3>10 DEF AccountOf
    <2>. QED
      BY <2>3, <2>4
  <1>12. Owns'
    BY AccountParts DEF Owns, Stored
  <1>. QED
    BY <1>6, <1>11, <1>12, AccountAnew

LEMMA AccountPostDeployment ==
  ASSUME TypeInv, NEW c \in Actors, c # Main, Main \in Actors, AccountInv(c),
         NEW d \in Deps, NEW n \in 0..MaxReplicas, NEW t \in Templates, PostDeployment(c, d, n, t)
  PROVE  AccountInv(c)'
  <1>0. StateType /\ MaxReplicas \in Nat /\ 0 \in 0..MaxReplicas /\ t \in Specs
    BY TypeParts, NamesAssumption DEF Specs
  <1>1. PICK tasks : tasks = DeployInstances(d, t, 0, n, "start")
    OBVIOUS
  <1>2. Accept(c, tasks)
    BY <1>1, Zenon DEF PostDeployment
  <1>3. Idle(c) /\ todo'[c] = tasks /\ todo'[Main] = todo[Main]
    BY <1>2, AcceptIdle
  <1>4. UNCHANGED <<pods, file, unit, up, failed, revived>> /\ deps[d] = Absent
    BY DEF PostDeployment, host, history
  <1>5. /\ deps'[d] # Absent /\ deps'[d].n = n /\ \A e \in Deps \ {d} : deps'[e] = deps[e]
    <2>1. PICK v \in [n : 0..MaxReplicas, t : Specs] : v = [n |-> n, t |-> t]
      BY <1>0
    <2>2. v.n = n /\ v # Absent
      BY <2>1, NamesAssumption
    <2>3. deps' = [deps EXCEPT ![d] = v]
      BY <2>1 DEF PostDeployment
    <2>. QED
      BY <1>0, <2>2, <2>3 DEF StateType
  <1>6. \A e \in Deps : Desired(e) \subseteq Desired(e)'
    <2>1. Desired(d) = {}
      BY <1>4 DEF Desired
    <2>2. \A e \in Deps \ {d} : Desired(e)' = Desired(e)
      BY <1>5, AskedIs
    <2>. QED
      BY <2>1, <2>2
  <1>7. \A i \in 0..(n - 1) : Inst[d][i] \in Desired(d)' /\ ~Wanted(Inst[d][i])
    <2> TAKE i \in 0..(n - 1)
    <2>1. i \in 0..(MaxReplicas - 1)
      BY <1>0
    <2>2. Inst[d][i] \in Desired(d)'
      BY <1>5 DEF Desired
    <2>. QED
      BY <1>0, <1>4, <2>1, <2>2, WantedOf
  <1>8. "start" \in {"start", "restart"} /\ todo'[c] = DeployInstances(d, t, 0, n, "start")
    BY <1>1, <1>3, Zenon
  <1>. QED
    BY <1>0, <1>3, <1>4, <1>6, <1>7, <1>8, AccountFresh

LEMMA AccountUpdate ==
  ASSUME TypeInv, NEW c \in Actors, c # Main, Main \in Actors, AccountInv(c), UpdateDeployment(c)
  PROVE  AccountInv(c)'
  <1>0. TodoType /\ StateType /\ ListInv(c) /\ MaxReplicas \in Nat /\ 0 \in 0..MaxReplicas
    BY TypeParts, AccountParts, NamesAssumption
  <1>1. Doing(c, "update") /\ Task(c) \in Updates
    BY <1>0, PlainStage DEF UpdateDeployment
  <1>2. PICK u \in Updates : u = Task(c)
    BY <1>1
  <1>3. PICK d \in Deps : d = u.dep
    BY DEF Updates
  <1>4. PICK n \in 0..MaxReplicas : n = u.n
    BY DEF Updates
  <1>5. PICK old \in 0..MaxReplicas : old = u.old
    BY DEF Updates
  <1>6. PICK t \in Specs : t = u.t
    BY DEF Updates
  <1>7. u.do = <<"update">>
    BY DEF Updates
  <1>8. UpdateList(c)
    BY <1>0, <1>1, <1>2, <1>7, KindOfList
  <1>9. Len(todo[c]) = 1 /\ deps[d] # Absent /\ deps[d].n = old
    BY <1>0, <1>1, <1>2, <1>3, <1>5, <1>8, FirstTask DEF UpdateList
  <1>10. PICK more : more = IF n # old \/ u.scale THEN ScaleTasks(d, t, old, n)
                            ELSE DeployInstances(d, t, 0, n, "restart")
    OBVIOUS
  <1>11. Continue(c, <<>>, more) /\ deps' = [deps EXCEPT ![d] = [n |-> n, t |-> t]]
    BY <1>2, <1>3, <1>4, <1>5, <1>6, <1>9, <1>10, Zenon DEF UpdateDeployment
  <1>12. more \in Seq(TasksOf(c))
    <2>1. ScaleTasks(d, t, old, n) \in Seq(TasksOf(c))
          /\ DeployInstances(d, t, 0, n, "restart") \in Seq(TasksOf(c))
      BY NewLists, Zenon
    <2>. QED
      BY <1>10, <2>1, Zenon
  <1>13. /\ todo'[c] = more /\ todo'[Main] = todo[Main]
         /\ \A dos : Busy(c, dos) <=> Task(c).do \in dos
         /\ \A dos, p : Work(c, dos, p) <=> Task(c).do \in dos /\ Task(c).pod = p
         /\ \A dos, e : WorkOn(c, dos, e) <=> Task(c).do \in dos /\ Task(c).dep = e
    BY <1>0, <1>1, <1>9, <1>11, <1>12, OneMoreIs, Zenon
  <1>14. Idle(c)
    <2>1. PICK do : do = u.do
      OBVIOUS
    <2>2. /\ do \notin Purges /\ do \notin PurgeAll /\ do \notin {<<"dropDep">>} /\ do \notin AllDos
          /\ do \notin {<<"remove">>}
      <3>1. <<"update">> \notin Finals /\ <<"update">> \notin AllDos /\ <<"update">> # <<"remove">>
            /\ <<"update">> # <<"dropDep">>
        BY Kinds, PlainHeads DEF AllDos, Deploys, Goes, Finals
      <3>. QED
        BY <1>7, <2>1, <3>1 DEF Finals, Purges
    <2>3. /\ \A dos : Busy(c, dos) <=> do \in dos
          /\ \A dos, p : Work(c, dos, p) => do \in dos
          /\ \A dos, e : WorkOn(c, dos, e) => do \in dos
      BY <1>2, <1>13, <2>1
    <2>4. \A dos : dos \subseteq AllDos => \A p : ~Work(c, dos, p)
      BY <2>2, <2>3, Zenon
    <2>5. /\ ~Busy(c, Purges) /\ ~Busy(c, PurgeAll) /\ ~Busy(c, {<<"remove">>})
          /\ \A e : ~WorkOn(c, {<<"dropDep">>}, e)
      BY <2>2, <2>3, Zenon
    <2>. QED
      BY <2>4, <2>5, IdleNow
  <1>15. /\ deps'[d] # Absent /\ deps'[d].n = n /\ \A e \in Deps \ {d} : deps'[e] = deps[e]
    <2>1. PICK v \in [n : 0..MaxReplicas, t : Specs] : v = [n |-> n, t |-> t]
      OBVIOUS
    <2>2. v.n = n /\ v # Absent
      BY <2>1, NamesAssumption
    <2>3. deps'[d] = v /\ \A e \in Deps \ {d} : deps'[e] = deps[e]
      BY <1>0, <1>11, <2>1 DEF StateType
    <2>. QED
      BY <2>2, <2>3
  <1>16. UNCHANGED <<pods, file, unit, up, failed, revived>>
    BY DEF UpdateDeployment, host, history
  <1>17. /\ \A e \in Deps \ {d} : Desired(e)' = Desired(e)
         /\ Desired(d) = {Inst[d][i] : i \in 0..(old - 1)}
         /\ Desired(d)' = {Inst[d][i] : i \in 0..(n - 1)}
    BY <1>9, <1>15, AskedIs DEF Desired
  <1>18. CASE old <= n
    <2>1. \A e \in Deps : Desired(e) \subseteq Desired(e)'
      BY <1>17, <1>18
    <2>2. CASE n # old \/ u.scale
      <3>1. todo'[c] = DeployInstances(d, t, old, n, "start")
        BY <1>10, <1>13, <1>18, <2>2, ScaleIs
      <3>2. \A i \in old..(n - 1) : Inst[d][i] \in Desired(d)' /\ ~Wanted(Inst[d][i])
        <4> TAKE i \in old..(n - 1)
        <4>1. i \in 0..(MaxReplicas - 1) /\ i \in 0..(n - 1) /\ ~(i < old)
          BY <1>0
        <4>. QED
          BY <1>0, <1>9, <1>17, <4>1, WantedOf
      <3>3. "start" \in {"start", "restart"}
        OBVIOUS
      <3>. QED
        BY <1>13, <1>14, <1>16, <2>1, <3>1, <3>2, <3>3, AccountFresh
    <2>3. CASE ~(n # old \/ u.scale)
      <3>1. todo'[c] = DeployInstances(d, t, 0, n, "restart")
        BY <1>10, <1>13, <2>3
      <3>2. \A i \in 0..(n - 1) : Inst[d][i] \in Desired(d)'
        BY <1>17
      <3>3. "restart" \in {"start", "restart"} /\ "restart" # "start"
        OBVIOUS
      <3>. QED
        BY <1>0, <1>13, <1>14, <1>16, <2>1, <3>1, <3>2, <3>3, AccountFresh
    <2>. QED
      BY <2>2, <2>3
  <1>19. CASE n < old
    <2>1. PICK ps : ps = Range_(d, n, old)
      OBVIOUS
    <2>2. todo'[c] = Each(<<"stop", "unlink", "drop">>, ps)
      BY <1>10, <1>13, <1>19, <2>1, ScaleIs
    <2>3. /\ ps \in Seq(Pods) /\ Once(ps)
          /\ \A i \in n..(old - 1) : \E j \in 1..Len(ps) : ps[j] = Inst[d][i]
      BY <2>1, RangeIs, RangeOnce, Zenon
    <2>4. /\ ListInv(c)' /\ StopsFirst(c)' /\ (\A q : ~Work(c, Deploys, q)')
          /\ ~Busy(c, Purges)' /\ (\A e : ~WorkOn(c, {<<"dropDep">>}, e)')
          /\ \A j \in 1..Len(ps) :
               Work(c, Stops, ps[j])' /\ Work(c, Unlinks, ps[j])' /\ Work(c, Drops, ps[j])'
          /\ \A q : Work(c, Drops, q)' => \E i \in 1..Len(ps) : q = ps[i]
      BY <2>2, <2>3, GoingIs
    <2>5. \A q : ~Work(c, Drops, q)' => (Kept(c, q)' <=> Wanted(q)' \/ (q \in Standalone /\ Stored(q)'))
      BY <2>4, KeptIs
    <2>6. ASSUME NEW q \in Pods PROVE Away(c, q)' \/ (Kept(c, q) => Kept(c, q)')
      <3>1. CASE Work(c, Drops, q)'
        BY <2>4, <3>1 DEF Away
      <3>2. CASE ~Work(c, Drops, q)'
        <4>1. ASSUME Wanted(q) PROVE Wanted(q)' \/ Away(c, q)'
          <5>1. PICK e \in Deps : q \in Desired(e)
            BY <4>1 DEF Wanted
          <5>2. CASE e # d
            BY <1>17, <5>1, <5>2 DEF Wanted
          <5>3. CASE e = d
            <6>1. PICK i \in 0..(old - 1) : q = Inst[d][i]
              BY <1>17, <5>1, <5>3
            <6>2. CASE i < n
              <7>1. i \in 0..(n - 1)
                BY <6>2
              <7>. QED
                BY <1>17, <6>1, <7>1 DEF Wanted
            <6>3. CASE i >= n
              <7>1. i \in n..(old - 1)
                BY <6>3
              <7>2. PICK j \in 1..Len(ps) : ps[j] = q
                BY <2>3, <6>1, <7>1
              <7>. QED
                BY <2>4, <7>2 DEF Away
            <6>. QED
              BY <6>2, <6>3
          <5>. QED
            BY <5>2, <5>3
        <4>. QED
          BY <1>14, <1>16, <2>5, <3>2, <4>1 DEF Idle, Stored
      <3>. QED
        BY <3>1, <3>2
    <2>. QED
      BY <1>13, <1>14, <1>16, <2>4, <2>6, AccountAway
  <1>. QED
    BY <1>18, <1>19

LEMMA AccountRequests ==
  ASSUME TypeInv, NEW c \in Actors, c # Main, Main \in Actors, AccountInv(c), Request(c)
  PROVE  AccountInv(c)'
  <1>1. ASSUME NEW p \in Standalone, NEW t \in Templates, PostPod(c, p, t) PROVE AccountInv(c)'
    BY <1>1, AccountPostPod
  <1>2. ASSUME NEW p \in Pods \ revived, NEW t \in Templates, PatchPod(c, p, t) PROVE AccountInv(c)'
    <2>1. p \in Pods /\ p \notin revived
      OBVIOUS
    <2>. QED
      BY <1>2, <2>1, AccountPatchPod
  <1>3. ASSUME NEW p \in Pods, DeletePod(c, p) PROVE AccountInv(c)'
    BY <1>3, AccountDeletePod
  <1>4. ASSUME NEW d \in Deps, NEW n \in 0..MaxReplicas, NEW t \in Templates, PostDeployment(c, d, n, t)
        PROVE  AccountInv(c)'
    BY <1>4, AccountPostDeployment
  <1>5. ASSUME NEW d \in Deps, NEW n \in 0..MaxReplicas, NEW t \in Specs, NEW scale \in BOOLEAN,
               ChangeDeployment(c, d, n, t, scale)
        PROVE  AccountInv(c)'
    BY <1>5, AccountChangeDeployment
  <1>6. ASSUME NEW d \in Deps, DeleteDeployment(c, d) PROVE AccountInv(c)'
    BY <1>6, AccountDeleteDeployment
  <1>7. ASSUME PostNamespace(c) \/ DeleteNamespace(c) PROVE AccountInv(c)'
    BY <1>7, AccountPostNamespace, AccountDeleteNamespace
  <1>. QED
    BY <1>1, <1>2, <1>3, <1>4, <1>5, <1>6, <1>7 DEF Request

LEMMA AccountNext ==
  ASSUME NEW c, Clients = {c}, CanCrash = FALSE, TypeInv, AccountInv(c), [Next]_vars
  PROVE  AccountInv(c)'
  <1>1. c \in Actors /\ c # Main /\ Main \in Actors /\ Actors = {c, Main} /\ TodoType
    BY OneClient, TypeParts
  <1>2. ASSUME Request(c) PROVE AccountInv(c)'
    BY <1>1, <1>2, AccountRequests
  <1>3. ASSUME Step(c) PROVE AccountInv(c)'
    <2>1. \/ Write(c) \/ Sync(c) \/ CreateInstance(c) \/ Run(c)
          \/ StopUnit(c) \/ Unlink(c) \/ DropPod(c)
          \/ UpdateDeployment(c) \/ DropDeployment(c)
          \/ PurgeDeployments(c) \/ RemoveReplicas(c) \/ Purge(c) \/ DropNamespace(c)
      BY <1>1, <1>3, StepsOf, Zenon
    <2>2. CASE Write(c) \/ Sync(c) \/ CreateInstance(c) \/ Run(c)
      BY <1>1, <2>2, AccountWrite, AccountSync, AccountRun
    <2>3. CASE StopUnit(c) \/ Unlink(c) \/ DropPod(c)
      BY <1>1, <2>3, AccountGoSteps
    <2>4. CASE UpdateDeployment(c) \/ DropDeployment(c) \/ DropNamespace(c)
      BY <1>1, <2>4, AccountUpdate, AccountDrops
    <2>5. CASE PurgeDeployments(c) \/ RemoveReplicas(c) \/ Purge(c)
      BY <1>1, <2>5, AccountPurgeDeployments, AccountRemoveReplicas, AccountPurge
    <2>. QED
      BY <2>1, <2>2, <2>3, <2>4, <2>5
  <1>4. ASSUME Step(Main) PROVE AccountInv(c)'
    BY <1>1, <1>4, AccountMainSteps
  <1>5. ASSUME NEW a \in Actors, Fails(a) PROVE AccountInv(c)'
    BY <1>1, <1>5, AccountFails
  <1>6. ASSUME ListOwned \/ UNCHANGED vars PROVE AccountInv(c)'
    BY <1>1, <1>6, AccountListOwned, AccountStutters
  <1>7. ~Crash /\ ~Restart
    BY AccountParts DEF Crash, Restart
  <1>. QED
    BY <1>1, <1>2, <1>3, <1>4, <1>5, <1>6, <1>7 DEF Next

LEMMA AccountInit ==
  ASSUME NEW c, Clients = {c}, CanCrash = FALSE, Init
  PROVE  AccountInv(c)
  <1>1. c \in Actors /\ c # Main /\ Main \in Actors
    BY OneClient, Zenon
  <1>2. /\ todo[c] = <<>> /\ todo[Main] = <<>> /\ up
        /\ \A p \in Pods : pods[p] = Absent /\ file[p] = Absent /\ unit[p] = Absent
    BY <1>1 DEF Init
  <1>3. /\ \A dos : ~Busy(c, dos)
        /\ \A dos, p : ~Work(c, dos, p)
        /\ \A dos, p, t : ~WorkAs(c, dos, p, t)
    BY <1>2 DEF Busy, Work, WorkAs
  <1>4. ListInv(c) /\ StopsFirst(c)
    <2>1. DeployList(c)
      BY <1>2 DEF DeployList
    <2>. QED
      BY <1>2, <1>3, <2>1 DEF ListInv, StopsFirst
  <1>5. MainImports
    BY <1>2 DEF MainImports
  <1>6. Owns
    BY <1>2 DEF Owns, Stored
  <1>7. ASSUME NEW p \in Pods PROVE PodAccounted(c, p)
    <2>1. Accounted(c, p)
      BY <1>2 DEF Accounted, Stored
    <2>2. Agrees(c, p)
      BY <1>2 DEF Agrees, Stored
    <2>3. Renewed(c, p)
      BY <1>3 DEF Renewed
    <2>. QED
      BY <2>1, <2>2, <2>3 DEF PodAccounted
  <1>. QED
    BY <1>2, <1>4, <1>5, <1>6, <1>7, AccountParts

LEMMA AccountedAtRest ==
  ASSUME NEW c, Clients = {c}, AccountInv(c)
  PROVE  NothingUnaccounted /\ StoreFileUnitAgree
  <1> SUFFICES ASSUME AtRest, NEW p \in Pods \ failed
               PROVE  /\ file[p] # Absent \/ unit[p] # Absent => Stored(p) \/ p \in AllDesired
                      /\ Stored(p) /\ pods[p].t # Stub => file[p] = pods[p].t
                      /\ file[p] # Absent => unit[p] = file[p]
    BY DEF NothingUnaccounted, StoreFileUnitAgree
  <1>1. todo[c] = <<>>
    BY DEF AtRest
  <1>2. /\ \A dos : ~Busy(c, dos)
        /\ \A dos, e : ~Work(c, dos, e) /\ ~WorkOn(c, dos, e)
    BY <1>1, NothingToDo, Zenon
  <1>3. Idle(c)
    <2>1. ~Busy(c, Purges) /\ ~Busy(c, PurgeAll) /\ ~Busy(c, {<<"remove">>})
      BY <1>2
    <2>2. /\ \A d : ~WorkOn(c, {<<"dropDep">>}, d)
          /\ \A dos : dos \subseteq AllDos => \A q : ~Work(c, dos, q)
      BY <1>2
    <2>. QED
      BY <2>1, <2>2, IdleNow
  <1>4. PICK u : u = pods[p].t
    OBVIOUS
  <1>5. Peace(c, p, u)
    BY <1>3, <1>4 DEF Idle
  <1>6. Kept(c, p) => Stored(p) \/ p \in AllDesired
    BY <1>3 DEF Idle, Wanted, AllDesired
  <1>. QED
    BY <1>4, <1>5, <1>6 DEF Peace

(* The inductive invariant of both theorems below.  A request's tasks are  *)
(* what keeps store, file and unit from agreeing, so the invariant says of *)
(* each list of tasks what it is still to do for the pods that do not.     *)
LEMMA WorkloadsInductive ==
  ASSUME NEW c, Clients = {c}, CanCrash = FALSE
  PROVE  /\ Init => TypeInv /\ AccountInv(c)
         /\ TypeInv /\ AccountInv(c) /\ [Next]_vars => TypeInv' /\ AccountInv(c)'
         /\ TypeInv /\ AccountInv(c) => NothingUnaccounted /\ StoreFileUnitAgree
  <1>1. Init => TypeInv /\ AccountInv(c)
    BY TypeInit, AccountInit
  <1>2. TypeInv /\ AccountInv(c) /\ [Next]_vars => TypeInv' /\ AccountInv(c)'
    BY TypeNext, AccountNext
  <1>3. TypeInv /\ AccountInv(c) => NothingUnaccounted /\ StoreFileUnitAgree
    BY AccountedAtRest
  <1>. QED
    BY <1>1, <1>2, <1>3

(* Nothing runs unaccounted for.  Once q8s has started and until it dies,  *)
(* whatever requests a client has made, in whichever order, and whatever   *)
(* the passes over podman import or prune meanwhile, every quadlet file    *)
(* and every running unit is of a stored pod or of a replica a stored      *)
(* Deployment asks for (scaleDeployment, stopDeploymentUnits,              *)
(* purgeNamespaceResources).                                               *)
THEOREM WorkloadsAreAccounted ==
  ASSUME NEW c, Clients = {c}, CanCrash = FALSE
  PROVE  Spec => []NothingUnaccounted
  <1>. DEFINE IInv == TypeInv /\ AccountInv(c)
  <1>1. Init => IInv
    BY WorkloadsInductive
  <1>2. IInv /\ [Next]_vars => IInv'
    BY WorkloadsInductive
  <1>3. IInv => NothingUnaccounted
    BY WorkloadsInductive
  <1>. QED
    BY <1>1, <1>2, <1>3, PTL DEF Spec

(* The stored spec, the quadlet file and the running unit agree between    *)
(* the requests of a client, from startup until q8s dies: a changed file is*)
(* followed by a restart, an unchanged one by none, and a replica's stored *)
(* pod by its Deployment (writeQuadletFilesTracked, SyncPodTemplate).      *)
THEOREM WorkloadsAgree ==
  ASSUME NEW c, Clients = {c}, CanCrash = FALSE
  PROVE  Spec => []StoreFileUnitAgree
  <1>. DEFINE IInv == TypeInv /\ AccountInv(c)
  <1>1. Init => IInv
    BY WorkloadsInductive
  <1>2. IInv /\ [Next]_vars => IInv'
    BY WorkloadsInductive
  <1>3. IInv => StoreFileUnitAgree
    BY WorkloadsInductive
  <1>. QED
    BY <1>1, <1>2, <1>3, PTL DEF Spec

=============================================================================
