----------------------------- MODULE Workloads -----------------------------
(***************************************************************************)
(* Pods and Deployments: the API handlers of internal/server/handler.go,   *)
(* ReconcileQuadlets at startup, and reconcilePodmanPods of                *)
(* cmd/q8s/main.go, over the store, the quadlet directory and systemd.     *)
(*                                                                         *)
(* A request in flight, and the main goroutine's current pass, is the list *)
(* of tasks still to do; every task is a pod (or a Deployment) with the    *)
(* stages left for it.  One step executes the first stage of the first     *)
(* task of one actor, so that actors interleave between any two accesses   *)
(* to the store, the file system or systemd.                               *)
(*                                                                         *)
(* A pod stands for a single container and a single namespace is modelled. *)
(* A container template is an opaque value; Stub is the one made up from a *)
(* container's labels.  The store is taken as durable: Store has the lag.  *)
(***************************************************************************)
EXTENDS Integers, FiniteSets, Sequences, SequencesExt

CONSTANTS
  Clients, Main,     \* API clients (one request at a time each), main goroutine
  Standalone,        \* pods made through the Pod API
  Deps, MaxReplicas, \* Deployments and the bound on their replicas
  Inst,              \* Inst[d][i]: the pod "{d}-{i}"
  Templates, Stub,
  Absent,
  Flapping,          \* pods whose container may be gone when podman is asked
  Faulty,            \* pods at which a file or systemd operation may fail
  CanCrash           \* whether q8s may die, and start again while clients call

Instances == {Inst[d][i] : d \in Deps, i \in 0..(MaxReplicas - 1)}
Pods == Standalone \cup Instances
Specs == Templates \cup {Stub}

ASSUME NamesAssumption ==
  /\ MaxReplicas \in Nat /\ IsFiniteSet(Deps) /\ IsFiniteSet(Standalone)
  /\ Inst \in [Deps -> [0..(MaxReplicas - 1) -> Instances]]
  /\ \A d, e \in Deps, i, j \in 0..(MaxReplicas - 1) : Inst[d][i] = Inst[e][j] => d = e /\ i = j
  /\ Standalone \cap Instances = {}
  /\ Main \notin Clients
  /\ Stub \notin Templates /\ Absent \notin Specs
  /\ Absent \notin [n : 0..MaxReplicas, t : Specs] \cup [t : Specs, owned : BOOLEAN]

VARIABLES
  ns,       \* the Namespace entry exists
  deps,     \* Store.deployments: replicas n and template t
  pods,     \* Store.pods: spec t, and whether a Deployment owns it
  file,     \* the quadlet file of each pod
  unit,     \* what the running unit of each pod was started from
  todo,     \* the tasks each actor has left
  up,       \* q8s runs
  failed,   \* history: pods at which an operation ever failed
  missing,  \* history: replicas a client deleted as pods, or never asked for
  revived   \* history: pods imported though their container is gone

host == <<file, unit>>
store == <<ns, deps, pods>>
history == <<failed, missing, revived>>
vars == <<store, host, todo, up, history>>

Actors == Clients \cup {Main}
DepOf(p) == {d \in Deps : \E i \in 0..(MaxReplicas - 1) : Inst[d][i] = p}
Stored(p) == pods[p] # Absent
Orders(S) == SetToSeqs(S)

---------------------------------------------------------------------------
(* Tasks                                                                   *)

Stages == {"write", "sync", "create", "start", "restart",
           "stop", "unlink", "drop", "update", "dropDep",
           "purgeDeps", "remove", "purge", "dropNs",
           "bootDeps", "restore", "bootPods", "regen", "rewrite",
           "ns", "dep", "pod", "allPods", "known", "prune"}

PodTask(do, p, t, o) == [do |-> do, pod |-> p, t |-> t, owned |-> o]
DepTask(do, d) == [do |-> do, dep |-> d, n |-> deps[d].n, t |-> deps[d].t]
Each(do, ps) == [j \in 1..Len(ps) |-> PodTask(do, ps[j], Stub, FALSE)]

Doing(a, stage) == up /\ todo[a] # <<>> /\ Head(Head(todo[a]).do) = stage
Task(a) == Head(todo[a])

(* The current task goes on with the stages `do`, or ends, with `more` next. *)
Continue(a, do, more) ==
  todo' = [todo EXCEPT ![a] =
             (IF do = <<>> THEN <<>> ELSE <<[Head(@) EXCEPT !.do = do]>>) \o more \o Tail(@)]
Advance(a) == Continue(a, Tail(Task(a).do), <<>>)
Skip(a) == Continue(a, <<>>, <<>>)

(* Pods "{d}-{from}" to "{d}-{to - 1}" in order. *)
Range_(d, from, to) ==
  [j \in 1..(IF to > from THEN to - from ELSE 0) |-> Inst[d][from + j - 1]]

(* deployDeploymentInstance for each of them *)
DeployInstances(d, t, from, to, how) ==
  LET ps == Range_(d, from, to)
  IN  [j \in 1..Len(ps) |-> PodTask(<<"write", "sync", how>>, ps[j], t, TRUE)]

(* Mutation test: the last replica is not deployed. *)
ScaleTasksFaulty(d, t, old, new) ==
  DeployInstances(d, t, old, new - 1, "start")
    \o Each(<<"stop", "unlink", "drop">>, Range_(d, new, old))

(* Mutation test: the first surplus replica stays. *)
ScaleTasksLeak(d, t, old, new) ==
  DeployInstances(d, t, old, new, "start")
    \o Each(<<"stop", "unlink", "drop">>, Range_(d, new + 1, old))

(* scaleDeployment: surplus replicas go one by one, files before the store. *)
ScaleTasks(d, t, old, new) ==
  DeployInstances(d, t, old, new, "start")
    \o Each(<<"stop", "unlink", "drop">>, Range_(d, new, old))

---------------------------------------------------------------------------
(* Requests                                                                *)

Accept(c, tasks) ==
  /\ up
  /\ c \in Clients
  /\ todo[c] = <<>>
  /\ todo' = [todo EXCEPT ![c] = tasks]

(* POST pods: an existing name is a conflict. *)
PostPod(c, p, t) ==
  /\ ~Stored(p)
  /\ pods' = [pods EXCEPT ![p] = [t |-> t, owned |-> FALSE]]
  /\ Accept(c, <<PodTask(<<"write", "start">>, p, t, FALSE)>>)
  /\ revived' = revived \ {p}
  /\ UNCHANGED <<ns, deps, host, up, failed, missing>>

(* Mutation test: a patched pod is started, not restarted. *)
PatchPodFaulty(c, p, t) ==
  /\ Stored(p)
  /\ pods' = [pods EXCEPT ![p].t = t]
  /\ Accept(c, <<PodTask(<<"write", "start">>, p, t, FALSE)>>)
  /\ UNCHANGED <<ns, deps, host, up, history>>

(* PATCH: the stored spec is replaced, then redeployed. *)
PatchPod(c, p, t) ==
  /\ Stored(p)
  /\ pods' = [pods EXCEPT ![p].t = t]
  /\ Accept(c, <<PodTask(<<"write", "restart">>, p, t, FALSE)>>)
  /\ UNCHANGED <<ns, deps, host, up, history>>

(* DELETE: unit, file, then the store.  Nothing brings a replica of a      *)
(* Deployment back before the Deployment is deployed again.                *)
DeletePod(c, p) ==
  /\ Stored(p)
  /\ Accept(c, Each(<<"stop", "unlink", "drop">>, <<p>>))
  /\ missing' = missing \cup ({p} \cap Instances)
  /\ UNCHANGED <<store, host, up, failed, revived>>

PostDeployment(c, d, n, t) ==
  /\ deps[d] = Absent
  /\ deps' = [deps EXCEPT ![d] = [n |-> n, t |-> t]]
  /\ Accept(c, DeployInstances(d, t, 0, n, "start"))
  /\ UNCHANGED <<ns, pods, host, up, history>>

(* PUT, PATCH and the scale subresource read the Deployment, then store    *)
(* the new one; a scale keeps the template as read.                        *)
ChangeDeployment(c, d, n, t, scale) ==
  /\ deps[d] # Absent
  /\ t \in Templates \cup {deps[d].t}
  /\ scale => t = deps[d].t
  /\ Accept(c, <<[do |-> <<"update">>, dep |-> d, n |-> n, t |-> t,
                  old |-> deps[d].n, scale |-> scale]>>)
  /\ UNCHANGED <<store, host, up, history>>

(* stopDeploymentUnits, removeDeploymentQuadlets, deleteDeploymentPods and *)
(* DeleteDeployment, over the replicas it had when it was read.            *)
DeleteDeployment(c, d) ==
  /\ deps[d] # Absent
  /\ LET ps == Range_(d, 0, deps[d].n)
     IN  Accept(c, Each(<<"stop">>, ps) \o Each(<<"unlink">>, ps) \o Each(<<"drop">>, ps)
                     \o <<[do |-> <<"dropDep">>, dep |-> d]>>)
  /\ UNCHANGED <<store, host, up, history>>

(* The namespace is the only one in the model; creating it touches no pod. *)
PostNamespace(c) ==
  /\ ~ns
  /\ ns' = TRUE
  /\ Accept(c, <<>>)
  /\ UNCHANGED <<deps, pods, host, up, history>>

DeleteNamespace(c) ==
  /\ ns
  /\ \E ps \in Orders({p \in Pods : Stored(p)}) :
       Accept(c, Each(<<"stop", "unlink">>, ps) \o <<[do |-> <<"purgeDeps", "purge", "dropNs">>]>>)
  /\ UNCHANGED <<store, host, up, history>>

---------------------------------------------------------------------------
(* Stages of the handlers                                                  *)

(* What is left of a deployment whose files are written: an unchanged pod  *)
(* is not restarted, which would come last.                                *)
AfterWrite(do, changed) ==
  IF ~changed /\ Last(do) = "restart" THEN Front(Tail(do)) ELSE Tail(do)

(* Mutation test: a file that exists is taken for up to date. *)
WriteFaulty(a) ==
  /\ Doing(a, "write")
  /\ LET p == Task(a).pod
         changed == file[p] = Absent
     IN  /\ file' = IF changed THEN [file EXCEPT ![p] = Task(a).t] ELSE file
         /\ Continue(a, AfterWrite(Task(a).do, changed), <<>>)
  /\ missing' = missing \ {Task(a).pod}
  /\ UNCHANGED <<store, unit, up, failed, revived>>

(* writeQuadletFilesTracked: a file with the same template hash is left    *)
(* alone, and its unit is then not restarted.                              *)
Write(a) ==
  /\ Doing(a, "write")
  /\ LET p == Task(a).pod
         changed == file[p] # Task(a).t
     IN  /\ file' = [file EXCEPT ![p] = Task(a).t]
         /\ Continue(a, AfterWrite(Task(a).do, changed), <<>>)
  /\ missing' = missing \ {Task(a).pod}
  /\ UNCHANGED <<store, unit, up, failed, revived>>

(* Unresolved env references, rendering or the write fail: the pod is left *)
(* as it is, and the handler goes on as if nothing had happened.           *)
WriteFails(a) ==
  /\ Doing(a, "write") \/ Doing(a, "rewrite")
  /\ Task(a).pod \in Faulty
  /\ failed' = failed \cup {Task(a).pod}
  /\ Skip(a)
  /\ UNCHANGED <<store, host, up, missing, revived>>

(* SyncPodTemplate, or CreatePod for a pod that is not stored. *)
Sync(a) ==
  /\ Doing(a, "sync")
  /\ IF Stored(Task(a).pod)
       THEN /\ pods' = [pods EXCEPT ![Task(a).pod] = [t |-> Task(a).t, owned |-> TRUE]]
            /\ Advance(a)
       ELSE /\ UNCHANGED pods
            /\ Continue(a, <<"create">> \o Tail(Task(a).do), <<>>)
  /\ UNCHANGED <<ns, deps, host, up, history>>

CreateInstance(a) ==
  /\ Doing(a, "create")
  /\ IF Stored(Task(a).pod)
       THEN UNCHANGED pods
       ELSE pods' = [pods EXCEPT ![Task(a).pod] = [t |-> Task(a).t, owned |-> TRUE]]
  /\ Advance(a)
  /\ UNCHANGED <<ns, deps, host, up, history>>

(* daemon-reload, then StartUnit (nothing for an active unit) or           *)
(* RestartUnit; a unit without a file does not exist.                      *)
Run(a) ==
  /\ Doing(a, "start") \/ Doing(a, "restart")
  /\ LET p == Task(a).pod
         old == IF Doing(a, "start") THEN unit[p] ELSE Absent
         new == IF old # Absent THEN old ELSE file[p]
     IN  unit' = [unit EXCEPT ![p] = new]
  /\ Advance(a)
  /\ UNCHANGED <<store, file, up, history>>

(* The reload or the start fails: an error is printed, nothing retries. *)
RunFails(a) ==
  /\ Doing(a, "start") \/ Doing(a, "restart")
  /\ Task(a).pod \in Faulty
  /\ \E u \in {unit[Task(a).pod], Absent} : unit' = [unit EXCEPT ![Task(a).pod] = u]
  /\ failed' = failed \cup {Task(a).pod}
  /\ Advance(a)
  /\ UNCHANGED <<store, file, up, missing, revived>>

(* stopAndRemoveUnit: StopUnit and `podman rm -f` of the container. *)
StopUnit(a) ==
  /\ Doing(a, "stop")
  /\ unit' = [unit EXCEPT ![Task(a).pod] = Absent]
  /\ Advance(a)
  /\ UNCHANGED <<store, file, up, history>>

(* os.Remove of the quadlet file, then daemon-reload. *)
Unlink(a) ==
  /\ Doing(a, "unlink")
  /\ file' = [file EXCEPT ![Task(a).pod] = Absent]
  /\ Advance(a)
  /\ UNCHANGED <<store, unit, up, history>>

(* The errors of both are ignored. *)
TeardownFails(a) ==
  /\ Doing(a, "stop") \/ Doing(a, "unlink")
  /\ Task(a).pod \in Faulty
  /\ failed' = failed \cup {Task(a).pod}
  /\ Advance(a)
  /\ UNCHANGED <<store, host, up, missing, revived>>

(* Store.DeletePod, whose "not found" is reported or ignored. *)
DropPod(a) ==
  /\ Doing(a, "drop")
  /\ pods' = [pods EXCEPT ![Task(a).pod] = Absent]
  /\ revived' = revived \ {Task(a).pod}
  /\ Advance(a)
  /\ UNCHANGED <<ns, deps, host, up, failed, missing>>

(* Mutation test: the new number of replicas is added to the stored one. *)
UpdateDeploymentFaulty(a) ==
  /\ Doing(a, "update")
  /\ LET u == Task(a)
         d == u.dep
     IN  IF deps[d] = Absent
           THEN /\ UNCHANGED deps
                /\ Skip(a)
           ELSE /\ deps' = [deps EXCEPT ![d] = [n |-> @.n + u.n, t |-> u.t]]
                /\ Continue(a, <<>>, <<>>)
  /\ UNCHANGED <<ns, pods, host, up, history>>

(* UpdateDeployment; equal replicas mean every replica is redeployed,      *)
(* other replicas mean only the difference is.                             *)
UpdateDeployment(a) ==
  /\ Doing(a, "update")
  /\ LET u == Task(a)
         d == u.dep
     IN  IF deps[d] = Absent
           THEN /\ UNCHANGED deps
                /\ Skip(a)
           ELSE /\ deps' = [deps EXCEPT ![d] = [n |-> u.n, t |-> u.t]]
                /\ Continue(a, <<>>, IF u.n # u.old \/ u.scale
                                       THEN ScaleTasks(d, u.t, u.old, u.n)
                                       ELSE DeployInstances(d, u.t, 0, u.n, "restart"))
  /\ UNCHANGED <<ns, pods, host, up, history>>

DropDeployment(a) ==
  /\ Doing(a, "dropDep")
  /\ deps' = [deps EXCEPT ![Task(a).dep] = Absent]
  /\ Advance(a)
  /\ UNCHANGED <<ns, pods, host, up, history>>

(* purgeNamespaceResources after the pods: Store.Deployments is read now ... *)
PurgeDeployments(a) ==
  /\ Doing(a, "purgeDeps")
  /\ \E ds \in Orders({d \in Deps : deps[d] # Absent}) :
       todo' = [todo EXCEPT ![a] =
                  [j \in 1..Len(ds) |-> DepTask(<<"remove">>, ds[j])]
                    \o <<[do |-> Tail(Task(a).do)]>> \o Tail(@)]
  /\ UNCHANGED <<store, host, up, history>>

(* ... and each goes with the replicas it had. *)
RemoveReplicas(a) ==
  /\ Doing(a, "remove")
  /\ LET ps == Range_(Task(a).dep, 0, Task(a).n)
     IN  Continue(a, <<>>, Each(<<"stop">>, ps) \o Each(<<"unlink">>, ps))
  /\ UNCHANGED <<store, host, up, history>>

(* Store.PurgeNamespace *)
Purge(a) ==
  /\ Doing(a, "purge")
  /\ pods' = [p \in Pods |-> Absent]
  /\ deps' = [d \in Deps |-> Absent]
  /\ revived' = {}
  /\ Advance(a)
  /\ UNCHANGED <<ns, host, up, failed, missing>>

DropNamespace(a) ==
  /\ Doing(a, "dropNs")
  /\ ns' = FALSE
  /\ Advance(a)
  /\ UNCHANGED <<deps, pods, host, up, history>>

---------------------------------------------------------------------------
(* ReconcileQuadlets, run by main while the server already serves.         *)

Boot == <<[do |-> <<"bootDeps">>], [do |-> <<"bootPods">>]>>

BootDeps(a) ==
  /\ Doing(a, "bootDeps")
  /\ \E ds \in Orders({d \in Deps : deps[d] # Absent}) :
       Continue(a, <<>>, [j \in 1..Len(ds) |-> DepTask(<<"restore">>, ds[j])])
  /\ UNCHANGED <<store, host, up, history>>

RestoreReplicas(a) ==
  /\ Doing(a, "restore")
  /\ LET ps == Range_(Task(a).dep, 0, Task(a).n)
     IN  Continue(a, <<>>,
           [i \in 1..Len(ps) |-> PodTask(<<"sync", "regen">>, ps[i], Task(a).t, TRUE)])
  /\ UNCHANGED <<store, host, up, history>>

BootPods(a) ==
  /\ Doing(a, "bootPods")
  /\ \E ps \in Orders({p \in Pods : Stored(p)}) :
       Continue(a, <<>>, [j \in 1..Len(ps) |->
         PodTask(<<"regen">>, ps[j], pods[ps[j]].t, pods[ps[j]].owned)])
  /\ UNCHANGED <<store, host, up, history>>

(* Mutation test: a missing file is noticed, not written. *)
RegenerateFaulty(a) ==
  /\ Doing(a, "regen")
  /\ Advance(a)
  /\ UNCHANGED <<store, host, up, history>>

(* Only a missing file is rendered again. *)
Regenerate(a) ==
  /\ Doing(a, "regen")
  /\ IF file[Task(a).pod] # Absent
       THEN Advance(a)
       ELSE Continue(a, <<"rewrite">>, <<>>)
  /\ UNCHANGED <<store, host, up, history>>

(* The file is written, and its unit started once all files are; unless a  *)
(* request has put the same one there in the meantime.                     *)
Rewrite(a) ==
  /\ Doing(a, "rewrite")
  /\ IF file[Task(a).pod] = Task(a).t
       THEN Advance(a)
       ELSE todo' = [todo EXCEPT ![a] = Tail(@) \o <<[Head(@) EXCEPT !.do = <<"start">>]>>]
  /\ file' = [file EXCEPT ![Task(a).pod] = Task(a).t]
  /\ UNCHANGED <<store, unit, up, history>>

---------------------------------------------------------------------------
(* reconcilePodmanPods, once at startup and then from syncLoop.            *)

(* podman ps: the containers of running units, but for those that are      *)
(* between two lives of a crash loop.                                      *)
ListOwned ==
  /\ up
  /\ todo[Main] = <<>>
  /\ \E flap \in SUBSET Flapping :
       LET seen == {p \in Pods : unit[p] # Absent} \ flap
       IN  \E ps \in Orders(seen) :
             todo' = [todo EXCEPT ![Main] =
                        Each(<<"ns", "dep", "pod">>, ps) \o <<[do |-> <<"allPods">>, seen |-> seen]>>]
  /\ UNCHANGED <<store, host, up, history>>

ImportIntoNamespace(a) ==
  /\ Doing(a, "ns")
  /\ IF ns THEN Advance(a) ELSE Skip(a)
  /\ UNCHANGED <<store, host, up, history>>

(* The container's Deployment is made up if missing: one replica, a stub.  *)
(* Replicas it then lacks were never asked for.                            *)
ImportDeployment(a) ==
  /\ Doing(a, "dep")
  /\ LET ds == {d \in DepOf(Task(a).pod) : deps[d] = Absent}
     IN  /\ deps' = [d \in Deps |-> IF d \in ds THEN [n |-> 1, t |-> Stub] ELSE deps[d]]
         /\ missing' = missing \cup {Inst[d][i] : d \in ds, i \in 0..(MaxReplicas - 1)}
  /\ Advance(a)
  /\ UNCHANGED <<ns, pods, host, up, failed, revived>>

(* Mutation test: pods of Deployments are left to their handlers. *)
ImportPodFaulty(a) ==
  /\ Doing(a, "pod")
  /\ pods' = IF Stored(Task(a).pod) \/ Task(a).pod \in Instances THEN pods
             ELSE [pods EXCEPT ![Task(a).pod] = [t |-> Stub, owned |-> FALSE]]
  /\ Advance(a)
  /\ UNCHANGED <<ns, deps, host, up, history>>

ImportPod(a) ==
  /\ Doing(a, "pod")
  /\ pods' = IF Stored(Task(a).pod) THEN pods
             ELSE [pods EXCEPT ![Task(a).pod] = [t |-> Stub, owned |-> Task(a).pod \in Instances]]
  /\ revived' = IF Stored(Task(a).pod) \/ unit[Task(a).pod] # Absent THEN revived
                ELSE revived \cup {Task(a).pod}
  /\ Advance(a)
  /\ UNCHANGED <<ns, deps, host, up, failed, missing>>

(* Store.AllPods: candidates are pods of Deployments podman did not list. *)
PruneCandidates(a) ==
  /\ Doing(a, "allPods")
  /\ \E ps \in Orders({p \in Pods \ Task(a).seen : Stored(p) /\ pods[p].owned}) :
       Continue(a, <<>>, Each(<<"known", "prune">>, ps))
  /\ UNCHANGED <<store, host, up, history>>

(* UnitState: systemd knows a unit with a file or a process; what it says  *)
(* of others is its own business.                                          *)
CheckUnit(a) ==
  /\ Doing(a, "known")
  /\ \/ Skip(a)
     \/ /\ file[Task(a).pod] = Absent /\ unit[Task(a).pod] = Absent
        /\ Advance(a)
  /\ UNCHANGED <<store, host, up, history>>

PrunePod(a) ==
  /\ Doing(a, "prune")
  /\ pods' = [pods EXCEPT ![Task(a).pod] = Absent]
  /\ revived' = revived \ {Task(a).pod}
  /\ Advance(a)
  /\ UNCHANGED <<ns, deps, host, up, failed, missing>>

---------------------------------------------------------------------------
(* q8s dies; systemd units and files outlive it. *)
Crash ==
  /\ CanCrash
  /\ up
  /\ up' = FALSE
  /\ todo' = [a \in Actors |-> <<>>]
  /\ UNCHANGED <<store, host, history>>

Restart ==
  /\ ~up
  /\ up' = TRUE
  /\ todo' = [todo EXCEPT ![Main] = Boot]
  /\ UNCHANGED <<store, host, history>>

Init ==
  /\ ns = TRUE
  /\ deps = [d \in Deps |-> Absent]
  /\ pods = [p \in Pods |-> Absent]
  /\ file = [p \in Pods |-> Absent]
  /\ unit = [p \in Pods |-> Absent]
  /\ todo = [a \in Actors |-> IF a = Main /\ CanCrash THEN Boot ELSE <<>>]
  /\ up = TRUE
  /\ failed = {}
  /\ missing = {}
  /\ revived = {}

(* Clients do not PATCH a pod that came back after they deleted it. *)
Request(c) ==
  \/ \E p \in Standalone, t \in Templates : PostPod(c, p, t)
  \/ \E p \in Pods \ revived, t \in Templates : PatchPod(c, p, t)
  \/ \E p \in Pods : DeletePod(c, p)
  \/ \E d \in Deps, n \in 0..MaxReplicas, t \in Templates : PostDeployment(c, d, n, t)
  \/ \E d \in Deps, n \in 0..MaxReplicas, t \in Specs, scale \in BOOLEAN :
       ChangeDeployment(c, d, n, t, scale)
  \/ \E d \in Deps : DeleteDeployment(c, d)
  \/ PostNamespace(c) \/ DeleteNamespace(c)

Step(a) ==
  \/ Write(a) \/ Sync(a) \/ CreateInstance(a) \/ Run(a)
  \/ StopUnit(a) \/ Unlink(a) \/ DropPod(a)
  \/ UpdateDeployment(a) \/ DropDeployment(a)
  \/ PurgeDeployments(a) \/ RemoveReplicas(a) \/ Purge(a) \/ DropNamespace(a)
  \/ BootDeps(a) \/ RestoreReplicas(a) \/ BootPods(a) \/ Regenerate(a) \/ Rewrite(a)
  \/ ImportIntoNamespace(a) \/ ImportDeployment(a) \/ ImportPod(a)
  \/ PruneCandidates(a) \/ CheckUnit(a) \/ PrunePod(a)

Fails(a) == WriteFails(a) \/ RunFails(a) \/ TeardownFails(a)

Next ==
  \/ \E c \in Clients : Request(c)
  \/ \E a \in Actors : Step(a) \/ Fails(a)
  \/ ListOwned
  \/ Crash \/ Restart

Spec == Init /\ [][Next]_vars

(* Handlers and main run on; the 30 s ticker of syncLoop starts a pass even *)
(* if no podman event does.                                                *)
Fairness ==
  /\ \A a \in Actors : WF_vars(Step(a))
  /\ WF_vars(ListOwned)

FairSpec == Spec /\ Fairness

---------------------------------------------------------------------------
TypeOK ==
  /\ ns \in BOOLEAN /\ up \in BOOLEAN
  /\ deps \in [Deps -> [n : 0..MaxReplicas, t : Specs] \cup {Absent}]
  /\ pods \in [Pods -> [t : Specs, owned : BOOLEAN] \cup {Absent}]
  /\ file \in [Pods -> Specs \cup {Absent}]
  /\ unit \in [Pods -> Specs \cup {Absent}]
  /\ DOMAIN todo = Actors
  /\ \A a \in Actors : \A j \in DOMAIN todo[a] :
       todo[a][j].do # <<>> /\ ToSet(todo[a][j].do) \subseteq Stages
  /\ failed \subseteq Pods /\ missing \subseteq Pods /\ revived \subseteq Pods

Pending(a, stages) ==
  \E j \in DOMAIN todo[a] : ToSet(todo[a][j].do) \cap stages # {}
Booting == Pending(Main, {"bootDeps", "restore", "bootPods", "regen", "rewrite"})
AtRest == up /\ ~Booting /\ \A c \in Clients : todo[c] = <<>>

Desired(d) == IF deps[d] = Absent THEN {} ELSE {Inst[d][i] : i \in 0..(deps[d].n - 1)}
AllDesired == UNION {Desired(d) : d \in Deps}

(* Nothing runs unaccounted for: between requests every quadlet file and   *)
(* every running unit belongs to a stored pod or to a replica a stored     *)
(* Deployment asks for, whatever main's reconcile pass does meanwhile; a   *)
(* scale-down or a delete leaves no instance behind ("scaled-down          *)
(* instances linger ... forever", stopAndRemoveUnit).                      *)
NothingUnaccounted ==
  AtRest => \A p \in Pods \ failed :
    file[p] # Absent \/ unit[p] # Absent => Stored(p) \/ p \in AllDesired

(* What the store asks for is deployed: once startup is over and no        *)
(* request is in flight, every replica of a stored Deployment and every    *)
(* stored pod that is not a stub has its quadlet file, though q8s may have *)
(* died between any two steps of any handler (ReconcileQuadlets).          *)
DesiredAreDeployed ==
  AtRest => \A p \in Pods \ failed :
    p \in AllDesired \ missing \/ (Stored(p) /\ pods[p].t # Stub) => file[p] # Absent

(* The stored spec, the quadlet file and the running unit agree between    *)
(* requests: unchanged files are not rewritten, changed ones are restarted *)
(* (deployPodFiles), and SyncPodTemplate keeps the stored pod in step.     *)
StoreFileUnitAgree ==
  AtRest => \A p \in Pods \ failed :
    /\ Stored(p) /\ pods[p].t # Stub => file[p] = pods[p].t
    /\ file[p] # Absent => unit[p] = file[p]

(* Every running container shows up among the pods of its namespace: "it's *)
(* the mechanism that makes Deployment instances visible to kubectl get    *)
(* pods" (reconcilePodmanPods).                                            *)
RunningIsListed ==
  \A p \in Pods \ Flapping :
    (up /\ ns /\ unit[p] # Absent) ~> (Stored(p) \/ unit[p] = Absent \/ ~ns \/ ~up)

(* The comment of reconcilePodmanPods: importing only into namespaces that *)
(* exist "prevents re-importing containers whose pods were explicitly      *)
(* deleted".                                                               *)
DeletedStaysDeleted ==
  AtRest => revived = {}
---------------------------------------------------------------------------
(* The inductive invariants behind the theorems of WorkloadsProofs.        *)

(* The stages left of a pod that is deployed: before its file is written,  *)
(* after, and with its unit to be started or restarted.                    *)
Fresh == {<<"write", "sync", "start">>, <<"write", "start">>}
Syncs == {<<"write", "sync", "start">>, <<"write", "sync", "restart">>}
Replaces == {<<"write", "start">>, <<"write", "restart">>}
Writes == Syncs \cup Replaces
Starts == {<<"sync", "start">>, <<"create", "start">>, <<"start">>}
Restarts == {<<"sync", "restart">>, <<"create", "restart">>, <<"restart">>}
Synced == {<<"sync", "start">>, <<"sync", "restart">>, <<"sync">>}
Created == {<<"create", "start">>, <<"create", "restart">>, <<"create">>}
Written == Starts \cup Restarts \cup Synced \cup Created
Deploys == Writes \cup Written

(* ... of one that goes ... *)
Stops == {<<"stop", "unlink", "drop">>, <<"stop", "unlink">>, <<"stop">>}
Unlinks == {<<"stop", "unlink", "drop">>, <<"stop", "unlink">>,
            <<"unlink", "drop">>, <<"unlink">>}
Drops == {<<"stop", "unlink", "drop">>, <<"unlink", "drop">>, <<"drop">>}
Goes == Stops \cup Unlinks \cup Drops

(* ... and of one that main heals, imports or prunes. *)
Heals == {<<"sync", "regen">>, <<"create", "regen">>, <<"regen">>, <<"rewrite">>}
Imports == {<<"ns", "dep", "pod">>, <<"dep", "pod">>, <<"pod">>}
Prunes == {<<"known", "prune">>, <<"prune">>}
Mains == Heals \cup Imports \cup Prunes \cup {<<"start">>}

PurgeAll == {<<"purgeDeps", "purge", "dropNs">>}
Purges == PurgeAll \cup {<<"purge", "dropNs">>}
Finals == Purges \cup {<<"dropDep">>, <<"dropNs">>}

PodTasks(dos) == [do : dos, pod : Pods, t : Specs, owned : BOOLEAN]
DepTasks(dos) == [do : dos, dep : Deps, n : 0..MaxReplicas, t : Specs]
Updates == [do : {<<"update">>}, dep : Deps, n : 0..MaxReplicas, t : Specs,
            old : 0..MaxReplicas, scale : BOOLEAN]
ClientTasks ==
  PodTasks(Deploys \cup Goes) \cup DepTasks({<<"remove">>}) \cup Updates
    \cup [do : {<<"dropDep">>}, dep : Deps] \cup [do : Purges \cup {<<"dropNs">>}]
MainTasks ==
  PodTasks(Mains) \cup DepTasks({<<"restore">>})
    \cup [do : {<<"bootDeps">>, <<"bootPods">>}] \cup [do : {<<"allPods">>}, seen : SUBSET Pods]

TasksOf(a) == IF a = Main THEN MainTasks ELSE ClientTasks

TypeInv ==
  /\ ns \in BOOLEAN /\ up \in BOOLEAN
  /\ deps \in [Deps -> [n : 0..MaxReplicas, t : Specs] \cup {Absent}]
  /\ pods \in [Pods -> [t : Specs, owned : BOOLEAN] \cup {Absent}]
  /\ file \in [Pods -> Specs \cup {Absent}]
  /\ unit \in [Pods -> Specs \cup {Absent}]
  /\ todo \in [Actors -> Seq(ClientTasks \cup MainTasks)]
  /\ \A a \in Actors : todo[a] \in Seq(TasksOf(a))
  /\ failed \subseteq Pods /\ missing \subseteq Pods /\ revived \subseteq Pods

Does(a, j, dos) == todo[a][j].do \in dos
Work(a, dos, p) == \E j \in DOMAIN todo[a] : Does(a, j, dos) /\ todo[a][j].pod = p
WorkAs(a, dos, p, t) ==
  \E j \in DOMAIN todo[a] : Does(a, j, dos) /\ todo[a][j].pod = p /\ todo[a][j].t = t
WorkOn(a, dos, d) == \E j \in DOMAIN todo[a] : Does(a, j, dos) /\ todo[a][j].dep = d
Busy(a, dos) == \E j \in DOMAIN todo[a] : Does(a, j, dos)

(* A request deploys pods, changes one Deployment, or takes pods away; what *)
(* is stored of them goes after their units and files, and last of all the *)
(* Deployment or the namespace they are of.                                *)
DeployList(c) ==
  /\ \A j \in DOMAIN todo[c] : Does(c, j, Deploys)
  /\ \A i, j \in DOMAIN todo[c] : todo[c][i].pod = todo[c][j].pod => i = j
  /\ \A j \in DOMAIN todo[c] : Does(c, j, Syncs \cup Synced \cup Created) =>
       todo[c][j].pod \in Instances
UpdateList(c) ==
  /\ Len(todo[c]) = 1 /\ todo[c][1].do = <<"update">>
  /\ deps[todo[c][1].dep] # Absent /\ todo[c][1].old = deps[todo[c][1].dep].n
GoList(c) ==
  /\ \A j \in DOMAIN todo[c] :
       /\ Does(c, j, Goes \cup Finals \cup {<<"remove">>})
       /\ Does(c, j, Finals) => j = Len(todo[c])
       /\ Does(c, j, {<<"remove">>}) => Busy(c, Purges)
  /\ \A i, j \in DOMAIN todo[c] :
       Does(c, i, Drops) /\ Does(c, j, Stops \cup Unlinks) /\ i < j =>
         todo[c][i].pod # todo[c][j].pod
  /\ \A p \in Pods : Work(c, Stops \cup Unlinks, p) => Work(c, Drops, p) \/ Busy(c, Purges)

(* What goes is stopped before it is unlinked. *)
StopsFirst(c) ==
  /\ \A i, j \in DOMAIN todo[c] : i < j =>
       /\ Does(c, i, Unlinks) /\ Does(c, j, Stops) => todo[c][i].pod # todo[c][j].pod
       /\ Does(c, i, {<<"remove">>}) => ~Does(c, j, Goes)
  /\ \A p \in Pods : Work(c, Stops, p) => Work(c, Unlinks, p)

ListInv(c) == DeployList(c) \/ UpdateList(c) \/ GoList(c)

(* The Deployment of a replica asks for it, and is there to stay. *)
Asked(c, p) ==
  \E d \in Deps : p \in Desired(d) /\ ~WorkOn(c, {<<"dropDep">>}, d) /\ ~Busy(c, Purges)

Restored(d, p) ==
  \E j \in DOMAIN todo[Main] :
    /\ Does(Main, j, {<<"restore">>}) /\ todo[Main][j].dep = d
    /\ \E i \in 0..(todo[Main][j].n - 1) : p = Inst[d][i]

(* What the store asks for has its file, or a request or startup is about  *)
(* to write it, or about to ask for it no longer.                          *)
ReplicaIsDeployed(c, p) ==
  up /\ Asked(c, p) /\ p \notin missing /\ file[p] = Absent =>
    \/ Work(c, Writes, p)
    \/ Busy(Main, {<<"bootDeps">>}) \/ Work(Main, Heals, p)
    \/ \E d \in Deps : Restored(d, p)
StoredIsDeployed(c, p) ==
  up /\ Stored(p) /\ pods[p].t # Stub /\ file[p] = Absent =>
    \/ Work(c, Writes, p) \/ Work(c, Drops, p) \/ Busy(c, Purges)
    \/ Busy(Main, {<<"bootPods">>}) \/ Work(Main, Heals, p)
DeployInv(c) ==
  /\ ListInv(c)
  /\ \A p \in Pods \ failed :
       /\ ReplicaIsDeployed(c, p) /\ StoredIsDeployed(c, p)
       /\ Work(c, Written, p) => file[p] # Absent
       /\ Work(c, Unlinks, p) => p \in missing \/ ~Asked(c, p)

(* A pod that is there to stay. *)
Kept(c, p) ==
  \/ Asked(c, p)
  \/ p \in Standalone /\ Stored(p) /\ ~Work(c, Drops, p) /\ ~Busy(c, Purges)

Removed(c, p) ==
  \/ \E d \in Deps : p \in Desired(d) /\ Busy(c, PurgeAll)
  \/ \E j \in DOMAIN todo[c] :
       /\ Does(c, j, {<<"remove">>})
       /\ \E i \in 0..(todo[c][j].n - 1) : p = Inst[todo[c][j].dep][i]

(* What runs, has a file or is stored is of a pod that is there to stay,   *)
(* or a request is about to stop, unlink and drop it.                      *)
Accounted(c, p) ==
  /\ unit[p] # Absent => Kept(c, p) \/ Work(c, Stops, p) \/ Removed(c, p)
  /\ file[p] # Absent => Kept(c, p) \/ Work(c, Unlinks, p) \/ Removed(c, p)
  /\ Stored(p) /\ p \notin revived => Kept(c, p) \/ Work(c, Drops, p) \/ Busy(c, Purges)

(* Store, file and unit agree but for what a request is about to do. *)
Agrees(c, p) ==
  /\ Stored(p) /\ pods[p].t # Stub =>
       \/ file[p] = pods[p].t \/ WorkAs(c, Replaces, p, pods[p].t) \/ Work(c, Synced, p)
       \/ Work(c, Drops, p) \/ Busy(c, Purges)
  /\ file[p] # Absent =>
       unit[p] = file[p] \/ Work(c, Starts \cup Restarts, p) \/ Work(c, Unlinks, p)

(* A pod that is being deployed is there to stay, started afresh or anew,  *)
(* and is deployed from the template the request is for.                   *)
Renewed(c, p) ==
  /\ Work(c, Deploys, p) => Kept(c, p)
  /\ Work(c, Fresh, p) => file[p] = Absent /\ unit[p] = Absent
  /\ Work(c, Starts, p) => unit[p] = Absent
  /\ \A t \in Specs : WorkAs(c, Written, p, t) => file[p] = t
  /\ \A t \in Specs : WorkAs(c, Replaces, p, t) /\ Stored(p) => pods[p].t \in {t, Stub}

AccountInv(c) ==
  /\ up /\ ListInv(c) /\ StopsFirst(c)
  /\ \A j \in DOMAIN todo[Main] :
       /\ Does(Main, j, Imports \cup Prunes \cup {<<"allPods">>})
       /\ Does(Main, j, Prunes) => todo[Main][j].pod \in Instances
  /\ \A p \in Pods : Stored(p) /\ pods[p].owned => p \in Instances
  /\ \A p \in Pods \ failed : Accounted(c, p) /\ Agrees(c, p) /\ Renewed(c, p)

=============================================================================
