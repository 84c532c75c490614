------------------------------ MODULE SyncLoop ------------------------------
(***************************************************************************)
(* syncLoop and reconcileOnce of cmd/q8s/main.go: podman events and a      *)
(* ticker start passes that read what systemd and podman say, one unit at  *)
(* a time, and write it into the status of pods, Deployments and Jobs.     *)
(* Requests and units go on changing between the steps of a pass.          *)
(*                                                                         *)
(* A pass also imports and prunes pods; module Workloads has that part.    *)
(* Here only requests make and delete pods.  Pods of several containers    *)
(* are kept apart from those of one: podman is asked about them, not       *)
(* systemd.                                                                *)
(***************************************************************************)
EXTENDS Integers, FiniteSets, Sequences, SequencesExt

CONSTANTS
  Watchdogged,  \* pods
  Rollouts,     \* Deployments
  Batch,        \* Jobs
  Groups, Crew, \* pods of several containers, and the names of these
  Scenes,       \* sets of objects whose units and specs change, one per behaviour
  UnitStates,   \* what systemd tells of a unit, or podman of a container without
  MaxScale,     \* bound: replicas of a Deployment
  MaxChanges,   \* bound: requests and changes of units
  None

(* UnitState: what "systemctl show" says, or podman instead. *)
States ==
  [unit : BOOLEAN, active : {"active", "activating", "inactive", "failed", "running", "exited"},
   restarts : Nat, exit : Nat, result : {"success", "exit-code"}, healthy : BOOLEAN]

ASSUME SyncAssumption ==
  /\ UnitStates \subseteq States /\ None \notin States
  /\ IsFiniteSet(Watchdogged) /\ IsFiniteSet(Groups) /\ IsFiniteSet(Rollouts) /\ IsFiniteSet(Batch)
  /\ MaxScale \in Nat \ {0}

VARIABLES
  scene,    \* the objects of this behaviour
  unit,     \* pod or Job -> state of its unit or container, or None
  crew,     \* pod of several containers -> container -> what podman says
  up,       \* Deployment -> replicas whose unit is active
  pstat,    \* pod -> status, or None when the pod is not stored
  dstat,    \* Deployment -> spec.replicas, generation and status
  jstat,    \* Job -> active, succeeded and failed, or None
  gstat,    \* pod of several containers -> phase and Ready containers
  trigger,  \* the channel of capacity one
  loop,     \* where syncLoop is
  pass,     \* what is left of the pass of reconcileOnce
  ps,       \* podman ps when the pass began: who was not healthy, and the crews
  seen,     \* history: pod -> what the last pass to read it read, or None
  changes   \* bound

world == <<scene, unit, crew, up>>
objVars == <<pstat, dstat, jstat, gstat>>
syncVars == <<world, objVars, trigger, loop, pass, ps, seen, changes>>

---------------------------------------------------------------------------
(* What a state means                                                      *)

(* unitStateToPhase, podmanStateToPhase *)
Phase(s) ==
  CASE s.active \in {"active", "running"} -> "Running"
    [] s.active = "activating" -> IF s.restarts > 0 THEN "Running" ELSE "Pending"
    [] s.active = "failed" -> "Failed"
    [] s.active = "inactive" -> IF s.result = "success" THEN "Succeeded" ELSE "Failed"
    [] s.active = "exited" -> IF s.exit = 0 THEN "Succeeded" ELSE "Failed"

Outcome(s) ==
  CASE s.active \in {"active", "activating"} -> "active"
    [] s.active = "failed" \/ (s.active = "inactive" /\ s.result # "success") -> "failed"
    [] OTHER -> "succeeded"

CrashLooping(restarts, exit) == restarts > 0 /\ exit \notin {0, None}

(* What podman says of one of several containers: Running while it runs,   *)
(* healthy or not, Succeeded or Failed once it exited, Pending before; or  *)
(* it lists no such container.                                             *)
CrewStates == {"healthy", "unhealthy", "Succeeded", "Failed", "Pending", "gone"}
Runs(s) == s \in {"healthy", "unhealthy"}

(* podmanContainerStates, and the unit of the pod where podman has none.   *)
GroupPhase(f, u) ==
  IF \A c \in Crew : f[c] = "gone" THEN IF u = None THEN "Pending" ELSE Phase(u)
  ELSE IF \A c \in Crew : Runs(f[c]) THEN "Running"
  ELSE IF \A c \in Crew : f[c] = "Succeeded" THEN "Succeeded"
  ELSE IF \E c \in Crew : f[c] = "Failed" THEN "Failed"
  ELSE "Pending"

(* Ready: running, not crash-looping, and healthy or without health check. *)
Deserved(s) == Phase(s) = "Running" /\ s.healthy /\ ~(s.unit /\ CrashLooping(s.restarts, s.exit))

NewPod == [phase |-> "Pending", ready |-> FALSE, restarts |-> 0, exit |-> None]
NewDeployment(r) == [replicas |-> r, gen |-> 1, observed |-> 1, ready |-> 0, desired |-> r]

---------------------------------------------------------------------------
(* The world: units and requests                                           *)

Change == changes < MaxChanges /\ changes' = changes + 1

UnitChanges(u) ==
  /\ Change
  /\ \E s \in UnitStates : unit' = [unit EXCEPT ![u] = s]
  /\ UNCHANGED <<scene, crew, up, objVars, trigger, loop, pass, ps, seen>>

ReplicaChanges(d) ==
  /\ Change
  /\ \E i \in 0..(dstat[d].replicas - 1) :
       up' = [up EXCEPT ![d] = IF i \in @ THEN @ \ {i} ELSE @ \cup {i}]
  /\ UNCHANGED <<scene, unit, crew, objVars, trigger, loop, pass, ps, seen>>

CreateOrDeletePod(p) ==
  /\ Change
  /\ pstat' = [pstat EXCEPT ![p] = IF @ = None THEN NewPod ELSE None]
  /\ UNCHANGED <<world, dstat, jstat, gstat, trigger, loop, pass, ps, seen>>

CrewChanges(g) ==
  /\ Change
  /\ \E c \in Crew : \E s \in CrewStates : crew' = [crew EXCEPT ![g][c] = s]
  /\ UNCHANGED <<scene, unit, up, objVars, trigger, loop, pass, ps, seen>>

(* A scale, or a change of the template with the same number of replicas. *)
ChangeDeployment(d) ==
  /\ Change
  /\ \E r \in 0..MaxScale :
       /\ dstat' = [dstat EXCEPT ![d].replicas = r, ![d].gen = @ + 1]
       /\ up' = [up EXCEPT ![d] = @ \cap 0..(r - 1)]
  /\ UNCHANGED <<scene, unit, crew, pstat, jstat, gstat, trigger, loop, pass, ps, seen>>

(* WatchEvents, notify: an event may come early, late, or not at all. *)
PodmanEvent ==
  /\ trigger' = 1
  /\ UNCHANGED <<world, objVars, loop, pass, ps, seen, changes>>

---------------------------------------------------------------------------
(* syncLoop                                                                *)

TakeTrigger ==
  /\ loop = "select" /\ trigger = 1
  /\ trigger' = 0
  /\ loop' = "debounce"
  /\ UNCHANGED <<world, objVars, pass, ps, seen, changes>>

ResetDebounce ==
  /\ loop = "debounce" /\ trigger = 1
  /\ trigger' = 0
  /\ UNCHANGED <<world, objVars, loop, pass, ps, seen, changes>>

(* reconcileOnce begins with one podman ps.  A container without a health  *)
(* check, or none, is not called unhealthy.                                *)
BeginPass ==
  /\ loop' = "pass"
  /\ pass' = <<[do |-> "pods"], [do |-> "deployments"], [do |-> "jobs"]>>
  /\ ps' = [sick |-> {p \in Watchdogged : unit[p] # None /\ ~unit[p].healthy}, crew |-> crew]
  /\ UNCHANGED <<world, objVars, trigger, seen, changes>>

(* Once the timer has fired, the select may see that or another event.     *)
DebounceFires == loop = "debounce" /\ BeginPass
Tick == loop = "select" /\ BeginPass

---------------------------------------------------------------------------
(* reconcileOnce                                                           *)

At(step) == loop = "pass" /\ pass # <<>> /\ Head(pass).do = step
Item == Head(pass)
Then(items) == pass' = items \o Tail(pass)
ForEach(S, F(_)) == LET q == SetToSeq(S) IN [j \in 1..Len(q) |-> F(q[j])]

EndPass ==
  /\ loop = "pass" /\ pass = <<>>
  /\ loop' = "select"
  /\ UNCHANGED <<world, objVars, trigger, pass, ps, seen, changes>>

ListPods ==
  /\ At("pods")
  /\ Then(ForEach({p \in Watchdogged : pstat[p] # None}, LAMBDA p : [do |-> "read", of |-> p]) \o
          ForEach(Groups, LAMBDA g : [do |-> "group", of |-> g]))
  /\ UNCHANGED <<world, objVars, trigger, loop, ps, seen, changes>>

(* UnitState, or InspectState where systemd knows no unit; a pod without   *)
(* either keeps its status.  Health is what podman ps said.                *)
ReadPod ==
  /\ At("read")
  /\ LET p == Item.of
         s == unit[p]
     IN  IF s = None THEN Then(<<>>) /\ seen' = seen
         ELSE LET g == [s EXCEPT !.healthy = p \notin ps.sick]
              IN  /\ seen' = [seen EXCEPT ![p] = g]
                  /\ Then(<<[do |-> "phase", of |-> p, got |-> g]>> \o
                       (IF s.unit THEN <<[do |-> "restarts", of |-> p, got |-> g]>> ELSE <<>>))
  /\ UNCHANGED <<world, objVars, trigger, loop, ps, changes>>

(* UpdatePodPhase: whether the container is crash-looping is known from    *)
(* the pass before.                                                        *)
PhaseInfo(was, g) ==
  [was EXCEPT !.phase = Phase(g),
              !.ready = Phase(g) = "Running" /\ g.healthy /\ ~CrashLooping(was.restarts, was.exit)]

SetPhase ==
  /\ At("phase")
  /\ LET p == Item.of
     IN  pstat' = [pstat EXCEPT ![p] = IF @ = None THEN None ELSE PhaseInfo(@, Item.got)]
  /\ Then(<<>>)
  /\ UNCHANGED <<world, dstat, jstat, gstat, trigger, loop, ps, seen, changes>>

(* Mutation test: Ready is left to the next pass. *)
RestartInfoFaulty(was, g) == [was EXCEPT !.restarts = g.restarts, !.exit = g.exit]

(* UpdatePodRestartInfo, with what the same reading said. *)
RestartInfo(was, g) ==
  [was EXCEPT !.restarts = g.restarts, !.exit = g.exit,
              !.ready = @ /\ ~CrashLooping(g.restarts, g.exit)]

SetRestarts ==
  /\ At("restarts")
  /\ LET p == Item.of
     IN  pstat' = [pstat EXCEPT ![p] = IF @ = None THEN None ELSE RestartInfo(@, Item.got)]
  /\ Then(<<>>)
  /\ UNCHANGED <<world, dstat, jstat, gstat, trigger, loop, ps, seen, changes>>

(* The unit is asked, where it has to be, after podman was. *)
ReadGroup ==
  /\ At("group")
  /\ LET g == Item.of
     IN  Then(<<[do |-> "crew", of |-> g, got |-> GroupPhase(ps.crew[g], unit[g])]>>)
  /\ UNCHANGED <<world, objVars, trigger, loop, ps, seen, changes>>

(* UpdatePodContainerPhases: no restarts are known of these containers.    *)
SetContainers ==
  /\ At("crew")
  /\ LET g == Item.of
     IN  gstat' = [gstat EXCEPT ![g] =
           [phase |-> Item.got, ready |-> {c \in Crew : ps.crew[g][c] = "healthy"}]]
  /\ Then(<<>>)
  /\ UNCHANGED <<world, pstat, dstat, jstat, trigger, loop, ps, seen, changes>>

(* The number of replicas is that of the listing; none counts as one. *)
ListDeployments ==
  /\ At("deployments")
  /\ Then(ForEach(Rollouts, LAMBDA d :
       [do |-> "count", of |-> d, ready |-> 0, i |-> 0,
        n |-> IF dstat[d].replicas > 1 THEN dstat[d].replicas ELSE 1]))
  /\ UNCHANGED <<world, objVars, trigger, loop, ps, seen, changes>>

CountReplica ==
  /\ At("count") /\ Item.i < Item.n
  /\ Then(<<[Item EXCEPT !.i = @ + 1, !.ready = @ + (IF Item.i \in up[Item.of] THEN 1 ELSE 0)]>>)
  /\ UNCHANGED <<world, objVars, trigger, loop, ps, seen, changes>>

(* Mutation test: a new generation with the same count is not observed. *)
DeploymentStatusFaulty(d, ready) ==
  IF d.ready = ready THEN d
  ELSE [d EXCEPT !.ready = ready, !.desired = d.replicas, !.observed = d.gen]

(* UpdateDeploymentStatus: the count is of the listing, the generation and *)
(* the replicas are those stored now.                                      *)
DeploymentStatus(d, ready) ==
  IF d.ready = ready /\ d.observed = d.gen THEN d
  ELSE [d EXCEPT !.ready = ready, !.desired = d.replicas, !.observed = d.gen]

SetDeploymentStatus ==
  /\ At("count") /\ Item.i = Item.n
  /\ dstat' = [dstat EXCEPT ![Item.of] = DeploymentStatus(@, Item.ready)]
  /\ Then(<<>>)
  /\ UNCHANGED <<world, pstat, jstat, gstat, trigger, loop, ps, seen, changes>>

ListJobs ==
  /\ At("jobs")
  /\ Then(ForEach(Batch, LAMBDA j : [do |-> "job", of |-> j]))
  /\ UNCHANGED <<world, objVars, trigger, loop, ps, seen, changes>>

ReadJob ==
  /\ At("job")
  /\ LET s == unit[Item.of]
     IN  Then(IF s = None THEN <<>> ELSE <<[do |-> "outcome", of |-> Item.of, got |-> Outcome(s)]>>)
  /\ UNCHANGED <<world, objVars, trigger, loop, ps, seen, changes>>

(* UpdateJobStatus *)
SetJobStatus ==
  /\ At("outcome")
  /\ jstat' = [jstat EXCEPT ![Item.of] = Item.got]
  /\ Then(<<>>)
  /\ UNCHANGED <<world, pstat, dstat, gstat, trigger, loop, ps, seen, changes>>

---------------------------------------------------------------------------
SyncInit ==
  /\ scene \in Scenes
  /\ unit = [u \in Watchdogged \cup Batch \cup Groups |-> None]
  /\ crew = [g \in Groups |-> [c \in Crew |-> "gone"]]
  /\ up = [d \in Rollouts |-> {}]
  /\ pstat = [p \in Watchdogged |-> NewPod]
  /\ dstat = [d \in Rollouts |-> NewDeployment(1)]
  /\ jstat = [j \in Batch |-> None]
  /\ gstat = [g \in Groups |-> [phase |-> "Pending", ready |-> {}]]
  /\ trigger = 0 /\ loop = "select" /\ pass = <<>>
  /\ ps = [sick |-> {}, crew |-> crew] /\ seen = [p \in Watchdogged |-> None] /\ changes = 0

World ==
  \/ \E u \in (Watchdogged \cup Batch \cup Groups) \cap scene : UnitChanges(u)
  \/ \E g \in Groups \cap scene : CrewChanges(g)
  \/ \E d \in Rollouts \cap scene : ReplicaChanges(d) \/ ChangeDeployment(d)
  \/ \E p \in Watchdogged \cap scene : CreateOrDeletePod(p)
  \/ PodmanEvent

LoopStep ==
  \/ TakeTrigger \/ ResetDebounce \/ DebounceFires \/ Tick \/ EndPass
  \/ ListPods \/ ReadPod \/ SetPhase \/ SetRestarts \/ ReadGroup \/ SetContainers
  \/ ListDeployments \/ CountReplica \/ SetDeploymentStatus
  \/ ListJobs \/ ReadJob \/ SetJobStatus

SyncNext == World \/ LoopStep

(* The goroutine runs on, its ticker ticks, and podman's events leave gaps *)
(* of 200 ms again and again: each event sets the debounce timer back.     *)
QuietFires == trigger = 0 /\ DebounceFires
SyncSpec ==
  SyncInit /\ [][SyncNext]_syncVars /\ WF_syncVars(LoopStep) /\ SF_syncVars(QuietFires)

---------------------------------------------------------------------------
Phases == {"Pending", "Running", "Succeeded", "Failed"}

StatusShapes ==
  /\ pstat \in [Watchdogged ->
       [phase : Phases, ready : BOOLEAN, restarts : Nat, exit : Nat \cup {None}] \cup {None}]
  /\ dstat \in [Rollouts -> [replicas : 0..MaxScale, gen : Nat, observed : Nat,
                             ready : 0..MaxScale, desired : 0..MaxScale]]
  /\ gstat \in [Groups -> [phase : Phases, ready : SUBSET Crew]]

SyncTypeOK ==
  /\ StatusShapes
  /\ \A p \in Watchdogged : pstat[p] # None /\ pstat[p].ready => pstat[p].phase = "Running"
  /\ \A d \in Rollouts : dstat[d].observed <= dstat[d].gen
  /\ trigger \in {0, 1} /\ loop \in {"select", "debounce", "pass"}
  /\ loop = "select" => pass = <<>>

(* Between its steps on a pod, no pass leaves the pod Ready that it read   *)
(* to be stopped, unhealthy or crash-looping: UpdatePodPhase judges by the *)
(* restarts of the pass before, UpdatePodRestartInfo has to take that back.*)
ReadyIsDeserved ==
  \A p \in Watchdogged :
    (\A j \in DOMAIN pass : pass[j].do \in {"phase", "restarts"} => pass[j].of # p) =>
      (pstat[p] # None /\ pstat[p].ready => seen[p] # None /\ Deserved(seen[p]))

InSync ==
  /\ \A p \in Watchdogged : pstat[p] # None /\ unit[p] # None =>
       /\ pstat[p].phase = Phase(unit[p])
       /\ unit[p].unit => pstat[p].ready = Deserved(unit[p])
  /\ \A d \in Rollouts :
       /\ dstat[d].observed = dstat[d].gen /\ dstat[d].desired = dstat[d].replicas
       /\ dstat[d].ready = Cardinality(up[d])
  /\ \A j \in Batch : unit[j] # None => jstat[j] = Outcome(unit[j])
  /\ \A g \in Groups :
       /\ gstat[g].phase = GroupPhase(crew[g], unit[g])
       /\ gstat[g].ready = {c \in Crew : crew[g][c] = "healthy"}

(* "A slow ticker remains as a correctness backstop in case an event is    *)
(* ever missed" (syncLoop): once units and specs stop changing, every      *)
(* status comes to say what systemd says, and stays so, whatever events    *)
(* were lost and whatever a pass mixed up while it overlapped changes.     *)
StatusCatchesUp == <>[]InSync

---------------------------------------------------------------------------
(* The inductive invariant behind the theorems of SyncLoopProofs. *)

(* What is left of a pass. *)
Items ==
  [do : {"pods", "deployments", "jobs"}]
  \cup [do : {"read"}, of : Watchdogged] \cup [do : {"group"}, of : Groups]
  \cup [do : {"job"}, of : Batch]
  \cup [do : {"phase", "restarts"}, of : Watchdogged, got : States]
  \cup [do : {"crew"}, of : Groups, got : Phases]
  \cup [do : {"count"}, of : Rollouts, ready : 0..MaxScale, i : 0..MaxScale, n : 1..MaxScale]
  \cup [do : {"outcome"}, of : Batch, got : {"active", "succeeded", "failed"}]

OnPod(item) == item.do \in {"phase", "restarts"}

(* A pod that was read comes next, and what was read is used up before     *)
(* another one is: its phase, then its restarts.                           *)
PodComesNext ==
  \A j \in DOMAIN pass : OnPod(pass[j]) =>
    \/ j = 1
    \/ /\ j = 2 /\ pass[1].do = "phase" /\ pass[2].do = "restarts"
       /\ pass[2].of = pass[1].of /\ pass[2].got = pass[1].got

(* What is left to do for that pod is of its last reading; a reading of a  *)
(* unit is not done before its restarts are stored.                        *)
ReadingInHand ==
  pass # <<>> /\ OnPod(pass[1]) =>
    LET p == pass[1].of
        g == pass[1].got
    IN  /\ g = seen[p]
        /\ pass[1].do = "phase" /\ g.unit => 2 \in DOMAIN pass /\ pass[2].do = "restarts"
        /\ pass[1].do = "restarts" /\ pstat[p] # None /\ pstat[p].ready =>
             Phase(g) = "Running" /\ g.healthy

SyncInv ==
  /\ SyncTypeOK
  /\ pass \in Seq(Items) /\ (loop # "pass" => pass = <<>>)
  /\ \A j \in DOMAIN pass : pass[j].do = "count" => pass[j].ready <= pass[j].i /\ pass[j].i <= pass[j].n
  /\ unit \in [Watchdogged \cup Batch \cup Groups -> States \cup {None}]
  /\ seen \in [Watchdogged -> States \cup {None}]
  /\ PodComesNext /\ ReadingInHand /\ ReadyIsDeserved
=============================================================================
