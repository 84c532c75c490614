----------------------------- MODULE NodePorts -----------------------------
(***************************************************************************)
(* NodePort Services and hostPorts: handleServices, handlePods and the     *)
(* allocation of internal/store/store.go, over the store and the quadlet   *)
(* files that publish the ports.                                           *)
(*                                                                         *)
(* Every access to the store is a critical section and a step of its own,  *)
(* each probe of nodePortInUse included.  Requests on different objects    *)
(* interleave; requests on one object come one at a time.                  *)
(*                                                                         *)
(* Which pods a Service selects does not change.  Every pod has one        *)
(* container port for each slot, and port number i of a Service targets    *)
(* the container port of slot i.  Pods come from the Pod API.              *)
(***************************************************************************)
EXTENDS Integers, FiniteSets

CONSTANTS
  Svcs, Pods,
  Selected,                 \* Selected[s]: the pods the selector of s matches
  MaxPorts,                 \* the number of ports of a Service
  NodePortMin, NodePortMax,
  Requested,                \* nodePorts a client writes; 0 leaves the choice to q8s
  HostPorts,                \* hostPorts of a pod's containers; 0 is none
  MaxRequests,              \* bound: how many requests overlap
  Absent

Slots == 1..MaxPorts
Objects == Svcs \cup Pods

ASSUME PortsAssumption ==
  /\ Svcs \cap Pods = {} /\ IsFiniteSet(Pods)
  /\ Selected \in [Svcs -> SUBSET Pods]
  /\ MaxPorts \in Nat \ {0}
  /\ NodePortMin \in Nat \ {0} /\ NodePortMax \in Nat /\ NodePortMin <= NodePortMax
  /\ MaxRequests \in Nat \ {0}
  /\ Requested \subseteq Nat /\ HostPorts \subseteq Nat
  /\ Absent \notin [np : BOOLEAN, ports : [Slots -> Nat]] \cup [Slots -> Nat]
  /\ Absent \notin [pod : Pods, hosts : [Slots -> Nat]]

VARIABLES
  svcs,     \* Store.services: is it a NodePort Service, and its nodePorts
  pods,     \* Store.pods: the hostPort of each container port
  file,     \* what the quadlet file of a pod publishes
  step,     \* where the request on an object stands; "idle": there is none
  want,     \* the handler's own copy of the Service
  posted,   \* whether the request on a Service is a POST
  slot, probe,  \* the port that assignNodePorts is at, and the number it tries
  own,      \* the handler's own copy of a pod it deploys
  draft,    \* its rendered quadlet file
  good,     \* history: objects whose latest request was checked and accepted
  auto,     \* history: Services whose latest request left a port to q8s
  rivals    \* history: the objects whose requests overlapped the Service's

request == <<want, posted, slot, probe, own, draft>>
history == <<good, auto, rivals>>
vars == <<svcs, pods, file, step, request, history>>

Services == [np : BOOLEAN, ports : [Slots -> Requested]]
Stored(p) == pods[p] # Absent
Numbers(ports) == {ports[i] : i \in Slots} \ {0}
Active == {o \in Objects : step[o] # "idle"}

At(o, here) == step[o] = here
Goto(o, there) == step' = [step EXCEPT ![o] = there]

(* A request begins; its result is not known yet. *)
Begin(o, there) ==
  /\ At(o, "idle")
  /\ Cardinality(Active) < MaxRequests
  /\ Goto(o, there)
  /\ good' = good \ {o}
  /\ rivals' = [s \in Svcs |-> IF s = o THEN Active
                               ELSE IF s \in Active THEN rivals[s] \cup {o}
                               ELSE rivals[s] \ {o}]

(* The object does not exist, or not as its client wants it. *)
Forget(o) ==
  /\ good' = good \ {o}
  /\ rivals' = [s \in Svcs |-> IF s = o THEN {} ELSE rivals[s] \ {o}]

---------------------------------------------------------------------------
(* The store's view of a port                                              *)

(* Mutation test: only hostPorts count as claims. *)
NodePortInUseFaulty(port, exceptSvc) ==
  \E p \in Pods : Stored(p) /\ port \in Numbers(pods[p])

(* Claimed by another Service of any type, or as a hostPort of any pod. *)
NodePortInUse(port, exceptSvc) ==
  \/ \E s \in Svcs \ {exceptSvc} : svcs[s] # Absent /\ \E i \in Slots : svcs[s].ports[i] = port
  \/ \E p \in Pods : Stored(p) /\ \E i \in Slots : pods[p][i] = port

NodePortAvailable(port, svc) ==
  port \in NodePortMin..NodePortMax /\ ~NodePortInUse(port, svc)

(* serviceNodePortConflict and podNodePortConflict *)
ServiceConflict(v) ==
  v.np /\ \E p \in Pods : Stored(p) /\ Numbers(pods[p]) \cap Numbers(v.ports) # {}
PodConflict(hosts) ==
  \E s \in Svcs : /\ svcs[s] # Absent /\ svcs[s].np
                  /\ Numbers(hosts) \cap Numbers(svcs[s].ports) # {}

---------------------------------------------------------------------------
(* Service requests                                                        *)

BeginService(s, post, v) ==
  /\ Begin(s, "conflict")
  /\ posted' = [posted EXCEPT ![s] = post]
  /\ svcs' = [svcs EXCEPT ![s] = v]
  /\ want' = [want EXCEPT ![s] = v]
  /\ auto' = IF \E i \in Slots : v.ports[i] = 0 THEN auto \cup {s} ELSE auto \ {s}
  /\ UNCHANGED <<pods, file, slot, probe, own, draft>>

(* POST: an existing Service is a conflict; a new one is stored first. *)
PostService(s, v) == svcs[s] = Absent /\ BeginService(s, TRUE, v)

(* PATCH: the new Service replaces the stored one before it is checked. *)
PatchService(s, v) == svcs[s] # Absent /\ BeginService(s, FALSE, v)

(* The pods it was published on are not deployed again. *)
DeleteService(s) ==
  /\ At(s, "idle")
  /\ svcs[s] # Absent
  /\ svcs' = [svcs EXCEPT ![s] = Absent]
  /\ Forget(s)
  /\ UNCHANGED <<pods, file, step, request, auto>>

(* Asked twice, before and after assignNodePorts. *)
CheckHostPorts(s) ==
  /\ At(s, "conflict") \/ At(s, "conflict2")
  /\ Goto(s, IF ServiceConflict(want[s]) THEN "reject"
             ELSE IF ~want[s].np THEN "update"
             ELSE IF At(s, "conflict") THEN "assign" ELSE "assign2")
  /\ slot' = [slot EXCEPT ![s] = 1]
  /\ probe' = [probe EXCEPT ![s] = NodePortMin]
  /\ UNCHANGED <<svcs, pods, file, want, posted, own, draft, history>>

Assigning(s) == At(s, "assign") \/ At(s, "assign2")

(* assignNodePorts is done with one port of the Service. *)
NextSlot(s) ==
  /\ slot' = [slot EXCEPT ![s] = IF @ = MaxPorts THEN 1 ELSE @ + 1]
  /\ probe' = [probe EXCEPT ![s] = NodePortMin]
  /\ Goto(s, IF slot[s] < MaxPorts THEN step[s]
             ELSE IF At(s, "assign") THEN "conflict2" ELSE "backing")

Requests(s) == want[s].ports[slot[s]]

(* An explicit number must be in range and free. *)
CheckNodePort(s) ==
  /\ Assigning(s)
  /\ Requests(s) # 0
  /\ IF NodePortAvailable(Requests(s), s)
       THEN NextSlot(s)
       ELSE Goto(s, "reject") /\ UNCHANGED <<slot, probe>>
  /\ UNCHANGED <<svcs, pods, file, want, posted, own, draft, history>>

(* Mutation test: the range is searched one number too far. *)
AllocateNodePortFaulty(s) ==
  /\ Assigning(s)
  /\ Requests(s) = 0
  /\ IF probe[s] > NodePortMax + 1
       THEN Goto(s, "reject") /\ UNCHANGED <<want, slot, probe>>
       ELSE IF NodePortInUse(probe[s], s)
         THEN probe' = [probe EXCEPT ![s] = @ + 1] /\ UNCHANGED <<want, slot, step>>
         ELSE NextSlot(s) /\ want' = [want EXCEPT ![s].ports[slot[s]] = probe[s]]
  /\ UNCHANGED <<svcs, pods, file, posted, own, draft, history>>

(* AllocateNodePort, one number of the range at a time. *)
AllocateNodePort(s) ==
  /\ Assigning(s)
  /\ Requests(s) = 0
  /\ IF probe[s] > NodePortMax
       THEN Goto(s, "reject") /\ UNCHANGED <<want, slot, probe>>
       ELSE IF NodePortInUse(probe[s], s)
         THEN probe' = [probe EXCEPT ![s] = @ + 1] /\ UNCHANGED <<want, slot, step>>
         ELSE NextSlot(s) /\ want' = [want EXCEPT ![s].ports[slot[s]] = probe[s]]
  /\ UNCHANGED <<svcs, pods, file, posted, own, draft, history>>

(* Mutation test: the backing pod is left to its next deployment. *)
FindBackingPodFaulty(s) ==
  /\ At(s, "backing")
  /\ Goto(s, "update")
  /\ UNCHANGED <<svcs, pods, file, request, history>>

(* reconcileNodePort: at most one backing pod, which is deployed again. *)
FindBackingPod(s) ==
  /\ At(s, "backing")
  /\ LET backing == {p \in Selected[s] : Stored(p)}
     IN  IF Cardinality(backing) = 1
           THEN /\ Goto(s, "render")
                /\ \E p \in backing : own' = [own EXCEPT ![s] = [pod |-> p, hosts |-> pods[p]]]
           ELSE /\ Goto(s, IF backing = {} THEN "update" ELSE "reject")
                /\ UNCHANGED own
  /\ UNCHANGED <<svcs, pods, file, want, posted, slot, probe, draft, history>>

(* The handler returns. *)
EndService(s) ==
  /\ Goto(s, "idle")
  /\ want' = [want EXCEPT ![s] = Absent]
  /\ slot' = [slot EXCEPT ![s] = 1]
  /\ probe' = [probe EXCEPT ![s] = NodePortMin]
  /\ posted' = [posted EXCEPT ![s] = FALSE]

(* The Service is stored again with its ports, and the request accepted. *)
StoreService(s) ==
  /\ At(s, "update")
  /\ svcs' = IF svcs[s] = Absent THEN svcs ELSE [svcs EXCEPT ![s] = want[s]]
  /\ good' = good \cup {s}
  /\ EndService(s)
  /\ UNCHANGED <<pods, file, own, draft, auto, rivals>>

(* A rejected POST is taken back, a rejected PATCH is not. *)
RejectService(s) ==
  /\ At(s, "reject")
  /\ svcs' = IF posted[s] THEN [svcs EXCEPT ![s] = Absent] ELSE svcs
  /\ EndService(s)
  /\ Forget(s)
  /\ UNCHANGED <<pods, file, own, draft, auto>>

---------------------------------------------------------------------------
(* Deploying a pod                                                         *)

(* nodePortHostPorts: what each slot may be bound to, in any order of the  *)
(* Services; a later one replaces an earlier one.                          *)
Bindings(p, i) ==
  {svcs[s].ports[i] : s \in {s \in Svcs : /\ svcs[s] # Absent /\ svcs[s].np
                                           /\ p \in Selected[s]}} \ {0}

(* applyNodePorts and the quadlet file made from it *)
Render(o) ==
  /\ At(o, "render")
  /\ \E f \in [Slots -> UNION {Bindings(own[o].pod, i) \cup {own[o].hosts[i]} : i \in Slots}] :
       /\ \A i \in Slots : LET b == Bindings(own[o].pod, i)
                           IN  f[i] \in IF b = {} THEN {own[o].hosts[i]} ELSE b
       /\ draft' = [draft EXCEPT ![o] = f]
  /\ Goto(o, "write")
  /\ UNCHANGED <<svcs, pods, file, want, posted, slot, probe, own, history>>

Write(o) ==
  /\ At(o, "write")
  /\ file' = [file EXCEPT ![own[o].pod] = draft[o]]
  /\ Goto(o, IF o \in Svcs THEN "update" ELSE "idle")
  /\ own' = [own EXCEPT ![o] = Absent]
  /\ draft' = [draft EXCEPT ![o] = Absent]
  /\ UNCHANGED <<svcs, pods, want, posted, slot, probe, history>>

---------------------------------------------------------------------------
(* Pod requests                                                            *)

(* POST: the pod is stored only after its hostPorts were checked. *)
PostPod(p, hosts) ==
  /\ ~Stored(p)
  /\ Begin(p, "check")
  /\ own' = [own EXCEPT ![p] = [pod |-> p, hosts |-> hosts]]
  /\ UNCHANGED <<svcs, pods, file, want, posted, slot, probe, draft, auto>>

(* Mutation test: hostPorts are not compared with nodePorts. *)
CheckPodFaulty(p) ==
  /\ At(p, "check")
  /\ Goto(p, "create")
  /\ UNCHANGED <<svcs, pods, file, request, history>>

CheckPod(p) ==
  /\ At(p, "check")
  /\ IF PodConflict(own[p].hosts)
       THEN Goto(p, "idle") /\ own' = [own EXCEPT ![p] = Absent] /\ Forget(p)
       ELSE Goto(p, "create") /\ UNCHANGED <<own, good, rivals>>
  /\ UNCHANGED <<svcs, pods, file, want, posted, slot, probe, draft, auto>>

CreatePod(p) ==
  /\ At(p, "create")
  /\ pods' = [pods EXCEPT ![p] = own[p].hosts]
  /\ good' = good \cup {p}
  /\ Goto(p, "render")
  /\ UNCHANGED <<svcs, file, request, auto, rivals>>

(* PATCH: the new hostPorts are compared with nothing. *)
PatchPod(p, hosts) ==
  /\ Stored(p)
  /\ Begin(p, "render")
  /\ pods' = [pods EXCEPT ![p] = hosts]
  /\ own' = [own EXCEPT ![p] = [pod |-> p, hosts |-> hosts]]
  /\ UNCHANGED <<svcs, file, want, posted, slot, probe, draft, auto>>

(* DELETE: the quadlet file goes before the stored pod. *)
DeletePod(p) ==
  /\ Stored(p)
  /\ Begin(p, "drop")
  /\ file' = [file EXCEPT ![p] = Absent]
  /\ UNCHANGED <<svcs, pods, request, auto>>

DropPod(p) ==
  /\ At(p, "drop")
  /\ pods' = [pods EXCEPT ![p] = Absent]
  /\ Goto(p, "idle")
  /\ Forget(p)
  /\ UNCHANGED <<svcs, file, request, auto>>

---------------------------------------------------------------------------
Init ==
  /\ svcs = [s \in Svcs |-> Absent]
  /\ pods = [p \in Pods |-> Absent]
  /\ file = [p \in Pods |-> Absent]
  /\ step = [o \in Objects |-> "idle"]
  /\ want = [s \in Svcs |-> Absent]
  /\ posted = [s \in Svcs |-> FALSE]
  /\ slot = [s \in Svcs |-> 1]
  /\ probe = [s \in Svcs |-> NodePortMin]
  /\ own = [o \in Objects |-> Absent]
  /\ draft = [o \in Objects |-> Absent]
  /\ good = {}
  /\ auto = {}
  /\ rivals = [s \in Svcs |-> {}]

ServiceStep(s) ==
  \/ CheckHostPorts(s) \/ CheckNodePort(s) \/ AllocateNodePort(s)
  \/ FindBackingPod(s) \/ StoreService(s) \/ RejectService(s)

Next ==
  \/ \E s \in Svcs : \/ \E v \in Services : PostService(s, v) \/ PatchService(s, v)
                     \/ DeleteService(s)
                     \/ ServiceStep(s)
  \/ \E p \in Pods : \/ \E hosts \in [Slots -> HostPorts] : PostPod(p, hosts) \/ PatchPod(p, hosts)
                     \/ DeletePod(p) \/ DropPod(p)
                     \/ CheckPod(p) \/ CreatePod(p)
  \/ \E o \in Objects : Render(o) \/ Write(o)

Spec == Init /\ [][Next]_vars

---------------------------------------------------------------------------
PortMap == [Slots -> Requested \cup HostPorts \cup (NodePortMin..NodePortMax) \cup {0}]
ServiceSteps == {"idle", "conflict", "assign", "conflict2", "assign2",
                 "backing", "render", "write", "update", "reject"}
PodSteps == {"idle", "check", "create", "render", "write", "drop"}

(* Every variable stays in its domain; a chosen number is in the range. *)
TypeOK ==
  /\ svcs \in [Svcs -> [np : BOOLEAN, ports : PortMap] \cup {Absent}]
  /\ pods \in [Pods -> [Slots -> HostPorts] \cup {Absent}]
  /\ file \in [Pods -> PortMap \cup {Absent}]
  /\ step \in [Objects -> ServiceSteps \cup PodSteps]
  /\ \A s \in Svcs : step[s] \in ServiceSteps
  /\ \A p \in Pods : step[p] \in PodSteps
  /\ want \in [Svcs -> [np : BOOLEAN, ports : PortMap] \cup {Absent}]
  /\ posted \in [Svcs -> BOOLEAN]
  /\ slot \in [Svcs -> Slots]
  /\ probe \in [Svcs -> NodePortMin..(NodePortMax + 1)]
  /\ own \in [Objects -> [pod : Pods, hosts : [Slots -> HostPorts]] \cup {Absent}]
  /\ draft \in [Objects -> PortMap \cup {Absent}]
  /\ good \subseteq Objects /\ auto \subseteq Svcs
  /\ rivals \in [Svcs -> SUBSET Objects]

Accepted(o) == At(o, "idle") /\ o \in good
Apart(s, o) == o \notin rivals[s]

(* A nodePort has one owner: of two accepted NodePort Services none claims *)
(* a number of the other, unless q8s chose it in a request that overlapped *)
(* the other's.  Explicit numbers are stored before they are checked, so   *)
(* not even simultaneous requests can both get one (handleServices).       *)
NodePortsUnique ==
  \A s, t \in Svcs :
    /\ s # t /\ Accepted(s) /\ Accepted(t)
    /\ svcs[s].np /\ svcs[t].np
    /\ Apart(s, t) \/ {s, t} \cap auto = {}
    => Numbers(svcs[s].ports) \cap Numbers(svcs[t].ports) = {}

(* A nodePort and a hostPort, both accepted by a POST or the Service's     *)
(* PATCH, never bind the same number of the host, whichever came first,    *)
(* unless their requests overlapped ("reject a real collision",            *)
(* handlePods).                                                            *)
HostPortsClear ==
  \A s \in Svcs, p \in Pods :
    /\ Accepted(s) /\ svcs[s].np /\ Accepted(p) /\ Apart(s, p)
    => Numbers(svcs[s].ports) \cap Numbers(pods[p]) = {}

Sole(s, p) == {t \in Svcs : p \in Selected[t]} = {s}

(* s alone may publish on p, and both came about by requests of their own. *)
Backs(p, s) ==
  /\ Sole(s, p)
  /\ Accepted(s) /\ svcs[s].np
  /\ At(p, "idle") /\ Stored(p) /\ file[p] # Absent
  /\ Apart(s, p)

Carries(f, s) == \A i \in Slots : svcs[s].ports[i] # 0 => f[i] = svcs[s].ports[i]
Publishes(p, s) == Carries(file[p], s)

(* An accepted NodePort Service with explicit numbers is a listener of its *)
(* backing pod, whichever of the two came first: its numbers are what the  *)
(* pod's quadlet file publishes (reconcileNodePort, applyNodePorts), as    *)
(* long as no request overlapped and no other Service selects the pod.     *)
ExplicitArePublished ==
  \A s \in Svcs : \A p \in Selected[s] :
    Backs(p, s) /\ s \notin auto => Publishes(p, s)

(* docs/configuration.md: "q8s allocates a port ... and publishes it on    *)
(* 0.0.0.0:nodePort -> targetPort on the Service's single backing pod".    *)
AcceptedArePublished ==
  \A s \in Svcs : \A p \in Selected[s] :
    Backs(p, s) => Publishes(p, s)

---------------------------------------------------------------------------
(* The inductive invariant behind the theorems of NodePortsProofs. *)

(* What a request works on is at hand; an explicit Service is stored as it *)
(* is wanted; requests under way at once know of each other.               *)
AtHand ==
  /\ \A o \in Objects : step[o] \in {"check", "create", "render", "write"} => own[o] # Absent
  /\ \A s \in Svcs : step[s] # "idle" =>
       /\ want[s] # Absent /\ svcs[s] # Absent
       /\ s \notin auto => want[s] = svcs[s] /\ \A i \in Slots : want[s].ports[i] # 0
  /\ \A s \in Svcs \cap good : svcs[s] # Absent
  /\ \A p \in Pods \cap good : pods[p] # Absent
  /\ \A s \in Svcs, o \in Objects :
       s # o /\ step[s] # "idle" /\ step[o] # "idle" => o \in rivals[s]

(* The Service and the hostPorts that a request is about to leave.         *)
Meant(s) == IF step[s] = "idle" THEN svcs[s] ELSE want[s]
MeantHosts(p) == IF step[p] = "create" THEN own[p].hosts ELSE pods[p]

(* Ports whose numbers were compared with the other Services, Services and *)
(* pods whose numbers were compared with each other, and stand.            *)
Compared(s) ==
  IF step[s] = "assign2" THEN 1..(slot[s] - 1)
  ELSE IF step[s] \in {"backing", "render", "write", "update"} \/ Accepted(s) THEN Slots
  ELSE {}
ServiceCompared(s) ==
  step[s] \in {"assign2", "backing", "render", "write", "update"} \/ Accepted(s)
PodCompared(p) == step[p] = "create" \/ p \in good

ServicesDiffer ==
  \A s, t \in Svcs :
    /\ s # t
    /\ Apart(s, t) \/ {s, t} \cap auto = {}
    => \A i \in Compared(s), k \in Compared(t) :
         Meant(s).np /\ Meant(t).np /\ Meant(s).ports[i] # 0 =>
           Meant(s).ports[i] # Meant(t).ports[k]

HostsDiffer ==
  \A s \in Svcs, p \in Pods :
    ServiceCompared(s) /\ PodCompared(p) /\ Meant(s).np /\ Apart(s, p) =>
      Numbers(Meant(s).ports) \cap Numbers(MeantHosts(p)) = {}

PortsInv == TypeOK /\ AtHand /\ ServicesDiffer /\ HostsDiffer

(* A Service deploys a pod that it selects, a pod itself; POST creates it. *)
OwnPods ==
  /\ \A s \in Svcs : own[s] # Absent => own[s].pod \in Selected[s]
  /\ \A p \in Pods : own[p] # Absent => own[p].pod = p
  /\ \A p \in Pods : step[p] \in {"check", "create"} => ~Stored(p)

(* What the pod's quadlet file publishes is on its way: no request on the  *)
(* pod came in between, so the Service found it, or it found the Service.  *)
OnItsWay(s, p) ==
  /\ s \notin auto /\ Sole(s, p)
  /\ svcs[s] # Absent /\ svcs[s].np
  /\ Stored(p) /\ Apart(s, p)
  => /\ step[s] \in {"render", "write"} => own[s].pod = p
     /\ At(s, "write") => Carries(draft[s], s)
     /\ Accepted(s) /\ At(p, "write") => Carries(draft[p], s)
     /\ At(s, "update") \/ (Accepted(s) /\ At(p, "idle")) => Publishes(p, s)

ListenersInv == OwnPods /\ \A s \in Svcs, p \in Pods : OnItsWay(s, p)
=============================================================================
