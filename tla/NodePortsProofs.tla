--------------------------- MODULE NodePortsProofs ---------------------------
(* Of the ports of the host, for any number of Services, pods, ports and   *)
(* requests under way at once, and any range of nodePorts.                 *)
EXTENDS NodePorts, FiniteSetTheorems, TLAPS

USE PortsAssumption

Typed == TypeOK /\ AtHand

(* The ports of a Service are numbers. *)
LEMMA PortMaps ==
  /\ PortMap \subseteq [Slots -> Nat] /\ [Slots -> HostPorts] \subseteq PortMap
  /\ Services \subseteq [np : BOOLEAN, ports : PortMap]
  /\ Absent \notin [np : BOOLEAN, ports : PortMap]
  /\ Absent \notin [Slots -> HostPorts] /\ Absent \notin PortMap
  /\ Absent \notin [pod : Pods, hosts : [Slots -> HostPorts]]
  <1> DEFINE Ports == Requested \cup HostPorts \cup (NodePortMin..NodePortMax) \cup {0}
  <1>1. Ports \subseteq Nat /\ HostPorts \subseteq Ports /\ Requested \subseteq Ports /\ PortMap = [Slots -> Ports]
    <2>1. NodePortMin..NodePortMax \subseteq Nat
      OBVIOUS
    <2>2. Ports \subseteq Nat
      BY <2>1
    <2>. QED
      BY <2>2 DEF PortMap
  <1> HIDE DEF Ports
  <1>2. PortMap \subseteq [Slots -> Nat] /\ [Slots -> HostPorts] \subseteq PortMap /\ [Slots -> Requested] \subseteq PortMap
    BY <1>1
  <1>3. Services \subseteq [np : BOOLEAN, ports : PortMap]
    BY <1>2 DEF Services
  <1>4. [np : BOOLEAN, ports : PortMap] \subseteq [np : BOOLEAN, ports : [Slots -> Nat]]
    BY <1>2
  <1>5. [pod : Pods, hosts : [Slots -> HostPorts]] \subseteq [pod : Pods, hosts : [Slots -> Nat]]
    BY <1>2
  <1>. QED
    BY <1>2, <1>3, <1>4, <1>5

LEMMA Disjoint ==
  /\ \A s \in Svcs : s \in Objects /\ s \notin Pods /\ \A p \in Pods : p # s
  /\ \A p \in Pods : p \in Objects /\ p \notin Svcs
  BY DEF Objects

---------------------------------------------------------------------------
(* Types                                                                   *)

LEMMA InitTyped == Init => Typed
  <1> SUFFICES ASSUME Init PROVE Typed
    OBVIOUS
  <1>1. TypeOK
    BY DEF Init, TypeOK, ServiceSteps, PodSteps, Slots, Objects
  <1>2. AtHand
    BY Disjoint DEF Init, AtHand
  <1>. QED
    BY <1>1, <1>2 DEF Typed

(* A request that begins knows of those under way, and they of it. *)
LEMMA BeginKnows ==
  ASSUME Typed, NEW o \in Objects, NEW there \in ServiceSteps \cup PodSteps,
         \/ Begin(o, there)
         \/ \E v : BeginService(o, TRUE, v) /\ there = "conflict"
         \/ \E v : BeginService(o, FALSE, v) /\ there = "conflict"
  PROVE  /\ step[o] = "idle" /\ step' = [step EXCEPT ![o] = there]
         /\ good' = good \ {o} /\ rivals' \in [Svcs -> SUBSET Objects]
         /\ \A t \in Svcs, q \in Objects :
              t # q /\ step'[t] # "idle" /\ step'[q] # "idle" => q \in rivals'[t]
         /\ \A t \in Svcs, q \in Objects \ {o} : t # o /\ q \in rivals[t] => q \in rivals'[t]
         /\ \A t \in Svcs : t # o /\ t \in Active => o \in rivals'[t]
         /\ \A q \in Objects : o \in Svcs /\ q \in Active => q \in rivals'[o]
  <1>1. Begin(o, there)
    BY DEF BeginService
  <1>2. step[o] = "idle" /\ step' = [step EXCEPT ![o] = there] /\ good' = good \ {o}
        /\ rivals' = [s \in Svcs |-> IF s = o THEN Active
                                     ELSE IF s \in Active THEN rivals[s] \cup {o}
                                     ELSE rivals[s] \ {o}]
    BY <1>1 DEF Begin, At, Goto
  <1>3. Active \subseteq Objects /\ \A q \in Objects : q \in Active <=> step[q] # "idle"
    BY DEF Active
  <1>4. rivals' \in [Svcs -> SUBSET Objects]
    BY <1>2, <1>3 DEF Typed, TypeOK
  <1>5. \A t \in Svcs, q \in Objects :
          t # q /\ step'[t] # "idle" /\ step'[q] # "idle" => q \in rivals'[t]
    BY <1>2, <1>3, Disjoint DEF Typed, TypeOK, AtHand
  <1>6. \A t \in Svcs, q \in Objects \ {o} : t # o /\ q \in rivals[t] => q \in rivals'[t]
    BY <1>2
  <1>7. (\A t \in Svcs : t # o /\ t \in Active => o \in rivals'[t])
        /\ (\A q \in Objects : o \in Svcs /\ q \in Active => q \in rivals'[o])
    BY <1>2
  <1>. QED
    BY <1>2, <1>4, <1>5, <1>6, <1>7

LEMMA PostTyped ==
  ASSUME Typed, NEW s \in Svcs, NEW v \in Services, PostService(s, v) \/ PatchService(s, v)
  PROVE  Typed'
  <1>1. BeginService(s, TRUE, v) \/ BeginService(s, FALSE, v)
    BY DEF PostService, PatchService
  <1>2. v \in [np : BOOLEAN, ports : PortMap] /\ v # Absent
    BY PortMaps
  <1>3. /\ step' = [step EXCEPT ![s] = "conflict"] /\ step[s] = "idle"
        /\ svcs' = [svcs EXCEPT ![s] = v] /\ want' = [want EXCEPT ![s] = v]
        /\ auto' = IF \E i \in Slots : v.ports[i] = 0 THEN auto \cup {s} ELSE auto \ {s}
        /\ UNCHANGED <<pods, file, slot, probe, own, draft>>
    BY <1>1 DEF BeginService, Begin, Goto, At
  <1>4. posted' \in [Svcs -> BOOLEAN]
    BY <1>1 DEF BeginService, Typed, TypeOK
  <1>5. good' = good \ {s} /\ rivals' \in [Svcs -> SUBSET Objects]
        /\ \A t \in Svcs, o \in Objects :
             t # o /\ step'[t] # "idle" /\ step'[o] # "idle" => o \in rivals'[t]
    BY <1>1, BeginKnows, Disjoint DEF ServiceSteps
  <1>6. TypeOK'
    BY <1>2, <1>3, <1>4, <1>5, Disjoint DEF Typed, TypeOK, ServiceSteps
  <1>7. AtHand'
    <2>1. \A o \in Objects : step'[o] \in {"check", "create", "render", "write"} => own'[o] # Absent
      BY <1>3, Disjoint DEF Typed, TypeOK, AtHand
    <2>2. \A t \in Svcs : step'[t] # "idle" =>
            /\ want'[t] # Absent /\ svcs'[t] # Absent
            /\ t \notin auto' => want'[t] = svcs'[t] /\ \A i \in Slots : want'[t].ports[i] # 0
      BY <1>2, <1>3, Disjoint DEF Typed, TypeOK, AtHand
    <2>3. (\A t \in Svcs \cap good' : svcs'[t] # Absent) /\ (\A p \in Pods \cap good' : pods'[p] # Absent)
      BY <1>2, <1>3, <1>5 DEF Typed, TypeOK, AtHand
    <2>. QED
      BY <1>5, <2>1, <2>2, <2>3 DEF AtHand
  <1>. QED
    BY <1>6, <1>7 DEF Typed

LEMMA DeleteServiceTyped ==
  ASSUME Typed, NEW s \in Svcs, DeleteService(s)
  PROVE  Typed'
  <1>3. TypeOK'
    BY Disjoint DEF Typed, TypeOK, DeleteService, Forget, At, request
  <1>4. AtHand'
    BY Disjoint DEF Typed, TypeOK, AtHand, DeleteService, Forget, At, request
  <1>. QED
    BY <1>3, <1>4 DEF Typed

LEMMA CheckHostPortsTyped ==
  ASSUME Typed, NEW s \in Svcs, CheckHostPorts(s)
  PROVE  Typed'
  <1>3. TypeOK'
    BY Disjoint DEF Typed, TypeOK, CheckHostPorts, Goto, At, history, ServiceSteps, PodSteps, Slots
  <1>4. AtHand'
    BY Disjoint DEF Typed, TypeOK, AtHand, CheckHostPorts, Goto, At, history
  <1>. QED
    BY <1>3, <1>4 DEF Typed

LEMMA NextSlotTyped ==
  ASSUME Typed, NEW s \in Svcs, Assigning(s), NextSlot(s)
  PROVE  /\ step' \in [Objects -> ServiceSteps \cup PodSteps] /\ step'[s] \in ServiceSteps
         /\ step'[s] \in {"assign", "assign2", "conflict2", "backing"}
         /\ \A o \in Objects \ {s} : step'[o] = step[o]
         /\ slot' \in [Svcs -> Slots] /\ probe' \in [Svcs -> NodePortMin..(NodePortMax + 1)]
  <1>1. s \in Objects
    BY Disjoint
  <1>2. step' \in [Objects -> ServiceSteps \cup PodSteps] /\ step'[s] \in {"assign", "assign2", "conflict2", "backing"}
        /\ \A o \in Objects \ {s} : step'[o] = step[o]
    BY <1>1 DEF Typed, TypeOK, Assigning, NextSlot, Goto, At, ServiceSteps
  <1>3. slot' \in [Svcs -> Slots] /\ probe' \in [Svcs -> NodePortMin..(NodePortMax + 1)]
    BY DEF Typed, TypeOK, NextSlot, Slots
  <1>. QED
    BY <1>2, <1>3 DEF ServiceSteps

LEMMA CheckNodePortTyped ==
  ASSUME Typed, NEW s \in Svcs, CheckNodePort(s)
  PROVE  Typed'
  <1>1. /\ step' \in [Objects -> ServiceSteps \cup PodSteps] /\ step'[s] \in ServiceSteps
        /\ step'[s] \in {"assign", "assign2", "conflict2", "backing", "reject"}
        /\ \A o \in Objects \ {s} : step'[o] = step[o]
        /\ slot' \in [Svcs -> Slots] /\ probe' \in [Svcs -> NodePortMin..(NodePortMax + 1)]
    <2>1. CASE NextSlot(s)
      BY <2>1, NextSlotTyped DEF CheckNodePort
    <2>2. CASE Goto(s, "reject") /\ UNCHANGED <<slot, probe>>
      BY <2>2, Disjoint DEF Typed, TypeOK, Goto, ServiceSteps
    <2>. QED
      BY <2>1, <2>2 DEF CheckNodePort
  <1>2. step[s] # "idle"
    BY DEF CheckNodePort, Assigning, At
  <1>3. TypeOK'
    BY <1>1, Disjoint DEF Typed, TypeOK, CheckNodePort, history
  <1>4. AtHand'
    BY <1>1, <1>2, Disjoint DEF Typed, TypeOK, AtHand, CheckNodePort, history
  <1>. QED
    BY <1>3, <1>4 DEF Typed

LEMMA AllocateTyped ==
  ASSUME Typed, NEW s \in Svcs, AllocateNodePort(s)
  PROVE  Typed'
  <1>0. step[s] # "idle" /\ want[s] # Absent /\ s \in auto
    BY DEF AllocateNodePort, Assigning, At, Typed, AtHand, Requests, TypeOK
  <1>1. /\ step' \in [Objects -> ServiceSteps \cup PodSteps] /\ step'[s] \in ServiceSteps
        /\ step'[s] \in {"assign", "assign2", "conflict2", "backing", "reject"}
        /\ \A o \in Objects \ {s} : step'[o] = step[o]
        /\ slot' \in [Svcs -> Slots] /\ probe' \in [Svcs -> NodePortMin..(NodePortMax + 1)]
    <2>1. CASE NextSlot(s)
      BY <2>1, NextSlotTyped DEF AllocateNodePort
    <2>2. CASE Goto(s, "reject") /\ UNCHANGED <<slot, probe>>
      BY <2>2, Disjoint DEF Typed, TypeOK, Goto, ServiceSteps
    <2>3. CASE /\ ~(probe[s] > NodePortMax)
               /\ probe' = [probe EXCEPT ![s] = @ + 1] /\ UNCHANGED <<want, slot, step>>
      BY <2>3, Disjoint DEF Typed, TypeOK, AllocateNodePort, Assigning, At
    <2>. QED
      BY <2>1, <2>2, <2>3 DEF AllocateNodePort
  <1>2. /\ want' \in [Svcs -> [np : BOOLEAN, ports : PortMap] \cup {Absent}]
        /\ want'[s] # Absent /\ \A t \in Svcs \ {s} : want'[t] = want[t]
    <2>1. CASE UNCHANGED want
      BY <1>0, <2>1 DEF Typed, TypeOK
    <2>2. CASE ~(probe[s] > NodePortMax) /\ want' = [want EXCEPT ![s].ports[slot[s]] = probe[s]]
      <3>1. want[s] \in [np : BOOLEAN, ports : PortMap] /\ probe[s] \in NodePortMin..NodePortMax
        BY <1>0, <2>2 DEF Typed, TypeOK
      <3>2. [want[s].ports EXCEPT ![slot[s]] = probe[s]] \in PortMap
        BY <3>1 DEF PortMap
      <3>3. [want[s] EXCEPT !.ports = [want[s].ports EXCEPT ![slot[s]] = probe[s]]]
              \in [np : BOOLEAN, ports : PortMap]
        BY <3>1, <3>2
      <3>4. want' = [want EXCEPT ![s] = [want[s] EXCEPT !.ports = [want[s].ports EXCEPT ![slot[s]] = probe[s]]]]
        BY <2>2
      <3>. QED
        BY <3>3, <3>4, PortMaps DEF Typed, TypeOK
    <2>. QED
      BY <2>1, <2>2 DEF AllocateNodePort
  <1>3. TypeOK'
    BY <1>1, <1>2, Disjoint DEF Typed, TypeOK, AllocateNodePort, history
  <1>4. AtHand'
    BY <1>0, <1>1, <1>2, Disjoint DEF Typed, TypeOK, AtHand, AllocateNodePort, history
  <1>. QED
    BY <1>3, <1>4 DEF Typed

LEMMA FindBackingPodTyped ==
  ASSUME Typed, NEW s \in Svcs, FindBackingPod(s)
  PROVE  Typed'
  <1>1. /\ step[s] = "backing" /\ step' = [step EXCEPT ![s] = step'[s]]
        /\ \/ step'[s] \in {"update", "reject"} /\ own' = own
           \/ /\ step'[s] = "render"
              /\ \E p \in Selected[s] : Stored(p) /\ own' = [own EXCEPT ![s] = [pod |-> p, hosts |-> pods[p]]]
    BY Disjoint DEF FindBackingPod, Goto, At, Typed, TypeOK
  <1>2. \A p \in Selected[s] : Stored(p) => [pod |-> p, hosts |-> pods[p]] \in [pod : Pods, hosts : [Slots -> HostPorts]]
    BY DEF Stored, Typed, TypeOK
  <1>3. own' \in [Objects -> [pod : Pods, hosts : [Slots -> HostPorts]] \cup {Absent}]
        /\ (step'[s] = "render" => own'[s] # Absent)
        /\ \A o \in Objects \ {s} : own'[o] = own[o]
    <2>1. CASE own' = own /\ step'[s] \in {"update", "reject"}
      BY <2>1 DEF Typed, TypeOK
    <2>2. CASE \E p \in Selected[s] : Stored(p) /\ own' = [own EXCEPT ![s] = [pod |-> p, hosts |-> pods[p]]]
      <3>1. PICK p \in Selected[s] : Stored(p) /\ own' = [own EXCEPT ![s] = [pod |-> p, hosts |-> pods[p]]]
        BY <2>2
      <3> DEFINE mine == [pod |-> p, hosts |-> pods[p]]
      <3>2. mine \in [pod : Pods, hosts : [Slots -> HostPorts]] /\ mine # Absent
        BY <1>2, <3>1, PortMaps
      <3>3. own' = [own EXCEPT ![s] = mine]
        BY <3>1
      <3> HIDE DEF mine
      <3>. QED
        BY <3>2, <3>3, Disjoint DEF Typed, TypeOK
    <2>. QED
      BY <1>1, <2>1, <2>2
  <1>4. TypeOK'
    <2>1. /\ step' \in [Objects -> ServiceSteps \cup PodSteps]
          /\ (\A t \in Svcs : step'[t] \in ServiceSteps) /\ \A p \in Pods : step'[p] \in PodSteps
      <3>1. step'[s] \in ServiceSteps
        BY <1>1 DEF ServiceSteps
      <3> DEFINE there == step'[s]
      <3>2. step' = [step EXCEPT ![s] = there] /\ there \in ServiceSteps
        BY <1>1, <3>1
      <3> HIDE DEF there
      <3>. QED
        BY <3>2, Disjoint DEF Typed, TypeOK
    <2>. QED
      BY <2>1, <1>3 DEF Typed, TypeOK, FindBackingPod, history
  <1>5. AtHand'
    <2>1. UNCHANGED <<svcs, pods, want, good, auto, rivals>> /\ step[s] # "idle"
          /\ \A o \in Objects \ {s} : step'[o] = step[o]
      BY <1>1 DEF FindBackingPod, history, Typed, TypeOK
    <2>2. \A o \in Objects : step'[o] \in {"check", "create", "render", "write"} => own'[o] # Absent
      BY <1>1, <1>3, <2>1 DEF Typed, AtHand
    <2>. QED
      BY <2>1, <2>2, Disjoint DEF Typed, AtHand
  <1>. QED
    BY <1>4, <1>5 DEF Typed

LEMMA EndServiceTyped ==
  ASSUME Typed, NEW s \in Svcs, EndService(s)
  PROVE  /\ step' = [step EXCEPT ![s] = "idle"] /\ want' = [want EXCEPT ![s] = Absent]
         /\ step' \in [Objects -> ServiceSteps \cup PodSteps]
         /\ \A t \in Svcs : step'[t] \in ServiceSteps
         /\ \A p \in Pods : step'[p] \in PodSteps
         /\ want' \in [Svcs -> [np : BOOLEAN, ports : PortMap] \cup {Absent}]
         /\ posted' \in [Svcs -> BOOLEAN] /\ slot' \in [Svcs -> Slots]
         /\ probe' \in [Svcs -> NodePortMin..(NodePortMax + 1)]
  <1>1. step' = [step EXCEPT ![s] = "idle"] /\ want' = [want EXCEPT ![s] = Absent]
    BY DEF EndService, Goto
  <1>2. /\ step' \in [Objects -> ServiceSteps \cup PodSteps]
        /\ \A t \in Svcs : step'[t] \in ServiceSteps
        /\ \A p \in Pods : step'[p] \in PodSteps
    BY <1>1, Disjoint DEF Typed, TypeOK, ServiceSteps
  <1>3. want' \in [Svcs -> [np : BOOLEAN, ports : PortMap] \cup {Absent}]
    BY <1>1 DEF Typed, TypeOK
  <1>4. posted' \in [Svcs -> BOOLEAN] /\ slot' \in [Svcs -> Slots]
        /\ probe' \in [Svcs -> NodePortMin..(NodePortMax + 1)]
    BY DEF EndService, Typed, TypeOK, Slots
  <1>. QED
    BY <1>1, <1>2, <1>3, <1>4

LEMMA StoreServiceTyped ==
  ASSUME Typed, NEW s \in Svcs, StoreService(s)
  PROVE  Typed'
  <1>0. step[s] = "update" /\ want[s] # Absent /\ svcs[s] # Absent
    BY DEF StoreService, At, Typed, AtHand
  <1>1. svcs' = [svcs EXCEPT ![s] = want[s]] /\ EndService(s)
    BY <1>0 DEF StoreService
  <1>2. TypeOK'
    BY <1>0, <1>1, EndServiceTyped, Disjoint DEF Typed, TypeOK, StoreService
  <1>3. AtHand'
    <2>1. UNCHANGED <<pods, own, auto, rivals>> /\ good' = good \cup {s}
          /\ step'[s] = "idle" /\ svcs'[s] # Absent
          /\ (\A o \in Objects \ {s} : step'[o] = step[o])
          /\ \A t \in Svcs \ {s} : want'[t] = want[t] /\ svcs'[t] = svcs[t]
      BY <1>0, <1>1, EndServiceTyped, Disjoint DEF Typed, TypeOK, StoreService
    <2>. QED
      BY <2>1, Disjoint DEF Typed, AtHand
  <1>. QED
    BY <1>2, <1>3 DEF Typed

LEMMA RejectServiceTyped ==
  ASSUME Typed, NEW s \in Svcs, RejectService(s)
  PROVE  Typed'
  <1>2. TypeOK'
    BY EndServiceTyped, Disjoint DEF Typed, TypeOK, RejectService, Forget
  <1>3. AtHand'
    BY EndServiceTyped, Disjoint DEF Typed, TypeOK, AtHand, RejectService, Forget
  <1>. QED
    BY <1>2, <1>3 DEF Typed

(* What q8s may publish on a slot is a number of the right kind. *)
LEMMA BindingsTyped ==
  ASSUME Typed, NEW o \in Objects, Render(o)
  PROVE  draft' \in [Objects -> PortMap \cup {Absent}]
  <1> DEFINE Ports == Requested \cup HostPorts \cup (NodePortMin..NodePortMax) \cup {0}
  <1>1. PortMap = [Slots -> Ports] /\ HostPorts \subseteq Ports
    BY DEF PortMap
  <1> HIDE DEF Ports
  <1>2. own[o] \in [pod : Pods, hosts : [Slots -> HostPorts]]
    BY DEF Render, At, Typed, TypeOK, AtHand
  <1>3. \A i \in Slots : Bindings(own[o].pod, i) \subseteq Ports
    <2>1. \A s \in Svcs : svcs[s] # Absent => \A i \in Slots : svcs[s].ports[i] \in Ports
      BY <1>1 DEF Typed, TypeOK
    <2>. QED
      BY <2>1 DEF Bindings
  <1>4. PICK f \in [Slots -> UNION {Bindings(own[o].pod, i) \cup {own[o].hosts[i]} : i \in Slots}] :
          /\ \A i \in Slots : LET b == Bindings(own[o].pod, i)
                              IN  f[i] \in IF b = {} THEN {own[o].hosts[i]} ELSE b
          /\ draft' = [draft EXCEPT ![o] = f]
    BY DEF Render
  <1>5. \A i \in Slots : f[i] \in Ports
    BY <1>1, <1>2, <1>3, <1>4
  <1>6. f \in PortMap
    BY <1>1, <1>4, <1>5
  <1>. QED
    BY <1>4, <1>6 DEF Typed, TypeOK

LEMMA RenderTyped ==
  ASSUME Typed, NEW o \in Objects, Render(o)
  PROVE  Typed'
  <1>1. step[o] = "render" /\ step' = [step EXCEPT ![o] = "write"]
    BY DEF Render, At, Goto
  <1>2. TypeOK'
    <2>1. /\ step' \in [Objects -> ServiceSteps \cup PodSteps]
          /\ (\A t \in Svcs : step'[t] \in ServiceSteps) /\ \A p \in Pods : step'[p] \in PodSteps
      BY <1>1, Disjoint DEF Typed, TypeOK, ServiceSteps, PodSteps
    <2>2. draft' \in [Objects -> PortMap \cup {Absent}]
      BY BindingsTyped
    <2>3. UNCHANGED <<svcs, pods, file, want, posted, slot, probe, own, good, auto, rivals>>
      BY DEF Render, history
    <2>. QED
      BY <2>1, <2>2, <2>3 DEF Typed, TypeOK
  <1>3. AtHand'
    BY <1>1, Disjoint DEF Typed, TypeOK, AtHand, Render, history
  <1>. QED
    BY <1>2, <1>3 DEF Typed

LEMMA WriteTyped ==
  ASSUME Typed, NEW o \in Objects, Write(o)
  PROVE  Typed'
  <1>1. step[o] = "write" /\ step' = [step EXCEPT ![o] = IF o \in Svcs THEN "update" ELSE "idle"]
        /\ own' = [own EXCEPT ![o] = Absent] /\ draft' = [draft EXCEPT ![o] = Absent]
    BY DEF Write, At, Goto
  <1>2. file' \in [Pods -> PortMap \cup {Absent}]
    BY DEF Write, Typed, TypeOK
  <1>3. TypeOK'
    BY <1>1, <1>2, Disjoint DEF Typed, TypeOK, Write, history, ServiceSteps, PodSteps
  <1>4. AtHand'
    BY <1>1, Disjoint DEF Typed, TypeOK, AtHand, Write, history
  <1>. QED
    BY <1>3, <1>4 DEF Typed

LEMMA PostPodTyped ==
  ASSUME Typed, NEW p \in Pods, NEW hosts \in [Slots -> HostPorts], PostPod(p, hosts) \/ PatchPod(p, hosts)
  PROVE  Typed'
  <1>1. p \in Objects /\ p \notin Svcs
    BY Disjoint
  <1>2. [pod |-> p, hosts |-> hosts] \in [pod : Pods, hosts : [Slots -> HostPorts]]
    OBVIOUS
  <1>3. own' = [own EXCEPT ![p] = [pod |-> p, hosts |-> hosts]]
        /\ UNCHANGED <<svcs, file, want, posted, slot, probe, draft, auto>>
    BY DEF PostPod, PatchPod
  <1>4. (Begin(p, "check") /\ pods' = pods) \/ (Begin(p, "render") /\ pods' = [pods EXCEPT ![p] = hosts])
    BY DEF PostPod, PatchPod
  <1>5. PICK there \in {"check", "render"} : Begin(p, there)
    BY <1>4
  <1>6. there \in PodSteps
    BY DEF PodSteps
  <1>7. /\ step[p] = "idle" /\ step' = [step EXCEPT ![p] = there]
        /\ good' = good \ {p} /\ rivals' \in [Svcs -> SUBSET Objects]
        /\ \A t \in Svcs, q \in Objects :
             t # q /\ step'[t] # "idle" /\ step'[q] # "idle" => q \in rivals'[t]
    BY <1>1, <1>5, <1>6, BeginKnows
  <1>8. pods' \in [Pods -> [Slots -> HostPorts] \cup {Absent}] /\ \A q \in Pods : pods[q] # Absent => pods'[q] # Absent
    BY <1>4, PortMaps DEF Typed, TypeOK
  <1>9. TypeOK'
    BY <1>1, <1>2, <1>3, <1>6, <1>7, <1>8, Disjoint DEF Typed, TypeOK
  <1>10. AtHand'
    BY <1>1, <1>2, <1>3, <1>7, <1>8, Disjoint, PortMaps DEF Typed, TypeOK, AtHand
  <1>. QED
    BY <1>9, <1>10 DEF Typed

LEMMA CheckPodTyped ==
  ASSUME Typed, NEW p \in Pods, CheckPod(p)
  PROVE  Typed'
  <1>1. p \in Objects /\ p \notin Svcs /\ step[p] = "check"
    BY Disjoint DEF CheckPod, At
  <1>2. CASE Goto(p, "idle") /\ own' = [own EXCEPT ![p] = Absent] /\ Forget(p)
    <2>1. TypeOK'
      BY <1>1, <1>2, Disjoint DEF Typed, TypeOK, CheckPod, Goto, Forget, PodSteps
    <2>2. AtHand'
      BY <1>1, <1>2, Disjoint DEF Typed, TypeOK, AtHand, CheckPod, Goto, Forget
    <2>. QED
      BY <2>1, <2>2 DEF Typed
  <1>3. CASE Goto(p, "create") /\ UNCHANGED <<own, good, rivals>>
    <2>1. TypeOK'
      BY <1>1, <1>3, Disjoint DEF Typed, TypeOK, CheckPod, Goto, PodSteps
    <2>2. AtHand'
      BY <1>1, <1>3, Disjoint DEF Typed, TypeOK, AtHand, CheckPod, Goto
    <2>. QED
      BY <2>1, <2>2 DEF Typed
  <1>. QED
    BY <1>2, <1>3 DEF CheckPod

LEMMA CreatePodTyped ==
  ASSUME Typed, NEW p \in Pods, CreatePod(p)
  PROVE  Typed'
  <1>1. p \in Objects /\ p \notin Svcs /\ step[p] = "create" /\ own[p] \in [pod : Pods, hosts : [Slots -> HostPorts]]
    BY Disjoint DEF CreatePod, At, Typed, TypeOK, AtHand
  <1>2. pods' \in [Pods -> [Slots -> HostPorts] \cup {Absent}] /\ pods'[p] # Absent
        /\ \A q \in Pods \ {p} : pods'[q] = pods[q]
    BY <1>1, PortMaps DEF Typed, TypeOK, CreatePod
  <1>3. TypeOK'
    BY <1>1, <1>2, Disjoint DEF Typed, TypeOK, CreatePod, Goto, PodSteps, request
  <1>4. AtHand'
    BY <1>1, <1>2, Disjoint DEF Typed, TypeOK, AtHand, CreatePod, Goto, request
  <1>. QED
    BY <1>3, <1>4 DEF Typed

LEMMA DeletePodTyped ==
  ASSUME Typed, NEW p \in Pods, DeletePod(p)
  PROVE  Typed'
  <1>1. p \in Objects /\ p \notin Svcs /\ "drop" \in PodSteps
    BY Disjoint DEF PodSteps
  <1>2. /\ step[p] = "idle" /\ step' = [step EXCEPT ![p] = "drop"]
        /\ good' = good \ {p} /\ rivals' \in [Svcs -> SUBSET Objects]
        /\ \A t \in Svcs, q \in Objects :
             t # q /\ step'[t] # "idle" /\ step'[q] # "idle" => q \in rivals'[t]
    BY <1>1, BeginKnows DEF DeletePod
  <1>3. TypeOK'
    BY <1>1, <1>2, Disjoint DEF Typed, TypeOK, DeletePod, request
  <1>4. AtHand'
    BY <1>1, <1>2, Disjoint DEF Typed, TypeOK, AtHand, DeletePod, request
  <1>. QED
    BY <1>3, <1>4 DEF Typed

LEMMA DropPodTyped ==
  ASSUME Typed, NEW p \in Pods, DropPod(p)
  PROVE  Typed'
  <1>1. p \in Objects /\ p \notin Svcs
    BY Disjoint
  <1>3. TypeOK'
    BY <1>1, Disjoint DEF Typed, TypeOK, DropPod, Goto, Forget, PodSteps, request
  <1>4. AtHand'
    BY <1>1, Disjoint DEF Typed, TypeOK, AtHand, DropPod, Goto, Forget, request
  <1>. QED
    BY <1>3, <1>4 DEF Typed

LEMMA NextTyped == Typed /\ [Next]_vars => Typed'
  <1> SUFFICES ASSUME Typed, [Next]_vars PROVE Typed'
    OBVIOUS
  <1>1. CASE Next
    <2>1. ASSUME NEW s \in Svcs, ServiceStep(s) PROVE Typed'
      BY <2>1, CheckHostPortsTyped, CheckNodePortTyped, AllocateTyped, FindBackingPodTyped,
         StoreServiceTyped, RejectServiceTyped DEF ServiceStep
    <2>2. ASSUME NEW o \in Objects, Render(o) \/ Write(o) PROVE Typed'
      BY <2>2, RenderTyped, WriteTyped
    <2>3. ASSUME NEW p \in Pods, DeletePod(p) \/ DropPod(p) \/ CheckPod(p) \/ CreatePod(p) PROVE Typed'
      BY <2>3, DeletePodTyped, DropPodTyped, CheckPodTyped, CreatePodTyped
    <2>. QED
      BY <1>1, <2>1, <2>2, <2>3, PostTyped, PostPodTyped, DeleteServiceTyped DEF Next
  <1>2. CASE UNCHANGED vars
    BY <1>2 DEF vars, request, history, Typed, TypeOK, AtHand
  <1>. QED
    BY <1>1, <1>2

---------------------------------------------------------------------------
(* What a step leaves as it was                                            *)

(* What was compared and stands was compared before, and is what it was.   *)
ServiceStill(s) ==
  ServiceCompared(s)' =>
    /\ ServiceCompared(s) /\ Compared(s)' \subseteq Compared(s)
    /\ Meant(s)' = Meant(s) /\ (s \in auto' <=> s \in auto)
PodStill(p) ==
  PodCompared(p)' => PodCompared(p) /\ MeantHosts(p)' = MeantHosts(p)

TouchesOnly(o) ==
  /\ \A t \in Svcs \ {o} :
       /\ step'[t] = step[t] /\ slot'[t] = slot[t] /\ want'[t] = want[t] /\ svcs'[t] = svcs[t]
       /\ (t \in auto' <=> t \in auto) /\ (t \in good' <=> t \in good)
  /\ \A p \in Pods \ {o} :
       /\ step'[p] = step[p] /\ own'[p] = own[p] /\ pods'[p] = pods[p]
       /\ (p \in good' <=> p \in good)
  /\ \/ rivals' = rivals
     \/ /\ o \in Svcs => ~ServiceCompared(o)'
        /\ o \in Pods => ~PodCompared(o)'
        /\ \A s \in Svcs \ {o}, q \in Objects \ {o} : q \in rivals[s] => q \in rivals'[s]

LEMMA OthersStill ==
  ASSUME NEW o \in Objects, TouchesOnly(o)
  PROVE  /\ \A t \in Svcs \ {o} : ServiceStill(t)
         /\ \A p \in Pods \ {o} : PodStill(p)
  <1>1. ASSUME NEW t \in Svcs \ {o} PROVE ServiceStill(t)
    BY DEF TouchesOnly, ServiceStill, ServiceCompared, Compared, Accepted, At, Meant
  <1>2. ASSUME NEW p \in Pods \ {o} PROVE PodStill(p)
    BY DEF TouchesOnly, PodStill, PodCompared, MeantHosts
  <1>. QED
    BY <1>1, <1>2

LEMMA NothingCompared == \A s \in Svcs : ~ServiceCompared(s) => Compared(s) = {}
  BY DEF ServiceCompared, Compared

(* Two that were compared, and still are, keep their rivals. *)
LEMMA StillApart ==
  ASSUME Typed, NEW o \in Objects, TouchesOnly(o), NEW s \in Svcs, NEW q \in Objects,
         s # q, ServiceCompared(s)', q \in Svcs => ServiceCompared(q)', q \in Pods => PodCompared(q)',
         Apart(s, q)'
  PROVE  Apart(s, q)
  <1>1. CASE rivals' = rivals
    BY <1>1 DEF Apart
  <1>2. CASE rivals' # rivals
    BY <1>2 DEF TouchesOnly, Apart, Objects
  <1>. QED
    BY <1>1, <1>2

(* Services other than the one at work differ as before. *)
LEMMA OtherServicesDiffer ==
  ASSUME Typed, ServicesDiffer, NEW o \in Objects, TouchesOnly(o),
         NEW s \in Svcs, NEW t \in Svcs, s # t, ServiceStill(s), ServiceStill(t),
         Apart(s, t)' \/ {s, t} \cap auto' = {},
         NEW i \in Compared(s)', NEW k \in Compared(t)',
         Meant(s)'.np, Meant(t)'.np, Meant(s)'.ports[i] # 0
  PROVE  Meant(s)'.ports[i] # Meant(t)'.ports[k]
  <1>1. ServiceCompared(s)' /\ ServiceCompared(t)'
    BY DEF ServiceCompared, Compared
  <1>2. /\ i \in Compared(s) /\ k \in Compared(t)
        /\ Meant(s)' = Meant(s) /\ Meant(t)' = Meant(t)
        /\ (s \in auto' <=> s \in auto) /\ (t \in auto' <=> t \in auto)
    BY <1>1 DEF ServiceStill
  <1>3. Apart(s, t) \/ {s, t} \cap auto = {}
    BY <1>1, <1>2, StillApart, Disjoint
  <1>. QED
    BY <1>2, <1>3 DEF ServicesDiffer

LEMMA OtherHostsDiffer ==
  ASSUME Typed, HostsDiffer, NEW o \in Objects, TouchesOnly(o),
         NEW s \in Svcs, NEW p \in Pods, ServiceStill(s), PodStill(p),
         ServiceCompared(s)', PodCompared(p)', Meant(s)'.np, Apart(s, p)'
  PROVE  Numbers(Meant(s)'.ports) \cap Numbers(MeantHosts(p)') = {}
  <1>1. ServiceCompared(s) /\ PodCompared(p) /\ Meant(s)' = Meant(s) /\ MeantHosts(p)' = MeantHosts(p)
    BY DEF ServiceStill, PodStill
  <1>2. Apart(s, p)
    BY StillApart, Disjoint
  <1>. QED
    BY <1>1, <1>2 DEF HostsDiffer

LEMMA Quiet ==
  ASSUME Typed, ServicesDiffer, HostsDiffer, NEW o \in Objects, TouchesOnly(o),
         o \in Svcs => ServiceStill(o), o \in Pods => PodStill(o)
  PROVE  ServicesDiffer' /\ HostsDiffer'
  <1>1. (\A s \in Svcs : ServiceStill(s)) /\ (\A p \in Pods : PodStill(p))
    BY OthersStill
  <1>2. ServicesDiffer'
    BY <1>1, OtherServicesDiffer DEF ServicesDiffer
  <1>3. HostsDiffer'
    BY <1>1, OtherHostsDiffer DEF HostsDiffer, Numbers
  <1>. QED
    BY <1>2, <1>3

---------------------------------------------------------------------------
(* Steps that compare nothing                                              *)

Quietly == ServicesDiffer' /\ HostsDiffer'
DiffInv == Typed /\ ServicesDiffer /\ HostsDiffer

LEMMA PostQuiet ==
  ASSUME DiffInv, NEW s \in Svcs, NEW v \in Services, PostService(s, v) \/ PatchService(s, v)
  PROVE  Quietly
  <1>1. BeginService(s, TRUE, v) \/ BeginService(s, FALSE, v)
    BY DEF PostService, PatchService
  <1>2. /\ step' = [step EXCEPT ![s] = "conflict"] /\ good' = good \ {s}
        /\ \A t \in Svcs, q \in Objects \ {s} : t # s /\ q \in rivals[t] => q \in rivals'[t]
    BY <1>1, BeginKnows, Disjoint DEF ServiceSteps, DiffInv
  <1>3. ~ServiceCompared(s)'
    BY <1>2, Disjoint DEF ServiceCompared, Accepted, At, DiffInv, Typed, TypeOK
  <1>4. TouchesOnly(s)
    BY <1>1, <1>2, <1>3, Disjoint DEF BeginService, TouchesOnly, DiffInv, Typed, TypeOK
  <1>. QED
    BY <1>3, <1>4, Quiet, Disjoint DEF ServiceStill, Quietly, DiffInv

LEMMA DeleteServiceQuiet ==
  ASSUME DiffInv, NEW s \in Svcs, DeleteService(s)
  PROVE  Quietly
  <1>1. ~ServiceCompared(s)'
    BY DEF DeleteService, Forget, ServiceCompared, Accepted, At, DiffInv
  <1>2. TouchesOnly(s)
    BY <1>1, Disjoint DEF DeleteService, Forget, request, TouchesOnly, DiffInv, Typed, TypeOK
  <1>. QED
    BY <1>1, <1>2, Quiet, Disjoint DEF ServiceStill, Quietly, DiffInv

(* The request on s takes a step and its Service does not change. *)
LEMMA ServiceStepTouches ==
  ASSUME Typed, NEW s \in Svcs, UNCHANGED <<svcs, pods, want, history>>,
         \A o \in Objects \ {s} : step'[o] = step[o] /\ own'[o] = own[o],
         \A t \in Svcs \ {s} : slot'[t] = slot[t]
  PROVE  TouchesOnly(s)
  BY Disjoint DEF TouchesOnly, history

LEMMA FindBackingPodQuiet ==
  ASSUME DiffInv, NEW s \in Svcs, FindBackingPod(s)
  PROVE  Quietly
  <1>1. step[s] = "backing" /\ (\A o \in Objects \ {s} : step'[o] = step[o])
        /\ step'[s] \in {"render", "update", "reject"}
    BY Disjoint DEF FindBackingPod, Goto, At, DiffInv, Typed, TypeOK
  <1>2. \A o \in Objects \ {s} : own'[o] = own[o]
    BY DEF FindBackingPod, DiffInv, Typed, TypeOK
  <1>3. TouchesOnly(s)
    BY <1>1, <1>2, ServiceStepTouches DEF FindBackingPod, DiffInv
  <1>4. ServiceStill(s)
    BY <1>1 DEF ServiceStill, ServiceCompared, Compared, Meant, Accepted, At, FindBackingPod, history
  <1>. QED
    BY <1>3, <1>4, Quiet, Disjoint DEF Quietly, DiffInv

LEMMA StoreServiceQuiet ==
  ASSUME DiffInv, NEW s \in Svcs, StoreService(s)
  PROVE  Quietly
  <1>0. step[s] = "update" /\ want[s] # Absent /\ svcs[s] # Absent
    BY DEF StoreService, At, DiffInv, Typed, AtHand
  <1>1. svcs' = [svcs EXCEPT ![s] = want[s]] /\ EndService(s)
    BY <1>0 DEF StoreService
  <1>2. step'[s] = "idle" /\ svcs'[s] = want[s] /\ UNCHANGED auto
    BY <1>1, Disjoint DEF EndService, Goto, StoreService, DiffInv, Typed, TypeOK
  <1>3. TouchesOnly(s)
    BY <1>1, Disjoint DEF EndService, Goto, StoreService, TouchesOnly, DiffInv, Typed, TypeOK
  <1>4. ServiceStill(s)
    BY <1>0, <1>2 DEF ServiceStill, ServiceCompared, Compared, Meant, Accepted, At
  <1>. QED
    BY <1>3, <1>4, Quiet, Disjoint DEF Quietly, DiffInv

LEMMA RejectServiceQuiet ==
  ASSUME DiffInv, NEW s \in Svcs, RejectService(s)
  PROVE  Quietly
  <1>1. step' = [step EXCEPT ![s] = "idle"] /\ step'[s] = "idle" /\ s \notin good'
    BY Disjoint DEF RejectService, EndService, Goto, Forget, DiffInv, Typed, TypeOK
  <1>2. ~ServiceCompared(s)'
    BY <1>1 DEF ServiceCompared, Accepted, At
  <1>3. TouchesOnly(s)
    BY <1>1, <1>2, Disjoint DEF RejectService, EndService, Forget, TouchesOnly, DiffInv, Typed, TypeOK
  <1>. QED
    BY <1>2, <1>3, Quiet, Disjoint DEF ServiceStill, Quietly, DiffInv

LEMMA RenderQuiet ==
  ASSUME DiffInv, NEW o \in Objects, Render(o) \/ Write(o)
  PROVE  Quietly
  <1>1. /\ step[o] \in {"render", "write"} /\ (\A q \in Objects \ {o} : step'[q] = step[q] /\ own'[q] = own[q])
        /\ step'[o] = IF step[o] = "render" THEN "write" ELSE IF o \in Svcs THEN "update" ELSE "idle"
        /\ UNCHANGED <<svcs, pods, want, slot, good, auto, rivals>>
    BY DEF Render, Write, Goto, At, history, DiffInv, Typed, TypeOK
  <1>2. TouchesOnly(o)
    BY <1>1, Disjoint DEF TouchesOnly
  <1>3. o \in Svcs => ServiceStill(o)
    BY <1>1 DEF ServiceStill, ServiceCompared, Compared, Meant, Accepted, At
  <1>4. o \in Pods => PodStill(o)
    BY <1>1, Disjoint DEF PodStill, PodCompared, MeantHosts
  <1>. QED
    BY <1>2, <1>3, <1>4, Quiet DEF Quietly, DiffInv

LEMMA PostPodQuiet ==
  ASSUME DiffInv, NEW p \in Pods, NEW hosts \in [Slots -> HostPorts], PostPod(p, hosts) \/ PatchPod(p, hosts)
  PROVE  Quietly
  <1>1. PICK there \in {"check", "render"} : Begin(p, there)
    BY DEF PostPod, PatchPod
  <1>2. there \in PodSteps
    BY DEF PodSteps
  <1>3. /\ step' = [step EXCEPT ![p] = there] /\ good' = good \ {p}
        /\ \A t \in Svcs, q \in Objects \ {p} : t # p /\ q \in rivals[t] => q \in rivals'[t]
    BY <1>1, <1>2, BeginKnows, Disjoint DEF DiffInv
  <1>4. ~PodCompared(p)'
    BY <1>3, Disjoint DEF PodCompared, DiffInv, Typed, TypeOK
  <1>5. UNCHANGED <<svcs, slot, want, auto>> /\ \A q \in Pods \ {p} : pods'[q] = pods[q] /\ own'[q] = own[q]
    BY Disjoint DEF PostPod, PatchPod, DiffInv, Typed, TypeOK
  <1>6. TouchesOnly(p)
    BY <1>3, <1>4, <1>5, Disjoint DEF TouchesOnly, DiffInv, Typed, TypeOK
  <1>. QED
    BY <1>4, <1>6, Quiet, Disjoint DEF PodStill, Quietly, DiffInv

LEMMA CreatePodQuiet ==
  ASSUME DiffInv, NEW p \in Pods, CreatePod(p)
  PROVE  Quietly
  <1>1. /\ step[p] = "create" /\ step'[p] = "render" /\ pods'[p] = own[p].hosts
        /\ \A q \in Objects \ {p} : step'[q] = step[q]
    BY Disjoint DEF CreatePod, At, Goto, DiffInv, Typed, TypeOK
  <1>2. TouchesOnly(p)
    BY <1>1, Disjoint DEF CreatePod, request, TouchesOnly, DiffInv, Typed, TypeOK
  <1>3. PodStill(p)
    BY <1>1 DEF PodStill, PodCompared, MeantHosts
  <1>. QED
    BY <1>2, <1>3, Quiet, Disjoint DEF Quietly, DiffInv

LEMMA DeletePodQuiet ==
  ASSUME DiffInv, NEW p \in Pods, DeletePod(p)
  PROVE  Quietly
  <1>1. "drop" \in PodSteps
    BY DEF PodSteps
  <1>2. /\ step' = [step EXCEPT ![p] = "drop"] /\ good' = good \ {p}
        /\ \A t \in Svcs, q \in Objects \ {p} : t # p /\ q \in rivals[t] => q \in rivals'[t]
    BY <1>1, BeginKnows, Disjoint DEF DeletePod, DiffInv
  <1>3. ~PodCompared(p)'
    BY <1>2, Disjoint DEF PodCompared, DiffInv, Typed, TypeOK
  <1>4. TouchesOnly(p)
    BY <1>2, <1>3, Disjoint DEF DeletePod, request, TouchesOnly, DiffInv, Typed, TypeOK
  <1>. QED
    BY <1>3, <1>4, Quiet, Disjoint DEF PodStill, Quietly, DiffInv

LEMMA DropPodQuiet ==
  ASSUME DiffInv, NEW p \in Pods, DropPod(p)
  PROVE  Quietly
  <1>1. ~PodCompared(p)'
    BY Disjoint DEF DropPod, Goto, Forget, PodCompared, DiffInv, Typed, TypeOK
  <1>2. TouchesOnly(p)
    BY <1>1, Disjoint DEF DropPod, Goto, Forget, request, TouchesOnly, DiffInv, Typed, TypeOK
  <1>. QED
    BY <1>1, <1>2, Quiet, Disjoint DEF PodStill, Quietly, DiffInv

---------------------------------------------------------------------------
(* Steps that compare                                                      *)

(* Whoever is compared with a request under way, and apart from it, has no *)
(* request under way.                                                      *)
LEMMA ApartIsIdle ==
  ASSUME Typed, NEW s \in Svcs, NEW o \in Objects, s # o, step[s] # "idle" \/ step[o] # "idle",
         Apart(s, o)
  PROVE  step[s] = "idle" \/ step[o] = "idle"
  BY DEF Typed, AtHand, Apart

LEMMA CheckPodDiffers ==
  ASSUME DiffInv, NEW p \in Pods, CheckPod(p)
  PROVE  Quietly
  <1>1. p \in Objects /\ p \notin Svcs /\ step[p] = "check"
    BY Disjoint DEF CheckPod, At
  <1>2. CASE Goto(p, "idle") /\ own' = [own EXCEPT ![p] = Absent] /\ Forget(p)
    <2>1. ~PodCompared(p)'
      BY <1>1, <1>2, Disjoint DEF Goto, Forget, PodCompared, DiffInv, Typed, TypeOK
    <2>2. TouchesOnly(p)
      BY <1>1, <1>2, <2>1, Disjoint DEF CheckPod, Goto, Forget, TouchesOnly, DiffInv, Typed, TypeOK
    <2>. QED
      BY <1>1, <2>1, <2>2, Quiet, Disjoint DEF PodStill, Quietly, DiffInv
  <1>3. CASE ~PodConflict(own[p].hosts) /\ Goto(p, "create") /\ UNCHANGED <<own, good, rivals>>
    <2>1. TouchesOnly(p)
      BY <1>1, <1>3, Disjoint DEF CheckPod, Goto, TouchesOnly, DiffInv, Typed, TypeOK
    <2>2. (\A s \in Svcs : ServiceStill(s)) /\ (\A q \in Pods \ {p} : PodStill(q))
      BY <1>1, <2>1, OthersStill, Disjoint
    <2>3. ServicesDiffer'
      BY <1>1, <2>1, <2>2, OtherServicesDiffer DEF ServicesDiffer, DiffInv
    <2>4. MeantHosts(p)' = own[p].hosts
      BY <1>1, <1>3 DEF MeantHosts, Goto, DiffInv, Typed, TypeOK
    <2>5. ASSUME NEW s \in Svcs, ServiceCompared(s)', Meant(s)'.np, Apart(s, p)'
          PROVE  Numbers(Meant(s)'.ports) \cap Numbers(MeantHosts(p)') = {}
      <3>1. ServiceCompared(s) /\ Meant(s)' = Meant(s) /\ Apart(s, p)
        BY <1>3, <2>2, <2>5 DEF ServiceStill, Apart
      <3>2. step[s] = "idle" /\ s # p
        BY <1>1, <3>1, ApartIsIdle, Disjoint DEF DiffInv
      <3>3. Meant(s) = svcs[s] /\ svcs[s] # Absent
        BY <3>1, <3>2 DEF Meant, ServiceCompared, Accepted, DiffInv, Typed, AtHand
      <3>. QED
        BY <1>3, <2>4, <2>5, <3>1, <3>3 DEF PodConflict
    <2>6. HostsDiffer'
      BY <1>1, <2>1, <2>2, <2>5, OtherHostsDiffer DEF HostsDiffer, Numbers, DiffInv
    <2>. QED
      BY <2>3, <2>6 DEF Quietly
  <1>. QED
    BY <1>2, <1>3 DEF CheckPod

(* A Service at work whose numbers are not yet compared with anything, or  *)
(* compare with everything that stands.                                    *)
LEMMA OneDiffers ==
  ASSUME DiffInv, NEW s \in Svcs, TouchesOnly(s),
         \A t \in Svcs \ {s} : Meant(s)'.np /\ Meant(t)'.np /\ (Apart(s, t)' \/ Apart(t, s)' \/ {s, t} \cap auto' = {}) =>
           \A i \in Compared(s)', k \in Compared(t)' : Meant(s)'.ports[i] # Meant(t)'.ports[k] \/ (Meant(s)'.ports[i] = 0 /\ Meant(t)'.ports[k] = 0),
         \A p \in Pods : ServiceCompared(s)' /\ PodCompared(p)' /\ Meant(s)'.np /\ Apart(s, p)' =>
           Numbers(Meant(s)'.ports) \cap Numbers(MeantHosts(p)') = {}
  PROVE  Quietly
  <1>1. (\A t \in Svcs \ {s} : ServiceStill(t)) /\ (\A p \in Pods : PodStill(p))
    BY OthersStill, Disjoint
  <1>2. ServicesDiffer'
    <2> SUFFICES ASSUME NEW a \in Svcs, NEW b \in Svcs, a # b,
                        Apart(a, b)' \/ {a, b} \cap auto' = {},
                        NEW i \in Compared(a)', NEW k \in Compared(b)',
                        Meant(a)'.np, Meant(b)'.np, Meant(a)'.ports[i] # 0
                 PROVE  Meant(a)'.ports[i] # Meant(b)'.ports[k]
      BY DEF ServicesDiffer
    <2>1. CASE a = s
      BY <2>1
    <2>2. CASE b = s
      BY <2>2
    <2>3. CASE a # s /\ b # s
      BY <1>1, <2>3, OtherServicesDiffer, Disjoint DEF DiffInv
    <2>. QED
      BY <2>1, <2>2, <2>3
  <1>3. HostsDiffer'
    <2> SUFFICES ASSUME NEW a \in Svcs, NEW p \in Pods,
                        ServiceCompared(a)', PodCompared(p)', Meant(a)'.np, Apart(a, p)'
                 PROVE  Numbers(Meant(a)'.ports) \cap Numbers(MeantHosts(p)') = {}
      BY DEF HostsDiffer, Numbers
    <2>1. CASE a = s
      BY <2>1
    <2>2. CASE a # s
      BY <1>1, <2>2, OtherHostsDiffer, Disjoint DEF DiffInv
    <2>. QED
      BY <2>1, <2>2
  <1>. QED
    BY <1>2, <1>3 DEF Quietly

(* A pod that was compared, apart from a Service whose request is under    *)
(* way, is stored with the hostPorts it means to have.                     *)
LEMMA ComparedPodIsStored ==
  ASSUME Typed, NEW s \in Svcs, step[s] # "idle", NEW p \in Pods, PodCompared(p), Apart(s, p)
  PROVE  Stored(p) /\ MeantHosts(p) = pods[p]
  <1>1. step[p] = "idle"
    BY ApartIsIdle, Disjoint
  <1>2. p \in good
    BY <1>1 DEF PodCompared
  <1>. QED
    BY <1>1, <1>2 DEF Typed, AtHand, Stored, MeantHosts

LEMMA CheckHostPortsDiffers ==
  ASSUME DiffInv, NEW s \in Svcs, CheckHostPorts(s)
  PROVE  Quietly
  <1>1. step[s] \in {"conflict", "conflict2"} /\ \A o \in Objects \ {s} : step'[o] = step[o]
    BY DEF CheckHostPorts, At, Goto, DiffInv, Typed, TypeOK
  <1>2. step'[s] = IF ServiceConflict(want[s]) THEN "reject" ELSE IF ~want[s].np THEN "update"
                   ELSE IF step[s] = "conflict" THEN "assign" ELSE "assign2"
    BY Disjoint DEF CheckHostPorts, At, Goto, DiffInv, Typed, TypeOK
  <1>3. slot' = [slot EXCEPT ![s] = 1] /\ slot'[s] = 1
    BY DEF CheckHostPorts, DiffInv, Typed, TypeOK
  <1>4. TouchesOnly(s)
    BY <1>1, <1>3, ServiceStepTouches DEF CheckHostPorts, DiffInv
  <1>5. Meant(s)' = want[s] /\ UNCHANGED <<svcs, pods, want, own, good, auto, rivals>>
    BY <1>1, <1>2 DEF Meant, CheckHostPorts, history
  <1>6. step'[s] = "assign2" => Compared(s)' = {}
    BY <1>3 DEF Compared
  <1>7. want[s].np => step'[s] \in {"reject", "assign", "assign2"} /\ Compared(s)' = {}
    BY <1>2, <1>6 DEF Compared, Accepted, At
  <1>8. ASSUME NEW p \in Pods, ServiceCompared(s)', PodCompared(p)', want[s].np, Apart(s, p)'
        PROVE  Numbers(want[s].ports) \cap Numbers(MeantHosts(p)') = {}
    <2>1. ~ServiceConflict(want[s])
      BY <1>2, <1>7, <1>8 DEF ServiceCompared, Accepted, At
    <2>2. PodStill(p)
      BY <1>4, OthersStill, Disjoint
    <2>3. PodCompared(p) /\ MeantHosts(p)' = MeantHosts(p) /\ Apart(s, p)
      BY <1>5, <1>8, <2>2 DEF PodStill, Apart
    <2>4. Stored(p) /\ MeantHosts(p) = pods[p]
      BY <1>1, <2>3, ComparedPodIsStored DEF DiffInv
    <2>. QED
      BY <1>8, <2>1, <2>3, <2>4 DEF ServiceConflict
  <1>. QED
    BY <1>4, <1>5, <1>7, <1>8, OneDiffers

(* assignNodePorts comes past a number that nobody else claims. *)
LEMMA AssignDiffers ==
  ASSUME DiffInv, NEW s \in Svcs, Assigning(s), NEW num, ~NodePortInUse(num, s), NextSlot(s),
         UNCHANGED <<svcs, pods, own, history>>,
         \A t \in Svcs \ {s} : want'[t] = want[t],
         want'[s].np = want[s].np, want'[s].ports[slot[s]] = num,
         \A i \in Slots \ {slot[s]} : want'[s].ports[i] = want[s].ports[i],
         \/ num = want[s].ports[slot[s]]
         \/ s \in auto
  PROVE  Quietly
  <1>1. /\ slot[s] \in Slots /\ step[s] \in {"assign", "assign2"}
        /\ \A o \in Objects \ {s} : step'[o] = step[o]
        /\ step'[s] = IF slot[s] < MaxPorts THEN step[s] ELSE IF step[s] = "assign" THEN "conflict2" ELSE "backing"
        /\ slot'[s] = IF slot[s] = MaxPorts THEN 1 ELSE slot[s] + 1
        /\ \A t \in Svcs \ {s} : slot'[t] = slot[t]
    BY Disjoint DEF Assigning, NextSlot, Goto, At, DiffInv, Typed, TypeOK
  <1>2. TouchesOnly(s)
    BY <1>1, Disjoint DEF TouchesOnly, history
  <1>3. CASE step[s] = "assign"
    <2>1. ~ServiceCompared(s)'
      BY <1>1, <1>3 DEF ServiceCompared, Accepted, At
    <2>. QED
      BY <1>2, <2>1, Quiet, Disjoint DEF ServiceStill, Quietly, DiffInv
  <1>4. CASE step[s] = "assign2"
    <2>1. ServiceCompared(s) /\ Compared(s) = 1..(slot[s] - 1) /\ Meant(s) = want[s] /\ Meant(s)' = want'[s]
      BY <1>1, <1>4 DEF ServiceCompared, Compared, Meant
    <2>2. Compared(s)' \subseteq 1..slot[s]
      BY <1>1, <1>4 DEF Compared, Slots, Accepted, At
    <2>3. \A i \in Compared(s)' : i = slot[s] \/ (i \in Compared(s) /\ want'[s].ports[i] = want[s].ports[i])
      BY <1>1, <2>1, <2>2 DEF Slots
    <2>4. UNCHANGED <<good, auto, rivals>>
      BY DEF history
    <2>5. ASSUME NEW t \in Svcs \ {s}, want'[s].np, Meant(t)'.np,
                 Apart(s, t)' \/ Apart(t, s)' \/ {s, t} \cap auto' = {},
                 NEW i \in Compared(s)', NEW k \in Compared(t)'
          PROVE  want'[s].ports[i] # Meant(t)'.ports[k] \/ (want'[s].ports[i] = 0 /\ Meant(t)'.ports[k] = 0)
      <3>1. ServiceCompared(t)' /\ ServiceStill(t)
        <4>1. ServiceCompared(t)'
          BY <2>5 DEF ServiceCompared, Compared
        <4>2. ServiceStill(t)
          BY <1>2, OthersStill, Disjoint
        <4>. QED
          BY <4>1, <4>2
      <3>2. ServiceCompared(t) /\ k \in Compared(t) /\ Meant(t)' = Meant(t)
        BY <3>1 DEF ServiceStill
      <3>3. Apart(s, t) \/ Apart(t, s) \/ {s, t} \cap auto = {}
        BY <2>4, <2>5 DEF Apart
      <3>4. CASE i \in Compared(s) /\ want'[s].ports[i] = want[s].ports[i]
        <4>1. Meant(s).np /\ Meant(t).np
          BY <2>1, <2>5, <3>2
        <4>2. CASE Apart(s, t) \/ {s, t} \cap auto = {}
          <5>1. Meant(s).ports[i] # 0 => Meant(s).ports[i] # Meant(t).ports[k]
            BY <3>2, <3>4, <4>1, <4>2 DEF ServicesDiffer, DiffInv
          <5>. QED
            BY <2>1, <3>2, <3>4, <5>1
        <4>3. CASE Apart(t, s)
          <5>1. Meant(t).ports[k] # 0 => Meant(s).ports[i] # Meant(t).ports[k]
            BY <3>2, <3>4, <4>1, <4>3 DEF ServicesDiffer, DiffInv
          <5>. QED
            BY <2>1, <3>2, <3>4, <5>1
        <4>. QED
          BY <3>3, <4>2, <4>3
      <3>5. CASE i = slot[s]
        <4>1. svcs[t] # Absent /\ Meant(t) = svcs[t]
          <5>1. CASE step[t] = "idle"
            BY <3>2, <5>1 DEF ServiceCompared, Accepted, Meant, DiffInv, Typed, AtHand
          <5>2. CASE step[t] # "idle"
            <6>1. t \notin auto
              BY <1>4, <3>3, <5>2, ApartIsIdle, Disjoint DEF DiffInv
            <6>. QED
              BY <5>2, <6>1 DEF Meant, DiffInv, Typed, AtHand
          <5>. QED
            BY <5>1, <5>2
        <4>2. k \in Slots
          BY <1>1, <3>2 DEF Compared, Slots, DiffInv, Typed, TypeOK
        <4>. QED
          BY <3>2, <3>5, <4>1, <4>2 DEF NodePortInUse
      <3>. QED
        BY <2>3, <3>4, <3>5
    <2>6. ASSUME NEW p \in Pods, ServiceCompared(s)', PodCompared(p)', want'[s].np, Apart(s, p)'
          PROVE  Numbers(want'[s].ports) \cap Numbers(MeantHosts(p)') = {}
      <3>1. PodStill(p)
        BY <1>2, OthersStill, Disjoint
      <3>2. PodCompared(p) /\ MeantHosts(p)' = MeantHosts(p) /\ Apart(s, p)
        BY <2>4, <2>6, <3>1 DEF PodStill, Apart
      <3>3. Stored(p) /\ MeantHosts(p) = pods[p]
        BY <1>4, <3>2, ComparedPodIsStored DEF DiffInv
      <3>4. Numbers(want[s].ports) \cap Numbers(pods[p]) = {}
        BY <2>1, <2>6, <3>2, <3>3 DEF HostsDiffer, DiffInv
      <3>5. num \notin Numbers(pods[p])
        BY <3>3 DEF NodePortInUse, Numbers
      <3>6. Numbers(want'[s].ports) \subseteq Numbers(want[s].ports) \cup {num}
        BY <1>1 DEF Numbers
      <3>. QED
        BY <3>2, <3>3, <3>4, <3>5, <3>6
    <2>. QED
      BY <1>2, <2>1, <2>5, <2>6, OneDiffers
  <1>. QED
    BY <1>1, <1>3, <1>4

LEMMA RejectQuiet ==
  ASSUME DiffInv, NEW s \in Svcs, Assigning(s), Goto(s, "reject"),
         UNCHANGED <<svcs, pods, want, own, slot, history>>
  PROVE  Quietly
  <1>1. step'[s] = "reject" /\ \A o \in Objects \ {s} : step'[o] = step[o]
    BY Disjoint DEF Goto, DiffInv, Typed, TypeOK
  <1>2. TouchesOnly(s)
    BY <1>1, Disjoint DEF TouchesOnly, history
  <1>3. ~ServiceCompared(s)'
    BY <1>1 DEF ServiceCompared, Accepted, At
  <1>. QED
    BY <1>2, <1>3, Quiet, Disjoint DEF ServiceStill, Quietly, DiffInv

LEMMA CheckNodePortDiffers ==
  ASSUME DiffInv, NEW s \in Svcs, CheckNodePort(s)
  PROVE  Quietly
  <1>1. CASE ~NodePortInUse(Requests(s), s) /\ NextSlot(s)
    BY <1>1, AssignDiffers DEF CheckNodePort, Requests
  <1>2. CASE Goto(s, "reject") /\ UNCHANGED <<slot, probe>>
    BY <1>2, RejectQuiet DEF CheckNodePort
  <1>. QED
    BY <1>1, <1>2 DEF CheckNodePort, NodePortAvailable

LEMMA AllocateDiffers ==
  ASSUME DiffInv, NEW s \in Svcs, AllocateNodePort(s)
  PROVE  Quietly
  <1>1. step[s] # "idle" /\ want[s] \in [np : BOOLEAN, ports : PortMap] /\ s \in auto /\ slot[s] \in Slots
    BY DEF AllocateNodePort, Assigning, At, DiffInv, Typed, AtHand, Requests, TypeOK
  <1>2. CASE Goto(s, "reject") /\ UNCHANGED <<want, slot, probe>>
    BY <1>2, RejectQuiet DEF AllocateNodePort
  <1>3. CASE UNCHANGED <<want, slot, step>>
    <2>1. TouchesOnly(s) /\ ServiceStill(s)
      BY <1>3 DEF AllocateNodePort, TouchesOnly, ServiceStill, ServiceCompared, Compared, Meant,
                  Accepted, At, history
    <2>. QED
      BY <2>1, Quiet, Disjoint DEF Quietly, DiffInv
  <1>4. CASE /\ ~NodePortInUse(probe[s], s) /\ NextSlot(s)
             /\ want' = [want EXCEPT ![s].ports[slot[s]] = probe[s]]
    <2>1. want' = [want EXCEPT ![s] = [want[s] EXCEPT !.ports = [want[s].ports EXCEPT ![slot[s]] = probe[s]]]]
      BY <1>4
    <2>2. want'[s] = [want[s] EXCEPT !.ports = [want[s].ports EXCEPT ![slot[s]] = probe[s]]]
          /\ \A t \in Svcs \ {s} : want'[t] = want[t]
      BY <2>1 DEF DiffInv, Typed, TypeOK
    <2>3. DOMAIN want[s].ports = Slots
      BY <1>1 DEF PortMap
    <2>4. want'[s].np = want[s].np /\ want'[s].ports[slot[s]] = probe[s]
          /\ \A i \in Slots \ {slot[s]} : want'[s].ports[i] = want[s].ports[i]
      BY <1>1, <2>2, <2>3
    <2>. QED
      BY <1>1, <1>4, <2>2, <2>4, AssignDiffers DEF AllocateNodePort
  <1>. QED
    BY <1>2, <1>3, <1>4 DEF AllocateNodePort

---------------------------------------------------------------------------
(* The invariant                                                           *)

LEMMA InitPorts == Init => PortsInv
  <1> SUFFICES ASSUME Init PROVE PortsInv
    OBVIOUS
  <1>1. Typed
    BY InitTyped
  <1>2. (\A s \in Svcs : ~ServiceCompared(s)) /\ (\A p \in Pods : ~PodCompared(p))
    BY Disjoint DEF Init, ServiceCompared, PodCompared, Accepted, At
  <1>. QED
    BY <1>1, <1>2, NothingCompared DEF PortsInv, Typed, ServicesDiffer, HostsDiffer

LEMMA NextPorts == PortsInv /\ [Next]_vars => PortsInv'
  <1> SUFFICES ASSUME PortsInv, [Next]_vars PROVE PortsInv'
    OBVIOUS
  <1>1. DiffInv
    BY DEF PortsInv, DiffInv, Typed
  <1>2. Typed'
    BY <1>1, NextTyped DEF DiffInv
  <1>3. CASE Next
    <2>1. ASSUME NEW s \in Svcs, ServiceStep(s) PROVE Quietly
      BY <1>1, <2>1, CheckHostPortsDiffers, CheckNodePortDiffers, AllocateDiffers, FindBackingPodQuiet,
         StoreServiceQuiet, RejectServiceQuiet DEF ServiceStep
    <2>2. ASSUME NEW o \in Objects, Render(o) \/ Write(o) PROVE Quietly
      BY <1>1, <2>2, RenderQuiet
    <2>3. ASSUME NEW p \in Pods, DeletePod(p) \/ DropPod(p) \/ CheckPod(p) \/ CreatePod(p) PROVE Quietly
      BY <1>1, <2>3, DeletePodQuiet, DropPodQuiet, CheckPodDiffers, CreatePodQuiet
    <2>4. Quietly
      BY <1>1, <1>3, <2>1, <2>2, <2>3, PostQuiet, PostPodQuiet, DeleteServiceQuiet DEF Next
    <2>. QED
      BY <1>2, <2>4 DEF Quietly, PortsInv, Typed
  <1>4. CASE UNCHANGED vars
    <2>1. /\ UNCHANGED <<svcs, pods, step, want, slot, own, good, auto, rivals>>
      BY <1>4 DEF vars, request, history
    <2>2. /\ \A s \in Svcs : /\ Compared(s)' = Compared(s) /\ Meant(s)' = Meant(s)
                             /\ (ServiceCompared(s)' <=> ServiceCompared(s))
                             /\ \A o \in Objects : Apart(s, o)' <=> Apart(s, o)
          /\ \A p \in Pods : MeantHosts(p)' = MeantHosts(p) /\ (PodCompared(p)' <=> PodCompared(p))
      BY <2>1 DEF Compared, Meant, ServiceCompared, PodCompared, MeantHosts, Accepted, At, Apart
    <2>3. ServicesDiffer'
      BY <2>1, <2>2, Disjoint DEF PortsInv, ServicesDiffer
    <2>4. HostsDiffer'
      BY <2>2, Disjoint DEF PortsInv, HostsDiffer, Numbers
    <2>. QED
      BY <1>2, <2>3, <2>4 DEF PortsInv, Typed
  <1>. QED
    BY <1>3, <1>4

LEMMA PortsInvariant == Spec => []PortsInv
  BY InitPorts, NextPorts, PTL DEF Spec

---------------------------------------------------------------------------
(* What a pod publishes                                                    *)

(* What a request on o leaves to the pair of a Service and a pod.          *)
Untouched(o, s, p) ==
  /\ s # o /\ p # o
  /\ step'[s] = step[s] /\ step'[p] = step[p]
  /\ svcs'[s] = svcs[s] /\ pods'[p] = pods[p] /\ file'[p] = file[p]
  /\ own'[s] = own[s] /\ draft'[s] = draft[s] /\ draft'[p] = draft[p]
  /\ (s \in good' <=> s \in good) /\ (s \in auto' <=> s \in auto)
  /\ p \in rivals[s] => p \in rivals'[s]

LEMMA UntouchedOnItsWay ==
  ASSUME NEW o \in Objects, NEW s \in Svcs, NEW p \in Pods, OnItsWay(s, p),
         Sole(s, p) => Untouched(o, s, p)
  PROVE  OnItsWay(s, p)'
  <1>1. CASE ~Sole(s, p)
    BY <1>1 DEF OnItsWay, Sole
  <1>2. CASE Untouched(o, s, p)
    BY <1>2 DEF Untouched, OnItsWay, Sole, Stored, Apart, Accepted, At, Publishes, Carries
  <1>. QED
    BY <1>1, <1>2

LEMMA BeginUntouched ==
  ASSUME Typed, NEW o \in Objects, NEW there \in ServiceSteps \cup PodSteps, Begin(o, there),
         NEW s \in Svcs \ {o}, NEW p \in Pods \ {o}
  PROVE  /\ step'[s] = step[s] /\ step'[p] = step[p] /\ (s \in good' <=> s \in good)
         /\ p \in rivals[s] => p \in rivals'[s]
  <1>1. p \in Objects /\ s \in Objects
    BY Disjoint
  <1>2. /\ step' = [step EXCEPT ![o] = there] /\ good' = good \ {o}
        /\ \A t \in Svcs, q \in Objects \ {o} : t # o /\ q \in rivals[t] => q \in rivals'[t]
    BY BeginKnows
  <1>. QED
    BY <1>1, <1>2 DEF Typed, TypeOK

(* A request on a Service leaves the pods and the other Services alone,    *)
(* but for the quadlet file of the pod it deploys.                         *)
LEMMA ServiceUntouched ==
  ASSUME Typed, NEW o \in Svcs,
         \/ \E v \in Services : PostService(o, v) \/ PatchService(o, v)
         \/ DeleteService(o) \/ CheckHostPorts(o) \/ CheckNodePort(o) \/ AllocateNodePort(o)
         \/ FindBackingPod(o) \/ StoreService(o) \/ RejectService(o),
         NEW s \in Svcs \ {o}, NEW p \in Pods
  PROVE  Untouched(o, s, p)
  <1>0. o \in Objects /\ p # o /\ "conflict" \in ServiceSteps
    BY Disjoint DEF ServiceSteps
  <1>1. CASE \E v \in Services : PostService(o, v) \/ PatchService(o, v)
    <2>1. PICK v \in Services, post \in BOOLEAN : BeginService(o, post, v)
      BY <1>1 DEF PostService, PatchService
    <2>2. step'[s] = step[s] /\ step'[p] = step[p] /\ (s \in good' <=> s \in good)
          /\ (p \in rivals[s] => p \in rivals'[s])
      BY <1>0, <2>1, BeginUntouched DEF BeginService
    <2>. QED
      BY <1>0, <2>1, <2>2 DEF BeginService, Untouched, Typed, TypeOK
  <1>2. CASE DeleteService(o)
    BY <1>0, <1>2 DEF DeleteService, Forget, request, Untouched, Typed, TypeOK
  <1>3. CASE CheckHostPorts(o)
    BY <1>0, <1>3 DEF CheckHostPorts, Goto, history, Untouched, Typed, TypeOK
  <1>4. CASE CheckNodePort(o)
    BY <1>0, <1>4, Disjoint DEF CheckNodePort, NextSlot, Goto, history, Untouched, Typed, TypeOK
  <1>5. CASE AllocateNodePort(o)
    BY <1>0, <1>5, Disjoint DEF AllocateNodePort, NextSlot, Goto, history, Untouched, Typed, TypeOK
  <1>6. CASE FindBackingPod(o)
    <2>1. step'[s] = step[s] /\ step'[p] = step[p] /\ own'[s] = own[s]
      BY <1>0, <1>6, Disjoint DEF FindBackingPod, Goto, Typed, TypeOK
    <2>. QED
      BY <1>0, <1>6, <2>1 DEF FindBackingPod, history, Untouched
  <1>7. CASE StoreService(o)
    BY <1>0, <1>7, Disjoint DEF StoreService, EndService, Goto, Untouched, Typed, TypeOK
  <1>8. CASE RejectService(o)
    BY <1>0, <1>8, Disjoint DEF RejectService, EndService, Goto, Forget, Untouched, Typed, TypeOK
  <1>. QED
    BY <1>1, <1>2, <1>3, <1>4, <1>5, <1>6, <1>7, <1>8

(* So does a request on a pod. *)
LEMMA PodUntouched ==
  ASSUME Typed, NEW o \in Pods,
         \/ \E hosts \in [Slots -> HostPorts] : PostPod(o, hosts) \/ PatchPod(o, hosts)
         \/ DeletePod(o) \/ DropPod(o) \/ CheckPod(o) \/ CreatePod(o),
         NEW s \in Svcs, NEW p \in Pods \ {o}
  PROVE  Untouched(o, s, p)
  <1>0. o \in Objects /\ s # o /\ {"check", "render", "drop"} \subseteq PodSteps
    BY Disjoint DEF PodSteps
  <1>1. CASE \E hosts \in [Slots -> HostPorts] : PostPod(o, hosts) \/ PatchPod(o, hosts)
    <2>1. PICK hosts \in [Slots -> HostPorts] : PostPod(o, hosts) \/ PatchPod(o, hosts)
      BY <1>1
    <2>2. step'[s] = step[s] /\ step'[p] = step[p] /\ (s \in good' <=> s \in good)
          /\ (p \in rivals[s] => p \in rivals'[s])
      BY <1>0, <2>1, BeginUntouched DEF PostPod, PatchPod
    <2>3. /\ own' = [own EXCEPT ![o] = [pod |-> o, hosts |-> hosts]] /\ pods'[p] = pods[p]
          /\ UNCHANGED <<svcs, file, draft, auto>>
      BY <2>1 DEF PostPod, PatchPod, Typed, TypeOK
    <2>4. own'[s] = own[s]
      BY <1>0, <2>3 DEF Typed, TypeOK
    <2>. QED
      BY <1>0, <2>2, <2>3, <2>4 DEF Untouched
  <1>2. CASE DeletePod(o)
    <2>2. step'[s] = step[s] /\ step'[p] = step[p] /\ (s \in good' <=> s \in good)
          /\ (p \in rivals[s] => p \in rivals'[s])
      BY <1>0, <1>2, BeginUntouched DEF DeletePod
    <2>. QED
      BY <1>0, <1>2, <2>2 DEF DeletePod, request, Untouched, Typed, TypeOK
  <1>3. CASE DropPod(o)
    BY <1>0, <1>3, Disjoint DEF DropPod, Goto, Forget, request, Untouched, Typed, TypeOK
  <1>4. CASE CheckPod(o)
    BY <1>0, <1>4, Disjoint DEF CheckPod, Goto, Forget, Untouched, Typed, TypeOK
  <1>5. CASE CreatePod(o)
    BY <1>0, <1>5, Disjoint DEF CreatePod, Goto, request, Untouched, Typed, TypeOK
  <1>. QED
    BY <1>1, <1>2, <1>3, <1>4, <1>5

(* A quadlet file is written for a pod that the Service selects. *)
LEMMA DeployUntouched ==
  ASSUME Typed, OwnPods, NEW o \in Objects, Render(o) \/ Write(o),
         NEW s \in Svcs \ {o}, NEW p \in Pods \ {o}, Sole(s, p)
  PROVE  Untouched(o, s, p)
  <1>1. CASE Render(o)
    <2>1. draft'[s] = draft[s] /\ draft'[p] = draft[p]
      BY <1>1, Disjoint DEF Render, Typed, TypeOK
    <2>. QED
      BY <1>1, <2>1, Disjoint DEF Render, Goto, history, Untouched, Typed, TypeOK
  <1>2. CASE Write(o)
    <2>1. own[o] # Absent
      BY <1>2 DEF Write, At, Typed, AtHand
    <2>2. own[o].pod # p
      <3>1. CASE o \in Svcs
        BY <2>1, <3>1 DEF OwnPods, Sole
      <3>2. CASE o \in Pods
        BY <2>1, <3>2 DEF OwnPods
      <3>. QED
        BY <3>1, <3>2 DEF Objects
    <2>. QED
      BY <1>2, <2>2, Disjoint DEF Write, Goto, history, Untouched, Typed, TypeOK
  <1>. QED
    BY <1>1, <1>2

---------------------------------------------------------------------------
(* The Service's own steps *)

LEMMA FindBackingPodListens ==
  ASSUME Typed, NEW s \in Svcs, NEW p \in Pods, FindBackingPod(s)
  PROVE  OnItsWay(s, p)'
  <1> DEFINE backing == {q \in Selected[s] : Stored(q)}
  <1>1. step[s] = "backing" /\ UNCHANGED <<svcs, pods, rivals>>
        /\ (step'[s] \in {"render", "update", "reject"})
    BY Disjoint DEF FindBackingPod, At, Goto, history, Typed, TypeOK
  <1>2. SUFFICES ASSUME Sole(s, p), Stored(p)
                 PROVE  step'[s] # "update" /\ (step'[s] = "render" => own'[s].pod = p)
    BY <1>1 DEF OnItsWay, Sole, Stored, At, Accepted
  <1>3. p \in backing
    BY <1>2 DEF Sole
  <1>4. step'[s] # "update"
    BY <1>3, Disjoint DEF FindBackingPod, Goto, Typed, TypeOK
  <1>5. ASSUME step'[s] = "render" PROVE own'[s].pod = p
    <2>1. Cardinality(backing) = 1
      BY <1>5, Disjoint DEF FindBackingPod, Goto, Typed, TypeOK
    <2>2. PICK q \in backing : own' = [own EXCEPT ![s] = [pod |-> q, hosts |-> pods[q]]]
      BY <2>1 DEF FindBackingPod
    <2>3. IsFiniteSet(backing)
      BY FS_Subset
    <2>4. PICK r : backing = {r}
      BY <2>1, <2>3, FS_Singleton
    <2>5. q = p
      BY <1>3, <2>2, <2>4
    <2>. QED
      BY <2>2, <2>5, Disjoint DEF Typed, TypeOK
  <1>. QED
    BY <1>4, <1>5

LEMMA RenderListens ==
  ASSUME Typed, OwnPods, NEW s \in Svcs, NEW p \in Pods, OnItsWay(s, p),
         NEW o \in {s, p}, Render(o)
  PROVE  OnItsWay(s, p)'
  <1>1. /\ step[o] = "render" /\ step' = [step EXCEPT ![o] = "write"] /\ o \in Objects
        /\ UNCHANGED <<svcs, pods, file, own, good, auto, rivals>>
    BY Disjoint DEF Render, At, Goto, history
  <1>2. step'[o] = "write" /\ \A q \in Objects \ {o} : step'[q] = step[q]
    BY <1>1 DEF Typed, TypeOK
  <1>3. ASSUME s \notin auto, Sole(s, p), svcs[s] # Absent, svcs[s].np, own[o].pod = p
        PROVE  Carries(draft'[o], s)
    <2>1. \A i \in Slots : Bindings(p, i) = {svcs[s].ports[i]} \ {0}
      BY <1>3 DEF Bindings, Sole
    <2>2. PICK f \in [Slots -> UNION {Bindings(own[o].pod, i) \cup {own[o].hosts[i]} : i \in Slots}] :
            /\ \A i \in Slots : LET b == Bindings(own[o].pod, i)
                                IN  f[i] \in IF b = {} THEN {own[o].hosts[i]} ELSE b
            /\ draft' = [draft EXCEPT ![o] = f]
      BY DEF Render
    <2>3. draft'[o] = f
      BY <1>1, <2>2 DEF Typed, TypeOK
    <2>4. ASSUME NEW i \in Slots, svcs[s].ports[i] # 0 PROVE f[i] = svcs[s].ports[i]
      <3>1. Bindings(own[o].pod, i) = {svcs[s].ports[i]}
        BY <1>3, <2>1, <2>4
      <3>. QED
        BY <2>2, <3>1
    <2>. QED
      BY <2>3, <2>4 DEF Carries
  <1>4. SUFFICES ASSUME s \notin auto, Sole(s, p), svcs[s] # Absent, svcs[s].np, Stored(p), Apart(s, p)
                 PROVE  /\ step'[s] \in {"render", "write"} => own[s].pod = p
                        /\ step'[s] = "write" => Carries(draft'[s], s)
                        /\ step'[s] = "idle" /\ s \in good /\ step'[p] = "write" => Carries(draft'[p], s)
                        /\ step'[s] = "update" \/ (step'[s] = "idle" /\ s \in good /\ step'[p] = "idle") => Publishes(p, s)
    BY <1>1 DEF OnItsWay, Sole, Stored, Apart, Accepted, At, Carries, Publishes
  <1>5. CASE o = s
    BY <1>1, <1>2, <1>3, <1>4, <1>5 DEF OnItsWay, At
  <1>6. CASE o = p
    <2>1. own[p].pod = p /\ s # p
      BY <1>1, <1>6, Disjoint DEF OwnPods, Typed, AtHand
    <2>2. step[s] = "idle"
      BY <1>1, <1>4, <1>6, <2>1, Disjoint DEF Typed, AtHand, Apart
    <2>. QED
      BY <1>2, <1>3, <1>4, <1>6, <2>1, <2>2, Disjoint
  <1>. QED
    BY <1>5, <1>6

LEMMA WriteListens ==
  ASSUME Typed, OwnPods, NEW s \in Svcs, NEW p \in Pods, OnItsWay(s, p),
         NEW o \in {s, p}, Write(o)
  PROVE  OnItsWay(s, p)'
  <1>1. /\ step[o] = "write" /\ o \in Objects /\ own[o] # Absent
        /\ step' = [step EXCEPT ![o] = IF o \in Svcs THEN "update" ELSE "idle"]
        /\ file' = [file EXCEPT ![own[o].pod] = draft[o]]
        /\ UNCHANGED <<svcs, pods, good, auto, rivals>>
    BY Disjoint DEF Write, At, Goto, history, Typed, AtHand
  <1>2. \A q \in Objects \ {o} : step'[q] = step[q]
    BY <1>1 DEF Typed, TypeOK
  <1>3. SUFFICES ASSUME s \notin auto, Sole(s, p), svcs[s] # Absent, svcs[s].np, Stored(p), Apart(s, p)
                 PROVE  /\ step'[s] \notin {"render", "write"}
                        /\ step'[s] = "idle" /\ s \in good => step'[p] # "write"
                        /\ step'[s] = "update" \/ (step'[s] = "idle" /\ s \in good /\ step'[p] = "idle")
                             => Carries(file'[p], s)
    BY <1>1 DEF OnItsWay, Sole, Stored, Apart, Accepted, At, Carries, Publishes
  <1>4. CASE o = s
    <2>1. own[s].pod = p /\ Carries(draft[s], s) /\ step'[s] = "update"
      BY <1>1, <1>3, <1>4, Disjoint DEF OnItsWay, At, Typed, TypeOK
    <2>2. file'[p] = draft[s]
      BY <1>1, <1>4, <2>1 DEF Typed, TypeOK
    <2>. QED
      BY <2>1, <2>2
  <1>5. CASE o = p
    <2>1. own[p].pod = p /\ s # p /\ p \notin Svcs
      BY <1>1, <1>5, Disjoint DEF OwnPods
    <2>2. step[s] = "idle" /\ step'[s] = "idle" /\ step'[p] = "idle"
      BY <1>1, <1>2, <1>3, <1>5, <2>1, Disjoint DEF Typed, TypeOK, AtHand, Apart
    <2>3. file'[p] = draft[p]
      BY <1>1, <1>5, <2>1 DEF Typed, TypeOK
    <2>. QED
      BY <1>1, <1>3, <1>5, <2>2, <2>3 DEF OnItsWay, At, Accepted
  <1>. QED
    BY <1>4, <1>5

LEMMA ServiceListens ==
  ASSUME Typed, NEW s \in Svcs, NEW p \in Pods, OnItsWay(s, p),
         \/ \E v \in Services : PostService(s, v) \/ PatchService(s, v)
         \/ DeleteService(s) \/ ServiceStep(s)
  PROVE  OnItsWay(s, p)'
  <1>0. s \in Objects
    BY Disjoint
  <1>1. CASE \E v \in Services : PostService(s, v) \/ PatchService(s, v)
    <2>1. step'[s] = "conflict"
      BY <1>0, <1>1 DEF PostService, PatchService, BeginService, Begin, Goto, Typed, TypeOK
    <2>. QED
      BY <2>1 DEF OnItsWay, Accepted, At
  <1>2. CASE DeleteService(s)
    <2>1. svcs'[s] = Absent
      BY <1>2 DEF DeleteService, Typed, TypeOK
    <2>. QED
      BY <2>1 DEF OnItsWay
  <1>3. CASE CheckHostPorts(s)
    <2>1. /\ step[s] # "idle" /\ UNCHANGED <<svcs, auto>>
          /\ step'[s] \in {"reject", "assign", "assign2"} \/ (step'[s] = "update" /\ ~want[s].np)
      BY <1>0, <1>3 DEF CheckHostPorts, At, Goto, history, Typed, TypeOK
    <2>2. s \notin auto => want[s] = svcs[s]
      BY <2>1 DEF Typed, AtHand
    <2>. QED
      BY <2>1, <2>2 DEF OnItsWay, Accepted, At
  <1>4. CASE CheckNodePort(s) \/ AllocateNodePort(s)
    <2>1. step'[s] \in {"assign", "assign2", "conflict2", "backing", "reject"}
      BY <1>0, <1>4 DEF CheckNodePort, AllocateNodePort, Assigning, NextSlot, Goto, At, Typed, TypeOK
    <2>. QED
      BY <2>1 DEF OnItsWay, Accepted, At
  <1>5. CASE FindBackingPod(s)
    BY <1>5, FindBackingPodListens
  <1>6. CASE StoreService(s)
    <2>1. /\ step[s] = "update" /\ step' = [step EXCEPT ![s] = "idle"] /\ step'[s] = "idle"
          /\ UNCHANGED <<pods, file, auto, rivals>>
      BY <1>0, <1>6 DEF StoreService, EndService, At, Goto, Typed, TypeOK
    <2>2. s \notin auto => svcs'[s] = svcs[s]
      BY <1>6, <2>1 DEF StoreService, Typed, TypeOK, AtHand
    <2>3. Apart(s, p) => step[p] = "idle" /\ step'[p] = "idle"
      BY <2>1, Disjoint DEF Apart, Typed, TypeOK, AtHand
    <2>. QED
      BY <2>1, <2>2, <2>3 DEF OnItsWay, Accepted, At, Sole, Stored, Apart, Publishes, Carries
  <1>7. CASE RejectService(s)
    <2>1. step'[s] = "idle" /\ s \notin good'
      BY <1>0, <1>7 DEF RejectService, EndService, Goto, Forget, Typed, TypeOK
    <2>. QED
      BY <2>1 DEF OnItsWay, Accepted, At
  <1>. QED
    BY <1>1, <1>2, <1>3, <1>4, <1>5, <1>6, <1>7 DEF ServiceStep

LEMMA PodListens ==
  ASSUME Typed, OwnPods, NEW s \in Svcs, NEW p \in Pods, OnItsWay(s, p),
         \/ \E hosts \in [Slots -> HostPorts] : PostPod(p, hosts) \/ PatchPod(p, hosts)
         \/ DeletePod(p) \/ DropPod(p) \/ CheckPod(p) \/ CreatePod(p)
  PROVE  OnItsWay(s, p)'
  <1>0. p \in Objects /\ s \in Objects /\ s # p /\ {"check", "render", "drop"} \subseteq PodSteps
    BY Disjoint DEF PodSteps
  <1>1. CASE \/ \E hosts \in [Slots -> HostPorts] : PostPod(p, hosts) \/ PatchPod(p, hosts)
             \/ DeletePod(p)
    <2>1. PICK there \in {"check", "render", "drop"} : Begin(p, there)
      BY <1>1 DEF PostPod, PatchPod, DeletePod
    <2>2. step'[p] = there /\ step'[s] = step[s] /\ (s \in Active => p \in rivals'[s])
      <3>1. there \in ServiceSteps \cup PodSteps /\ s \in Svcs \ {p}
        BY <1>0
      <3>2. step' = [step EXCEPT ![p] = there] /\ \A t \in Svcs : t # p /\ t \in Active => p \in rivals'[t]
        BY <1>0, <2>1, <3>1, BeginKnows
      <3>. QED
        BY <1>0, <3>1, <3>2 DEF Typed, TypeOK
    <2>3. Apart(s, p)' => step'[s] = "idle" /\ step'[p] \in {"check", "render", "drop"}
      BY <1>0, <2>2 DEF Apart, Active
    <2>. QED
      BY <2>3 DEF OnItsWay, Accepted, At
  <1>2. CASE DropPod(p)
    <2>1. ~Stored(p)'
      BY <1>2 DEF DropPod, Stored, Typed, TypeOK
    <2>. QED
      BY <2>1 DEF OnItsWay
  <1>3. CASE CheckPod(p)
    <2>1. ~Stored(p)'
      BY <1>3 DEF CheckPod, At, OwnPods, Stored
    <2>. QED
      BY <2>1 DEF OnItsWay
  <1>4. CASE CreatePod(p)
    <2>1. step[p] = "create" /\ step'[p] = "render" /\ step'[s] = step[s] /\ rivals' = rivals
      BY <1>0, <1>4 DEF CreatePod, At, Goto, Typed, TypeOK
    <2>2. Apart(s, p)' => step'[s] = "idle"
      BY <1>0, <2>1 DEF Apart, Typed, AtHand
    <2>. QED
      BY <2>1, <2>2 DEF OnItsWay, Accepted, At
  <1>. QED
    BY <1>1, <1>2, <1>3, <1>4

LEMMA OwnPodsKept ==
  ASSUME Typed, OwnPods, [Next]_vars
  PROVE  OwnPods'
  <1>1. ASSUME NEW s \in Svcs, ServiceStep(s) PROVE OwnPods'
    <2>1. CASE FindBackingPod(s)
      <3>1. (\A t \in Svcs \ {s} : own'[t] = own[t]) /\ \A p \in Pods : own'[p] = own[p]
        BY <2>1, Disjoint DEF FindBackingPod, Typed, TypeOK
      <3>2. own'[s] = own[s] \/ own'[s].pod \in Selected[s]
        BY <2>1, Disjoint DEF FindBackingPod, Typed, TypeOK
      <3>3. pods' = pods /\ \A p \in Pods : step'[p] = step[p]
        BY <2>1, Disjoint DEF FindBackingPod, Goto, Typed, TypeOK
      <3>. QED
        BY <3>1, <3>2, <3>3 DEF OwnPods, Stored
    <2>2. CASE ~FindBackingPod(s)
      <3>1. own' = own /\ pods' = pods /\ \A p \in Pods : step'[p] = step[p]
        BY <1>1, <2>2, Disjoint DEF ServiceStep, CheckHostPorts, CheckNodePort, AllocateNodePort,
              StoreService, RejectService, NextSlot, EndService, Goto, Typed, TypeOK
      <3>. QED
        BY <3>1 DEF OwnPods, Stored
    <2>. QED
      BY <2>1, <2>2
  <1>2. ASSUME NEW s \in Svcs, (\E v \in Services : PostService(s, v) \/ PatchService(s, v)) \/ DeleteService(s)
        PROVE  OwnPods'
    <2>1. own' = own /\ pods' = pods /\ \A p \in Pods : step'[p] = step[p]
      BY <1>2, Disjoint DEF PostService, PatchService, DeleteService, BeginService, Begin, Goto,
            request, Typed, TypeOK
    <2>. QED
      BY <2>1 DEF OwnPods, Stored
  <1>3. ASSUME NEW p \in Pods, NEW hosts \in [Slots -> HostPorts], PostPod(p, hosts) \/ PatchPod(p, hosts)
        PROVE  OwnPods'
    <2>1. own' = [own EXCEPT ![p] = [pod |-> p, hosts |-> hosts]]
          /\ \/ ~Stored(p) /\ step' = [step EXCEPT ![p] = "check"] /\ pods' = pods
             \/ step' = [step EXCEPT ![p] = "render"] /\ pods' = [pods EXCEPT ![p] = hosts]
      BY <1>3 DEF PostPod, PatchPod, Begin, Goto
    <2>2. (\A s \in Svcs : own'[s] = own[s]) /\ own'[p].pod = p /\ \A q \in Pods \ {p} : own'[q] = own[q]
      BY <2>1, Disjoint DEF Typed, TypeOK
    <2>3. \A q \in Pods : step'[q] \in {"check", "create"} => ~Stored(q)'
      BY <2>1, Disjoint DEF Typed, TypeOK, OwnPods, Stored
    <2>. QED
      BY <2>2, <2>3 DEF OwnPods
  <1>4. ASSUME NEW p \in Pods, CheckPod(p) \/ CreatePod(p) \/ DeletePod(p) \/ DropPod(p)
        PROVE  OwnPods'
    <2>1. /\ \A s \in Svcs : own'[s] = own[s]
          /\ \A q \in Pods : own'[q] # Absent => own'[q] = own[q]
      BY <1>4, Disjoint DEF CheckPod, CreatePod, DeletePod, DropPod, request, Typed, TypeOK
    <2>2. \A q \in Pods \ {p} : step'[q] = step[q] /\ pods'[q] = pods[q]
      BY <1>4, Disjoint DEF CheckPod, CreatePod, DeletePod, DropPod, Begin, Goto, request, Typed, TypeOK
    <2>3. step'[p] \in {"check", "create"} => step[p] = "check" /\ pods' = pods
      BY <1>4, Disjoint DEF CheckPod, CreatePod, DeletePod, DropPod, Begin, Goto, At, Typed, TypeOK
    <2>. QED
      BY <2>1, <2>2, <2>3 DEF OwnPods, Stored
  <1>5. ASSUME NEW o \in Objects, Render(o) \/ Write(o) PROVE OwnPods'
    <2>1. pods' = pods /\ \A q \in Objects : own'[q] # Absent => own'[q] = own[q]
      BY <1>5 DEF Render, Write, Typed, TypeOK
    <2>2. \A q \in Pods : step'[q] \in {"check", "create"} => step'[q] = step[q]
      BY <1>5, Disjoint DEF Render, Write, Goto, Typed, TypeOK
    <2>. QED
      BY <2>1, <2>2, Disjoint DEF OwnPods, Stored
  <1>6. CASE UNCHANGED vars
    BY <1>6 DEF vars, request, OwnPods, Stored
  <1>. QED
    BY <1>1, <1>2, <1>3, <1>4, <1>5, <1>6 DEF Next

LEMMA ListenersInvariant == Spec => [](PortsInv /\ ListenersInv)
  <1>1. Init => ListenersInv
    <2> SUFFICES ASSUME Init PROVE ListenersInv
      OBVIOUS
    <2>1. (\A s \in Svcs : svcs[s] = Absent) /\ (\A o \in Objects : own[o] = Absent /\ step[o] = "idle")
      BY DEF Init
    <2>. QED
      BY <2>1, Disjoint DEF ListenersInv, OwnPods, OnItsWay
  <1>2. PortsInv /\ ListenersInv /\ [Next]_vars => ListenersInv'
    <2> SUFFICES ASSUME PortsInv, ListenersInv, [Next]_vars PROVE ListenersInv'
      OBVIOUS
    <2>1. Typed /\ OwnPods /\ OwnPods'
      BY OwnPodsKept DEF PortsInv, ListenersInv, Typed
    <2>2. SUFFICES ASSUME NEW s \in Svcs, NEW p \in Pods PROVE OnItsWay(s, p)'
      BY <2>1 DEF ListenersInv
    <2>3. OnItsWay(s, p) /\ s \in Objects /\ p \in Objects /\ s # p
      BY Disjoint DEF ListenersInv
    <2>4. ASSUME NEW o \in Svcs,
                 (\E v \in Services : PostService(o, v) \/ PatchService(o, v)) \/ DeleteService(o) \/ ServiceStep(o)
          PROVE  OnItsWay(s, p)'
      <3>1. CASE o = s
        BY <2>1, <2>3, <2>4, <3>1, ServiceListens
      <3>2. CASE o # s
        <4>1. Untouched(o, s, p)
          BY <2>1, <2>4, <3>2, ServiceUntouched DEF ServiceStep
        <4>. QED
          BY <2>3, <4>1, UntouchedOnItsWay, Disjoint
      <3>. QED
        BY <3>1, <3>2
    <2>5. ASSUME NEW o \in Pods,
                 \/ \E hosts \in [Slots -> HostPorts] : PostPod(o, hosts) \/ PatchPod(o, hosts)
                 \/ DeletePod(o) \/ DropPod(o) \/ CheckPod(o) \/ CreatePod(o)
          PROVE  OnItsWay(s, p)'
      <3>1. CASE o = p
        BY <2>1, <2>3, <2>5, <3>1, PodListens
      <3>2. CASE o # p
        <4>1. Untouched(o, s, p)
          BY <2>1, <2>5, <3>2, PodUntouched
        <4>. QED
          BY <2>3, <4>1, UntouchedOnItsWay, Disjoint
      <3>. QED
        BY <3>1, <3>2
    <2>6. ASSUME NEW o \in Objects, Render(o) \/ Write(o) PROVE OnItsWay(s, p)'
      <3>1. CASE o \in {s, p}
        BY <2>1, <2>3, <2>6, <3>1, RenderListens, WriteListens
      <3>2. CASE o \notin {s, p}
        <4>1. Sole(s, p) => Untouched(o, s, p)
          BY <2>1, <2>6, <3>2, DeployUntouched
        <4>. QED
          BY <2>3, <4>1, UntouchedOnItsWay
      <3>. QED
        BY <3>1, <3>2
    <2>7. CASE UNCHANGED vars
      BY <2>3, <2>7 DEF vars, request, history, OnItsWay, Sole, Stored, Apart, Accepted, At, Publishes, Carries
    <2>. QED
      BY <2>4, <2>5, <2>6, <2>7 DEF Next
  <1>. QED
    BY <1>1, <1>2, PortsInvariant, PTL DEF Spec

---------------------------------------------------------------------------

(* Every variable stays in its domain, and a number that q8s chooses comes *)
(* from the configured range (assignNodePorts).                            *)
THEOREM PortsTypeCorrect == Spec => []TypeOK
  <1>1. PortsInv => TypeOK
    BY DEF PortsInv
  <1>. QED
    BY <1>1, PortsInvariant, PTL

(* A nodePort has one owner (handleServices): of two accepted NodePort     *)
(* Services none claims a number of the other, however many requests are   *)
(* under way, unless q8s chose it in a request that overlapped the other's.*)
THEOREM NodePortsHaveOneOwner == Spec => []NodePortsUnique
  <1>1. PortsInv => NodePortsUnique
    <2> SUFFICES ASSUME PortsInv, NEW s \in Svcs, NEW t \in Svcs, s # t, Accepted(s), Accepted(t),
                        svcs[s].np, svcs[t].np, Apart(s, t) \/ {s, t} \cap auto = {}
                 PROVE  Numbers(svcs[s].ports) \cap Numbers(svcs[t].ports) = {}
      BY DEF NodePortsUnique
    <2>1. Meant(s) = svcs[s] /\ Meant(t) = svcs[t] /\ Compared(s) = Slots /\ Compared(t) = Slots
      BY DEF Accepted, At, Meant, Compared
    <2>2. \A i, k \in Slots : svcs[s].ports[i] # 0 => svcs[s].ports[i] # svcs[t].ports[k]
      BY <2>1 DEF PortsInv, ServicesDiffer
    <2>. QED
      BY <2>2 DEF Numbers
  <1>. QED
    BY <1>1, PortsInvariant, PTL

(* An accepted nodePort and an accepted hostPort never bind the same number*)
(* of the host, whichever came first, unless their requests overlapped     *)
(* (serviceNodePortConflict, podNodePortConflict).                         *)
THEOREM HostPortsStayClear == Spec => []HostPortsClear
  <1>1. PortsInv => HostPortsClear
    <2> SUFFICES ASSUME PortsInv, NEW s \in Svcs, NEW p \in Pods,
                        Accepted(s), svcs[s].np, Accepted(p), Apart(s, p)
                 PROVE  Numbers(svcs[s].ports) \cap Numbers(pods[p]) = {}
      BY DEF HostPortsClear
    <2>1. Meant(s) = svcs[s] /\ MeantHosts(p) = pods[p] /\ ServiceCompared(s) /\ PodCompared(p)
      BY DEF Accepted, At, Meant, MeantHosts, ServiceCompared, PodCompared
    <2>. QED
      BY <2>1 DEF PortsInv, HostsDiffer
  <1>. QED
    BY <1>1, PortsInvariant, PTL

(* An accepted NodePort Service with explicit numbers is a listener of its *)
(* backing pod, whichever came first (reconcileNodePort, applyNodePorts):  *)
(* the pod's quadlet file publishes its numbers, as long as no request on  *)
(* the pod overlapped the Service's and no other Service selects it.       *)
THEOREM ExplicitPortsArePublished == Spec => []ExplicitArePublished
  <1>1. PortsInv /\ ListenersInv => ExplicitArePublished
    <2> SUFFICES ASSUME PortsInv, ListenersInv, NEW s \in Svcs, NEW p \in Selected[s],
                        Backs(p, s), s \notin auto
                 PROVE  Publishes(p, s)
      BY DEF ExplicitArePublished
    <2>1. p \in Pods /\ svcs[s] # Absent
      BY DEF PortsInv, AtHand, Backs, Accepted
    <2>. QED
      BY <2>1 DEF ListenersInv, OnItsWay, Backs
  <1>. QED
    BY <1>1, ListenersInvariant, PTL
=============================================================================
