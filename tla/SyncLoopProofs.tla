--------------------------- MODULE SyncLoopProofs ---------------------------
(* What a pass of reconcileOnce leaves in the status of pods, for every    *)
(* set of pods, Deployments and Jobs, every state of their units, and any  *)
(* number of changes to them between the steps of a pass.                  *)
EXTENDS SyncLoop, ListLemmas

USE SyncAssumption

(* The steps of a pass take its head off and put items in its place. *)
LEMMA PassStep ==
  ASSUME pass \in Seq(Items), pass # <<>>, NEW items \in Seq(Items), Then(items)
  PROVE  /\ pass' \in Seq(Items)
         /\ Len(items) \in Nat /\ Len(pass) \in Nat \ {0}
         /\ DOMAIN pass = 1..Len(pass) /\ DOMAIN items = 1..Len(items)
         /\ DOMAIN pass' = 1..(Len(items) + Len(pass) - 1)
         /\ \A j \in 1..Len(items) : pass'[j] = items[j]
         /\ \A j \in 2..Len(pass) : pass'[Len(items) + j - 1] = pass[j]
  <1>1. /\ Tail(pass) \in Seq(Items) /\ Len(Tail(pass)) = Len(pass) - 1
        /\ \A j \in 1..Len(pass) - 1 : Tail(pass)[j] = pass[j + 1]
        /\ Len(pass) \in Nat \ {0}
    BY EmptySeq, HeadTailProperties
  <1>2. pass' = items \o Tail(pass)
    BY DEF Then
  <1>3. \A j \in 2..Len(pass) : pass'[Len(items) + j - 1] = Tail(pass)[j - 1]
    BY <1>1, <1>2, ConcatProperties
  <1>. QED
    BY <1>1, <1>2, <1>3, ConcatProperties, LenProperties

LEMMA HeadIsFirst ==
  ASSUME SyncInv, pass # <<>>
  PROVE  Head(pass) = pass[1] /\ pass[1] \in Items /\ 1 \in DOMAIN pass
  BY HeadTailProperties DEF SyncInv

(* A step on something other than a pod that was read. *)
LEMMA QuietStep ==
  ASSUME SyncInv, pass # <<>>, ~OnPod(pass[1]),
         NEW items \in Seq(Items), Then(items),
         \A j \in 1..Len(items) : ~OnPod(items[j]),
         UNCHANGED <<pstat, seen>>
  PROVE  /\ pass' \in Seq(Items)
         /\ PodComesNext' /\ ReadingInHand' /\ ReadyIsDeserved'
  <1>1. \A j \in DOMAIN pass : ~OnPod(pass[j])
    BY DEF SyncInv, PodComesNext, OnPod
  <1>2. \A j \in DOMAIN pass' : ~OnPod(pass'[j])
    <2> SUFFICES ASSUME NEW j \in DOMAIN pass' PROVE ~OnPod(pass'[j])
      OBVIOUS
    <2>1. pass \in Seq(Items)
      BY DEF SyncInv
    <2>2. CASE j \in 1..Len(items)
      BY <2>1, <2>2, PassStep
    <2>3. CASE j \notin 1..Len(items)
      <3>1. j + 1 - Len(items) \in 2..Len(pass) /\ Len(items) + (j + 1 - Len(items)) - 1 = j
        BY <2>1, <2>3, PassStep
      <3>2. pass'[j] = pass[j + 1 - Len(items)]
        BY <2>1, <3>1, PassStep
      <3>. QED
        BY <1>1, <2>1, <3>1, <3>2, PassStep
    <2>. QED
      BY <2>2, <2>3
  <1>3. pass' \in Seq(Items)
    BY PassStep DEF SyncInv
  <1>4. pass' # <<>> => 1 \in DOMAIN pass'
    BY <1>3
  <1>5. \A p \in Watchdogged :
          pstat[p] # None /\ pstat[p].ready => seen[p] # None /\ Deserved(seen[p])
    BY <1>1 DEF SyncInv, ReadyIsDeserved, OnPod
  <1>. QED
    BY <1>2, <1>3, <1>4, <1>5 DEF PodComesNext, ReadingInHand, ReadyIsDeserved, Deserved

(* What is said of counts and of what is left goes through a step that     *)
(* puts well-formed items in place of the head.                            *)
LEMMA CountsStep ==
  ASSUME SyncInv, pass # <<>>, NEW items \in Seq(Items), Then(items),
         \A j \in 1..Len(items) : items[j].do = "count" =>
           items[j].ready <= items[j].i /\ items[j].i <= items[j].n
  PROVE  \A j \in DOMAIN pass' : pass'[j].do = "count" =>
           pass'[j].ready <= pass'[j].i /\ pass'[j].i <= pass'[j].n
  <1> SUFFICES ASSUME NEW j \in DOMAIN pass', pass'[j].do = "count"
               PROVE  pass'[j].ready <= pass'[j].i /\ pass'[j].i <= pass'[j].n
    OBVIOUS
  <1>1. pass \in Seq(Items)
    BY DEF SyncInv
  <1>2. CASE j \in 1..Len(items)
    BY <1>1, <1>2, PassStep
  <1>3. CASE j \notin 1..Len(items)
    <2>1. j + 1 - Len(items) \in 2..Len(pass) /\ Len(items) + (j + 1 - Len(items)) - 1 = j
      BY <1>1, <1>3, PassStep
    <2>2. pass'[j] = pass[j + 1 - Len(items)] /\ j + 1 - Len(items) \in DOMAIN pass
      BY <1>1, <2>1, PassStep
    <2>. QED
      BY <2>2 DEF SyncInv
  <1>. QED
    BY <1>2, <1>3

LEMMA PhaseIsPhase ==
  ASSUME NEW s \in States
  PROVE  Phase(s) \in Phases /\ Outcome(s) \in {"active", "succeeded", "failed"}
  BY DEF States, Phase, Outcome, Phases

(* Before anything ran. *)
LEMMA InitSyncInv == SyncInit => SyncInv
  <1> SUFFICES ASSUME SyncInit PROVE SyncInv
    OBVIOUS
  <1>1. StatusShapes
    BY DEF SyncInit, StatusShapes, NewPod, NewDeployment, Phases
  <1>2. SyncTypeOK
    BY <1>1 DEF SyncInit, SyncTypeOK, NewPod, NewDeployment
  <1>. QED
    BY <1>2 DEF SyncInit, SyncInv, PodComesNext, ReadingInHand, ReadyIsDeserved, NewPod

(* Units, requests and events between the steps of a pass. *)
LEMMA WorldSyncInv ==
  ASSUME SyncInv, World
  PROVE  SyncInv'
  <1> USE DEF SyncInv, objVars, world
  <1>1. ASSUME NEW u \in Watchdogged \cup Batch \cup Groups, UnitChanges(u) PROVE SyncInv'
    BY <1>1 DEF UnitChanges, SyncTypeOK, StatusShapes, PodComesNext, ReadingInHand, ReadyIsDeserved
  <1>2. ASSUME NEW g \in Groups, CrewChanges(g) PROVE SyncInv'
    BY <1>2 DEF CrewChanges, SyncTypeOK, StatusShapes, PodComesNext, ReadingInHand, ReadyIsDeserved
  <1>3. ASSUME NEW d \in Rollouts, ReplicaChanges(d) PROVE SyncInv'
    BY <1>3 DEF ReplicaChanges, SyncTypeOK, StatusShapes, PodComesNext, ReadingInHand, ReadyIsDeserved
  <1>4. ASSUME NEW d \in Rollouts, ChangeDeployment(d) PROVE SyncInv'
    <2>1. SyncTypeOK'
      BY <1>4 DEF ChangeDeployment, SyncTypeOK, StatusShapes
    <2>. QED
      BY <1>4, <2>1 DEF ChangeDeployment, PodComesNext, ReadingInHand, ReadyIsDeserved
  <1>5. ASSUME NEW p \in Watchdogged, CreateOrDeletePod(p) PROVE SyncInv'
    <2>1. /\ \A q \in Watchdogged \ {p} : pstat'[q] = pstat[q]
          /\ pstat'[p] # None => ~pstat'[p].ready
      BY <1>5 DEF CreateOrDeletePod, SyncTypeOK, StatusShapes, NewPod
    <2>2. SyncTypeOK'
      BY <1>5 DEF CreateOrDeletePod, SyncTypeOK, StatusShapes, NewPod, Phases
    <2>3. ReadingInHand'
      <3>1. pass # <<>> /\ OnPod(pass[1]) => pass[1].of \in Watchdogged
        BY DEF Items, OnPod
      <3>. QED
        BY <1>5, <2>1, <3>1 DEF CreateOrDeletePod, ReadingInHand, OnPod
    <2>4. ReadyIsDeserved'
      BY <1>5, <2>1 DEF CreateOrDeletePod, ReadyIsDeserved
    <2>. QED
      BY <1>5, <2>2, <2>3, <2>4 DEF CreateOrDeletePod, PodComesNext
  <1>6. CASE PodmanEvent
    BY <1>6 DEF PodmanEvent, SyncTypeOK, StatusShapes, PodComesNext, ReadingInHand, ReadyIsDeserved
  <1>. QED
    BY <1>1, <1>2, <1>3, <1>4, <1>5, <1>6 DEF World

(* The select statements of syncLoop. *)
LEMMA LoopSyncInv ==
  ASSUME SyncInv, TakeTrigger \/ ResetDebounce \/ DebounceFires \/ Tick \/ EndPass
  PROVE  SyncInv'
  <1> USE DEF SyncInv, objVars, world
  <1>1. CASE TakeTrigger \/ ResetDebounce \/ EndPass
    BY <1>1 DEF TakeTrigger, ResetDebounce, EndPass, SyncTypeOK, StatusShapes, PodComesNext,
                ReadingInHand, ReadyIsDeserved
  <1>2. CASE DebounceFires \/ Tick
    <2>1. BeginPass /\ pass = <<>>
      BY <1>2 DEF DebounceFires, Tick
    <2>2. /\ pass' \in Seq(Items) /\ pass' # <<>> /\ DOMAIN pass' = 1..3
          /\ \A j \in DOMAIN pass' : ~OnPod(pass'[j]) /\ pass'[j].do # "count"
      BY <2>1 DEF BeginPass, Items, OnPod
    <2>3. \A p \in Watchdogged :
            pstat[p] # None /\ pstat[p].ready => seen[p] # None /\ Deserved(seen[p])
      BY <2>1 DEF ReadyIsDeserved
    <2>4. PodComesNext' /\ ReadingInHand' /\ ReadyIsDeserved'
      BY <2>1, <2>2, <2>3 DEF BeginPass, PodComesNext, ReadingInHand, ReadyIsDeserved, Deserved
    <2>5. SyncTypeOK'
      BY <2>1 DEF BeginPass, SyncTypeOK, StatusShapes
    <2>. QED
      BY <2>1, <2>2, <2>4, <2>5 DEF BeginPass
  <1>. QED
    BY <1>1, <1>2

(* The kinds of items listings leave. *)
Reads == [do : {"read"}, of : Watchdogged] \cup [do : {"group"}, of : Groups]
Counts == [do : {"count"}, of : Rollouts, ready : {0}, i : {0}, n : 1..MaxScale]
Asks == [do : {"job"}, of : Batch]

LEMMA ListedItems ==
  ASSUME SyncInv, ListPods \/ ListDeployments \/ ListJobs
  PROVE  \E items \in Seq(Reads \cup Counts \cup Asks) : Then(items)
  <1> DEFINE P == {p \in Watchdogged : pstat[p] # None}
  <1>1. IsFiniteSet(P)
    BY FS_Subset
  <1>2. /\ SetToSeq(P) \in Seq(P) /\ SetToSeq(Groups) \in Seq(Groups)
        /\ SetToSeq(Rollouts) \in Seq(Rollouts) /\ SetToSeq(Batch) \in Seq(Batch)
    BY <1>1, SetToSeqIsSeq
  <1>3. CASE ListPods
    <2> DEFINE a == ForEach(P, LAMBDA p : [do |-> "read", of |-> p])
               b == ForEach(Groups, LAMBDA g : [do |-> "group", of |-> g])
    <2>1. a \in Seq([do : {"read"}, of : Watchdogged])
      <3>1. SetToSeq(P) \in Seq(Watchdogged)
        BY <1>2, SeqWiden
      <3> HIDE DEF P
      <3>. QED
        BY <3>1 DEF ForEach
    <2>2. b \in Seq([do : {"group"}, of : Groups])
      BY <1>2 DEF ForEach
    <2>3. Then(a \o b)
      BY <1>3 DEF ListPods
    <2> HIDE DEF a, b
    <2>4. a \in Seq(Reads) /\ b \in Seq(Reads)
      BY <2>1, <2>2, SeqWiden DEF Reads
    <2>5. a \o b \in Seq(Reads)
      BY <2>4
    <2>. QED
      BY <2>3, <2>5, SeqWiden
  <1>4. CASE ListDeployments
    <2> DEFINE N(d) == IF dstat[d].replicas > 1 THEN dstat[d].replicas ELSE 1
               c == ForEach(Rollouts, LAMBDA d :
                      [do |-> "count", of |-> d, ready |-> 0, i |-> 0, n |-> N(d)])
    <2>1. \A d \in Rollouts : N(d) \in 1..MaxScale
      BY DEF SyncInv, SyncTypeOK, StatusShapes
    <2>2. c \in Seq(Counts)
      BY <1>2, <2>1 DEF ForEach, Counts
    <2>3. Then(c)
      BY <1>4 DEF ListDeployments
    <2> HIDE DEF c
    <2>. QED
      BY <2>2, <2>3, SeqWiden
  <1>5. CASE ListJobs
    <2> DEFINE c == ForEach(Batch, LAMBDA j : [do |-> "job", of |-> j])
    <2>1. c \in Seq(Asks)
      BY <1>2 DEF ForEach, Asks
    <2>2. Then(c)
      BY <1>5 DEF ListJobs
    <2> HIDE DEF c
    <2>. QED
      BY <2>1, <2>2, SeqWiden
  <1>. QED
    BY <1>3, <1>4, <1>5

LEMMA ListingSyncInv ==
  ASSUME SyncInv, ListPods \/ ListDeployments \/ ListJobs
  PROVE  SyncInv'
  <1>1. PICK items \in Seq(Reads \cup Counts \cup Asks) : Then(items)
    BY ListedItems
  <1>2. Reads \cup Counts \cup Asks \subseteq Items
    BY DEF Reads, Counts, Asks, Items
  <1>3. /\ items \in Seq(Items)
        /\ \A j \in 1..Len(items) : items[j] \in Reads \cup Counts \cup Asks
    BY <1>2, SeqWiden
  <1>4. \A x \in Reads \cup Counts \cup Asks :
          ~OnPod(x) /\ (x.do = "count" => x.ready <= x.i /\ x.i <= x.n)
    BY DEF Reads, Counts, Asks, OnPod
  <1>5. /\ pass # <<>> /\ ~OnPod(pass[1])
        /\ UNCHANGED <<world, objVars, trigger, loop, seen>> /\ loop = "pass"
    BY HeadIsFirst DEF ListPods, ListDeployments, ListJobs, At, OnPod
  <1>6. /\ \A j \in 1..Len(items) : ~OnPod(items[j])
        /\ \A j \in 1..Len(items) : items[j].do = "count" =>
             items[j].ready <= items[j].i /\ items[j].i <= items[j].n
        /\ UNCHANGED <<pstat, seen>>
    BY <1>3, <1>4, <1>5 DEF objVars
  <1>7. pass' \in Seq(Items) /\ PodComesNext' /\ ReadingInHand' /\ ReadyIsDeserved'
    BY <1>1, <1>3, <1>5, <1>6, QuietStep
  <1>8. \A j \in DOMAIN pass' : pass'[j].do = "count" =>
          pass'[j].ready <= pass'[j].i /\ pass'[j].i <= pass'[j].n
    BY <1>1, <1>3, <1>5, <1>6, CountsStep
  <1>9. SyncTypeOK'
    BY <1>5 DEF SyncInv, SyncTypeOK, StatusShapes, objVars
  <1>. QED
    BY <1>5, <1>7, <1>8, <1>9 DEF SyncInv, world

(* An item that is neither on a pod nor out of count. *)
Fine(x) == x \in Items /\ ~OnPod(x) /\ (x.do = "count" => x.ready <= x.i /\ x.i <= x.n)

LEMMA OneOrNone ==
  ASSUME Then(<<>>) \/ \E x : Fine(x) /\ Then(<<x>>)
  PROVE  \E items \in Seq(Items) :
           /\ Then(items)
           /\ \A j \in 1..Len(items) : ~OnPod(items[j])
           /\ \A j \in 1..Len(items) : items[j].do = "count" =>
                items[j].ready <= items[j].i /\ items[j].i <= items[j].n
  <1>1. CASE Then(<<>>)
    <2>1. <<>> \in Seq(Items) /\ 1..Len(<<>>) = {}
      OBVIOUS
    <2>. QED
      BY <1>1, <2>1
  <1>2. ASSUME NEW x, Fine(x), Then(<<x>>)
        PROVE  \E items \in Seq(Items) :
                 /\ Then(items)
                 /\ \A j \in 1..Len(items) : ~OnPod(items[j])
                 /\ \A j \in 1..Len(items) : items[j].do = "count" =>
                      items[j].ready <= items[j].i /\ items[j].i <= items[j].n
    <2>1. <<x>> \in Seq(Items) /\ 1..Len(<<x>>) = {1} /\ <<x>>[1] = x
      BY <1>2 DEF Fine
    <2>. QED
      BY <1>2, <2>1 DEF Fine
  <1>. QED
    BY <1>1, <1>2

LEMMA CountOneMore ==
  ASSUME NEW D, NEW z \in {0, 1},
         NEW y \in [do : {"count"}, of : D, ready : 0..MaxScale, i : 0..MaxScale, n : 1..MaxScale],
         y.ready <= y.i, y.i < y.n
  PROVE  LET x == [y EXCEPT !.i = @ + 1, !.ready = @ + z]
         IN  /\ x \in [do : {"count"}, of : D, ready : 0..MaxScale, i : 0..MaxScale, n : 1..MaxScale]
             /\ x.ready <= x.i /\ x.i <= x.n
  <1> DEFINE a == [y EXCEPT !.i = y.i + 1]
             x == [a EXCEPT !.ready = y.ready + z]
  <1>1. /\ a \in [do : {"count"}, of : D, ready : 0..MaxScale, i : 0..MaxScale, n : 1..MaxScale]
        /\ a.ready = y.ready /\ a.i = y.i + 1 /\ a.n = y.n
    OBVIOUS
  <1> HIDE DEF a
  <1>2. /\ x \in [do : {"count"}, of : D, ready : 0..MaxScale, i : 0..MaxScale, n : 1..MaxScale]
        /\ x.ready = y.ready + z /\ x.i = y.i + 1 /\ x.n = y.n
    BY <1>1
  <1>3. x = [y EXCEPT !.i = @ + 1, !.ready = @ + z]
    BY DEF a
  <1>. QED
    BY <1>2, <1>3

(* Readings that become one item, and items that leave nothing: those not  *)
(* on a pod that was read, with the statuses they set.                     *)
LEMMA QuietSyncInv ==
  ASSUME SyncInv, ReadGroup \/ SetContainers \/ CountReplica \/ SetDeploymentStatus
                    \/ ReadJob \/ SetJobStatus
  PROVE  SyncInv'
  <1>1. /\ pass # <<>> /\ ~OnPod(pass[1]) /\ loop = "pass" /\ Item = pass[1] /\ Item \in Items
        /\ UNCHANGED <<world, pstat, trigger, loop, seen>>
    BY HeadIsFirst DEF ReadGroup, SetContainers, CountReplica, SetDeploymentStatus, ReadJob,
                       SetJobStatus, At, OnPod, objVars, Item
  <1>2. Then(<<>>) \/ \E x : Fine(x) /\ Then(<<x>>)
    <2>1. CASE SetContainers \/ SetDeploymentStatus \/ SetJobStatus
      BY <2>1 DEF SetContainers, SetDeploymentStatus, SetJobStatus
    <2>2. CASE ReadGroup
      <3>1. PICK g \in Groups : Item.of = g
        BY <1>1, <2>2 DEF ReadGroup, At, Items, Item
      <3> DEFINE f == GroupPhase(ps.crew[g], unit[g])
      <3>2. f \in Phases
        BY PhaseIsPhase DEF GroupPhase, SyncInv, Phases
      <3>3. Then(<<[do |-> "crew", of |-> g, got |-> f]>>)
        BY <2>2, <3>1 DEF ReadGroup
      <3> HIDE DEF f
      <3>4. Fine([do |-> "crew", of |-> g, got |-> f])
        BY <3>2 DEF Fine, Items, OnPod
      <3>. QED
        BY <3>3, <3>4
    <2>3. CASE CountReplica
      <3> DEFINE K == [do : {"count"}, of : Rollouts, ready : 0..MaxScale,
                       i : 0..MaxScale, n : 1..MaxScale]
                 z == IF Item.i \in up[Item.of] THEN 1 ELSE 0
                 x == [Item EXCEPT !.i = @ + 1, !.ready = @ + z]
      <3>1. Item \in K
        BY <1>1, <2>3 DEF CountReplica, At, Items, Item
      <3>2. Item.ready <= Item.i /\ Item.i < Item.n
        BY <1>1, <2>3, HeadIsFirst DEF SyncInv, CountReplica, At, Item
      <3>3. Then(<<x>>)
        BY <2>3 DEF CountReplica
      <3>4. z \in {0, 1}
        OBVIOUS
      <3> HIDE DEF z
      <3> HIDE DEF x
      <3>6. x \in K /\ x.ready <= x.i /\ x.i <= x.n
        BY <3>1, <3>2, <3>4, CountOneMore DEF x
      <3>7. Fine(x)
        BY <3>6 DEF Fine, Items, OnPod
      <3>. QED
        BY <3>3, <3>7
    <2>4. CASE ReadJob
      <3>1. PICK j \in Batch : Item.of = j
        BY <1>1, <2>4 DEF ReadJob, At, Items, Item
      <3>2. CASE unit[j] = None
        BY <2>4, <3>1, <3>2 DEF ReadJob
      <3>3. CASE unit[j] # None
        <4> DEFINE f == Outcome(unit[j])
        <4>1. f \in {"active", "succeeded", "failed"}
          BY <3>3, PhaseIsPhase DEF SyncInv
        <4>2. Then(<<[do |-> "outcome", of |-> j, got |-> f]>>)
          BY <2>4, <3>1, <3>3 DEF ReadJob
        <4> HIDE DEF f
        <4>3. Fine([do |-> "outcome", of |-> j, got |-> f])
          BY <4>1 DEF Fine, Items, OnPod
        <4>. QED
          BY <4>2, <4>3
      <3>. QED
        BY <3>2, <3>3
    <2>. QED
      BY <2>1, <2>2, <2>3, <2>4
  <1>3. /\ pass' \in Seq(Items) /\ PodComesNext' /\ ReadingInHand' /\ ReadyIsDeserved'
        /\ \A j \in DOMAIN pass' : pass'[j].do = "count" =>
             pass'[j].ready <= pass'[j].i /\ pass'[j].i <= pass'[j].n
    <2>1. PICK items \in Seq(Items) :
          /\ Then(items)
          /\ \A j \in 1..Len(items) : ~OnPod(items[j])
          /\ \A j \in 1..Len(items) : items[j].do = "count" =>
               items[j].ready <= items[j].i /\ items[j].i <= items[j].n
      BY <1>2, OneOrNone
    <2>2. UNCHANGED <<pstat, seen>>
      BY <1>1
    <2>. QED
      BY <1>1, <2>1, <2>2, QuietStep, CountsStep
  <1>4. StatusShapes' /\ \A d \in Rollouts : dstat'[d].observed <= dstat'[d].gen
    <2>1. CASE ReadGroup \/ CountReplica \/ ReadJob \/ SetJobStatus
      BY <2>1 DEF ReadGroup, CountReplica, ReadJob, SetJobStatus, objVars, SyncInv, SyncTypeOK, StatusShapes
    <2>2. CASE SetContainers
      <3>1. Item.of \in Groups /\ Item.got \in Phases
        BY <1>1, <2>2 DEF SetContainers, At, Items, Item
      <3>. QED
        BY <2>2, <3>1 DEF SetContainers, SyncInv, SyncTypeOK, StatusShapes
    <2>3. CASE SetDeploymentStatus
      <3>1. PICK d \in Rollouts, r \in 0..MaxScale : Item.of = d /\ Item.ready = r
        BY <1>1, <2>3 DEF SetDeploymentStatus, At, Items, Item
      <3>2. dstat' = [dstat EXCEPT ![d] = DeploymentStatus(@, r)] /\ UNCHANGED <<pstat, gstat>>
        BY <2>3, <3>1 DEF SetDeploymentStatus
      <3>3. /\ DeploymentStatus(dstat[d], r) \in
                 [replicas : 0..MaxScale, gen : Nat, observed : Nat,
                  ready : 0..MaxScale, desired : 0..MaxScale]
            /\ DeploymentStatus(dstat[d], r).observed <= DeploymentStatus(dstat[d], r).gen
        <4> DEFINE x == dstat[d]
        <4>1. /\ x \in [replicas : 0..MaxScale, gen : Nat, observed : Nat,
                       ready : 0..MaxScale, desired : 0..MaxScale]
              /\ x.observed <= x.gen
          BY DEF SyncInv, SyncTypeOK, StatusShapes
        <4> HIDE DEF x
        <4>2. CASE DeploymentStatus(x, r) = x
          BY <4>1, <4>2 DEF x
        <4>3. CASE DeploymentStatus(x, r) =
                     [x EXCEPT !.ready = r, !.desired = x.replicas, !.observed = x.gen]
          <5>1. DeploymentStatus(x, r) = [replicas |-> x.replicas, gen |-> x.gen,
                  observed |-> x.gen, ready |-> r, desired |-> x.replicas]
            BY <4>1, <4>3
          <5>. QED
            BY <4>1, <5>1 DEF x
        <4>. QED
          BY <4>2, <4>3 DEF DeploymentStatus
      <3>. QED
        BY <3>2, <3>3 DEF SyncInv, SyncTypeOK, StatusShapes
    <2>. QED
      BY <2>1, <2>2, <2>3
  <1>5. SyncTypeOK'
    BY <1>1, <1>4 DEF SyncInv, SyncTypeOK
  <1>. QED
    BY <1>1, <1>3, <1>5 DEF SyncInv, world

(* The three steps on a pod. *)
LEMMA ReadPodSyncInv ==
  ASSUME SyncInv, ReadPod
  PROVE  SyncInv'
  <1>1. /\ pass # <<>> /\ ~OnPod(pass[1]) /\ loop = "pass" /\ Item = pass[1]
        /\ UNCHANGED <<world, objVars, trigger, loop>>
    BY HeadIsFirst DEF ReadPod, At, OnPod, Item
  <1>2. PICK p \in Watchdogged : Item.of = p
    BY <1>1, HeadIsFirst DEF ReadPod, At, Items, Item
  <1>3. SyncTypeOK'
    BY <1>1 DEF SyncInv, SyncTypeOK, StatusShapes, objVars
  <1>4. \A j \in DOMAIN pass : ~OnPod(pass[j])
    BY <1>1 DEF SyncInv, PodComesNext, OnPod
  <1>5. CASE unit[p] = None
    <2>1. Then(<<>>) /\ UNCHANGED <<pstat, seen>>
      BY <1>1, <1>2, <1>5 DEF ReadPod, objVars
    <2>2. <<>> \in Seq(Items) /\ 1..Len(<<>>) = {}
      OBVIOUS
    <2>3. pass' \in Seq(Items) /\ PodComesNext' /\ ReadingInHand' /\ ReadyIsDeserved'
      BY <1>1, <2>1, <2>2, QuietStep
    <2>4. \A j \in DOMAIN pass' : pass'[j].do = "count" =>
            pass'[j].ready <= pass'[j].i /\ pass'[j].i <= pass'[j].n
      BY <1>1, <2>1, <2>2, CountsStep
    <2>. QED
      BY <1>1, <1>3, <2>1, <2>3, <2>4 DEF SyncInv, world
  <1>6. CASE unit[p] # None
    <2> DEFINE g == [unit[p] EXCEPT !.healthy = p \notin ps.sick]
               one == <<[do |-> "phase", of |-> p, got |-> g]>>
               two == one \o <<[do |-> "restarts", of |-> p, got |-> g]>>
    <2>1. unit[p] \in States
      BY <1>6 DEF SyncInv
    <2>2. g \in States /\ g.unit = unit[p].unit
      BY <2>1 DEF States
    <2>3. /\ seen' = [seen EXCEPT ![p] = g]
          /\ Then(IF g.unit THEN two ELSE one \o <<>>)
      BY <1>2, <1>6, <2>2 DEF ReadPod
    <2> HIDE DEF g
    <2> DEFINE items == IF g.unit THEN two ELSE one \o <<>>
    <2>4. /\ items \in Seq(Items)
          /\ Len(items) = IF g.unit THEN 2 ELSE 1
          /\ items[1] = [do |-> "phase", of |-> p, got |-> g]
          /\ g.unit => items[2] = [do |-> "restarts", of |-> p, got |-> g]
      <3>1. /\ [do |-> "phase", of |-> p, got |-> g] \in Items
            /\ [do |-> "restarts", of |-> p, got |-> g] \in Items
        BY <2>2 DEF Items
      <3>. QED
        BY <3>1
    <2> HIDE DEF items
    <2>5. Then(items)
      BY <2>3 DEF items
    <2>6. /\ pass' \in Seq(Items) /\ 1 \in DOMAIN pass' /\ pass'[1] = items[1]
          /\ g.unit => 2 \in DOMAIN pass' /\ pass'[2] = items[2]
          /\ \A j \in DOMAIN pass' : j > Len(items) => ~OnPod(pass'[j])
      <3> pass \in Seq(Items) /\ items \in Seq(Items)
        BY <2>4 DEF SyncInv
      <3>2. /\ Len(items) \in Nat /\ Len(pass) \in Nat \ {0}
            /\ DOMAIN pass = 1..Len(pass)
            /\ DOMAIN pass' = 1..(Len(items) + Len(pass) - 1)
            /\ \A j \in 1..Len(items) : pass'[j] = items[j]
            /\ \A j \in 2..Len(pass) : pass'[Len(items) + j - 1] = pass[j]
            /\ pass' \in Seq(Items)
        BY <1>1, <2>5, PassStep
      <3>1. ASSUME NEW j \in DOMAIN pass', j > Len(items)
            PROVE  ~OnPod(pass'[j])
        <4>1. /\ j + 1 - Len(items) \in 2..Len(pass)
              /\ Len(items) + (j + 1 - Len(items)) - 1 = j
          <5>1. j \in 1..(Len(items) + Len(pass) - 1)
            BY <3>2
          <5>. QED
            BY ONLY <5>1, <3>1, Len(items) \in Nat, Len(pass) \in Nat, <3>2
        <4>2. pass'[j] = pass[j + 1 - Len(items)] /\ j + 1 - Len(items) \in DOMAIN pass
          BY <3>2, <4>1
        <4>. QED
          BY <1>4, <4>2
      <3>. QED
        BY <2>4, <3>1, <3>2
    <2>7. \A j \in DOMAIN pass' : pass'[j].do = "count" =>
            pass'[j].ready <= pass'[j].i /\ pass'[j].i <= pass'[j].n
      <3>1. \A j \in 1..Len(items) : items[j].do # "count"
        BY <2>4
      <3>. QED
        BY <1>1, <2>4, <2>5, <3>1, CountsStep
    <2>8. PodComesNext'
      BY <2>4, <2>6 DEF PodComesNext
    <2>9. ReadingInHand'
      BY <1>1, <2>3, <2>4, <2>6 DEF ReadingInHand, SyncInv
    <2>10. ReadyIsDeserved'
      <3> SUFFICES ASSUME NEW q \in Watchdogged,
                          \A j \in DOMAIN pass' : OnPod(pass'[j]) => pass'[j].of # q,
                          pstat[q] # None, pstat[q].ready
                   PROVE  seen'[q] # None /\ Deserved(seen'[q])
        BY <1>1 DEF ReadyIsDeserved, OnPod, objVars, Deserved, Phase, CrashLooping
      <3>1. q # p
        BY <2>4, <2>6 DEF OnPod
      <3>2. seen'[q] = seen[q]
        BY <2>3, <3>1 DEF SyncInv
      <3>. QED
        BY <1>4, <3>2 DEF SyncInv, ReadyIsDeserved, OnPod
    <2>. QED
      BY <1>1, <1>3, <2>2, <2>3, <2>6, <2>7, <2>8, <2>9, <2>10 DEF SyncInv, world
  <1>. QED
    BY <1>5, <1>6

(* A pass in the middle of one pod is not on any other. *)
LEMMA OthersDeserve ==
  ASSUME SyncInv, pass # <<>>, OnPod(pass[1]), NEW q \in Watchdogged, q # pass[1].of,
         pstat'[q] = pstat[q], pstat'[q] # None, pstat'[q].ready
  PROVE  seen[q] # None /\ Deserved(seen[q])
  BY DEF SyncInv, PodComesNext, ReadyIsDeserved, OnPod

LEMMA OnPodSyncInv ==
  ASSUME SyncInv, SetPhase \/ SetRestarts
  PROVE  SyncInv'
  <1>1. /\ pass # <<>> /\ OnPod(pass[1]) /\ loop = "pass" /\ Item = pass[1] /\ Then(<<>>)
        /\ UNCHANGED <<world, dstat, jstat, gstat, trigger, loop, seen>>
    BY HeadIsFirst DEF SetPhase, SetRestarts, At, OnPod, Item
  <1>2. PICK p \in Watchdogged, g \in States : pass[1].of = p /\ pass[1].got = g
    BY <1>1, HeadIsFirst DEF Items, OnPod
  <1>3. g = seen[p] /\ g # None
    BY <1>1, <1>2 DEF SyncInv, ReadingInHand
  <1>4. /\ pass \in Seq(Items) /\ pass' \in Seq(Items) /\ Len(pass) \in Nat \ {0}
        /\ DOMAIN pass = 1..Len(pass) /\ DOMAIN pass' = 1..(Len(pass) - 1)
        /\ \A j \in DOMAIN pass' : pass'[j] = pass[j + 1]
    <2>1. pass \in Seq(Items)
      BY DEF SyncInv
    <2>2. /\ Tail(pass) \in Seq(Items) /\ Len(Tail(pass)) = Len(pass) - 1
          /\ \A j \in 1..Len(pass) - 1 : Tail(pass)[j] = pass[j + 1]
          /\ Len(pass) \in Nat \ {0}
      BY <1>1, <2>1, EmptySeq, HeadTailProperties
    <2>3. pass' = Tail(pass)
      BY <1>1, <2>2 DEF Then
    <2>. QED
      BY <2>1, <2>2, <2>3
  <1>5. \A j \in DOMAIN pass' : pass'[j].do = "count" =>
          pass'[j].ready <= pass'[j].i /\ pass'[j].i <= pass'[j].n
    BY <1>4 DEF SyncInv
  <1>6. /\ pstat' = [pstat EXCEPT ![p] = pstat'[p]]
        /\ pstat'[p] # None => pstat[p] # None
        /\ pstat'[p] \in [phase : Phases, ready : BOOLEAN, restarts : Nat, exit : Nat \cup {None}] \cup {None}
        /\ pstat'[p] # None /\ pstat'[p].ready => pstat'[p].phase = "Running"
    <2> DEFINE K == [phase : Phases, ready : BOOLEAN, restarts : Nat, exit : Nat \cup {None}]
               was == pstat[p]
    <2>1. pstat \in [Watchdogged -> K \cup {None}] /\ (was # None /\ was.ready => was.phase = "Running")
      BY DEF SyncInv, SyncTypeOK, StatusShapes
    <2>2. CASE SetPhase
      <3>1. pstat' = [pstat EXCEPT ![p] = IF was = None THEN None ELSE PhaseInfo(was, g)]
        BY <1>1, <1>2, <2>2 DEF SetPhase
      <3>2. was \in K => PhaseInfo(was, g) \in K
                         /\ (PhaseInfo(was, g).ready => PhaseInfo(was, g).phase = "Running")
        BY PhaseIsPhase DEF PhaseInfo, States
      <3>. QED
        BY <2>1, <3>1, <3>2
    <2>3. CASE SetRestarts
      <3>1. pstat' = [pstat EXCEPT ![p] = IF was = None THEN None ELSE RestartInfo(was, g)]
        BY <1>1, <1>2, <2>3 DEF SetRestarts
      <3>2. was \in K => RestartInfo(was, g) \in K /\ RestartInfo(was, g).phase = was.phase
                         /\ (RestartInfo(was, g).ready => was.ready)
        BY DEF RestartInfo, States
      <3>. QED
        BY <2>1, <3>1, <3>2
    <2>. QED
      BY <2>2, <2>3, <1>1
  <1>7. SyncTypeOK'
    BY <1>1, <1>6 DEF SyncInv, SyncTypeOK, StatusShapes
  <1>8. CASE SetPhase
    <2>1. pass[1].do = "phase"
      BY <1>1, <1>8, HeadIsFirst DEF SetPhase, At
    <2>2. pstat'[p] # None => pstat'[p].ready =
            (Phase(g) = "Running" /\ g.healthy /\ ~CrashLooping(pstat[p].restarts, pstat[p].exit))
      BY <1>1, <1>2, <1>8 DEF SetPhase, PhaseInfo, SyncInv, SyncTypeOK, StatusShapes
    <2>3. PodComesNext'
      BY <1>4, <2>1 DEF SyncInv, PodComesNext
    <2>4. ReadingInHand'
      <3> SUFFICES ASSUME pass' # <<>>, OnPod(pass'[1])
                   PROVE  /\ pass'[1].of = p /\ pass'[1].got = g
                          /\ pass'[1].do = "restarts"
        BY <1>1, <1>3, <2>2 DEF ReadingInHand
      <3>1. 1 \in DOMAIN pass' /\ pass'[1] = pass[2] /\ 2 \in DOMAIN pass
        BY <1>4
      <3>. QED
        BY <1>2, <3>1 DEF SyncInv, PodComesNext
    <2>5. ReadyIsDeserved'
      <3> SUFFICES ASSUME NEW q \in Watchdogged,
                          \A j \in DOMAIN pass' : OnPod(pass'[j]) => pass'[j].of # q,
                          pstat'[q] # None, pstat'[q].ready
                   PROVE  seen[q] # None /\ Deserved(seen[q])
        BY <1>1 DEF ReadyIsDeserved, OnPod, Deserved, Phase, CrashLooping
      <3>1. CASE q = p
        <4>1. ~g.unit
          <5>1. g.unit => 2 \in DOMAIN pass /\ pass[2].do = "restarts"
            BY <1>1, <1>2, <2>1 DEF SyncInv, ReadingInHand
          <5>2. 2 \in DOMAIN pass /\ pass[2].do = "restarts" =>
                  1 \in DOMAIN pass' /\ OnPod(pass'[1]) /\ pass'[1].of = p
            BY <1>2, <1>4 DEF SyncInv, PodComesNext, OnPod
          <5>. QED
            BY <3>1, <5>1, <5>2
        <4>. QED
          BY <1>3, <2>2, <3>1, <4>1 DEF Deserved
      <3>2. CASE q # p
        <4>1. pstat'[q] = pstat[q]
          BY <1>6, <3>2 DEF SyncInv, SyncTypeOK, StatusShapes
        <4>. QED
          BY <1>1, <1>2, <3>2, <4>1, OthersDeserve
      <3>. QED
        BY <3>1, <3>2
    <2>. QED
      BY <1>1, <1>4, <1>5, <1>7, <2>3, <2>4, <2>5 DEF SyncInv, world
  <1>9. CASE SetRestarts
    <2>1. pass[1].do = "restarts"
      BY <1>1, <1>9, HeadIsFirst DEF SetRestarts, At
    <2>2. pstat'[p] # None /\ pstat'[p].ready =>
            pstat[p].ready /\ ~CrashLooping(g.restarts, g.exit)
      BY <1>1, <1>2, <1>6, <1>9 DEF SetRestarts, RestartInfo, SyncInv, SyncTypeOK, StatusShapes
    <2>3. \A j \in DOMAIN pass' : ~OnPod(pass'[j])
      BY <1>4, <2>1 DEF SyncInv, PodComesNext
    <2>4. PodComesNext' /\ ReadingInHand'
      BY <1>4, <2>3 DEF PodComesNext, ReadingInHand
    <2>5. ReadyIsDeserved'
      <3> SUFFICES ASSUME NEW q \in Watchdogged, pstat'[q] # None, pstat'[q].ready
                   PROVE  seen[q] # None /\ Deserved(seen[q])
        BY <1>1 DEF ReadyIsDeserved, Deserved, Phase, CrashLooping
      <3>1. CASE q = p
        <4>1. Phase(g) = "Running" /\ g.healthy
          BY <1>1, <1>2, <1>6, <2>1, <2>2, <3>1 DEF SyncInv, ReadingInHand
        <4>. QED
          BY <1>3, <2>2, <3>1, <4>1 DEF Deserved
      <3>2. CASE q # p
        <4>1. pstat'[q] = pstat[q]
          BY <1>6, <3>2 DEF SyncInv, SyncTypeOK, StatusShapes
        <4>. QED
          BY <1>1, <1>2, <3>2, <4>1, OthersDeserve
      <3>. QED
        BY <3>1, <3>2
    <2>. QED
      BY <1>1, <1>4, <1>5, <1>7, <2>4, <2>5 DEF SyncInv, world
  <1>. QED
    BY <1>8, <1>9

LEMMA NextSyncInv == SyncInv /\ [SyncNext]_syncVars => SyncInv'
  <1> SUFFICES ASSUME SyncInv, [SyncNext]_syncVars PROVE SyncInv'
    OBVIOUS
  <1>1. CASE UNCHANGED syncVars
    BY <1>1 DEF syncVars, world, objVars, SyncInv, SyncTypeOK, StatusShapes, PodComesNext,
                ReadingInHand, ReadyIsDeserved
  <1>2. CASE SyncNext
    BY <1>2, WorldSyncInv, LoopSyncInv, ListingSyncInv, ReadPodSyncInv, OnPodSyncInv, QuietSyncInv
    DEF SyncNext, LoopStep
  <1>. QED
    BY <1>1, <1>2

(* The declared shapes of the statuses: phases that exist, a Ready pod that *)
(* runs, an observed generation that has been there, no count beyond the   *)
(* bound on replicas.                                                      *)
THEOREM SyncTypeCorrect == SyncSpec => []SyncTypeOK
  <1>1. SyncInv => SyncTypeOK
    BY DEF SyncInv
  <1>. QED
    BY <1>1, InitSyncInv, NextSyncInv, PTL DEF SyncSpec

(* UpdatePodPhase and UpdatePodRestartInfo together: between its steps on  *)
(* a pod, no pass leaves Ready a pod that it read to be stopped, unhealthy *)
(* or crash-looping.                                                       *)
THEOREM ReadyPodsDeserveIt == SyncSpec => []ReadyIsDeserved
  <1>1. SyncInv => ReadyIsDeserved
    BY DEF SyncInv
  <1>. QED
    BY <1>1, InitSyncInv, NextSyncInv, PTL DEF SyncSpec
=============================================================================
