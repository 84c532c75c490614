---------------------------- MODULE TraefikProofs ----------------------------
(***************************************************************************)
(* Of the conflict check of TCP routes and of the files of all routes, for *)
(* any number of clients, pods, Services and routes, over deaths and       *)
(* starts of q8s.  TcpInv and RoutingInv, in Traefik, are the inductive    *)
(* invariants; the second needs of the first that what a request is about  *)
(* to store is an object.                                                  *)
(***************************************************************************)
EXTENDS Traefik, ListLemmas

USE TraefikAssumption, BodiesAssumption

LEMMA StoresNoneIf ==
  ASSUME NEW R, NEW todo \in Seq(R), \A task \in R : StoresNot(task)
  PROVE  StoresNone(todo)
  <1>1. /\ Len(todo) \in Nat /\ DOMAIN todo = 1..Len(todo)
        /\ \A j \in 1..Len(todo) : todo[j] \in R /\ todo[j] \in Range(todo)
        /\ todo = [j \in 1..Len(todo) |-> todo[j]]
    BY DEF Range
  <1>2. todo \in [1..Len(todo) -> Range(todo)]
    BY <1>1
  <1>3. todo \in Seq(Range(todo))
    BY <1>1, <1>2, SeqDef
  <1>4. Range(todo) \subseteq R
    BY <1>1 DEF Range
  <1>. QED
    BY <1>3, <1>4 DEF StoresNone

(* Tasks of a listing, of one object and of none. *)
LEMMA OneTask ==
  ASSUME NEW task, StoresNot(task)
  PROVE  StoresNone(<<task>>) /\ StoresNone(<<>>)
  <1>1. <<task>> \in Seq({task}) /\ <<>> \in Seq({task})
    OBVIOUS
  <1>. QED
    BY <1>1, StoresNoneIf

LEMMA Appended ==
  ASSUME NEW s, NEW u, StoresNone(s), StoresNone(u)
  PROVE  StoresNone(s \o u)
  <1> DEFINE R == Range(s) \cup Range(u)
  <1>1. s \in Seq(R) /\ u \in Seq(R) /\ \A task \in R : StoresNot(task)
    <2>1. /\ s \in Seq(Range(s)) /\ u \in Seq(Range(u))
          /\ \A task \in R : StoresNot(task)
      BY DEF StoresNone
    <2>2. Range(s) \subseteq R /\ Range(u) \subseteq R
      OBVIOUS
    <2> HIDE DEF R
    <2>. QED
      BY <2>1, <2>2, SeqWiden
  <1> HIDE DEF R
  <1>2. s \o u \in Seq(R)
    BY <1>1
  <1>. QED
    BY <1>1, <1>2, StoresNoneIf

LEMMA ListingTasks ==
  /\ \A R, do : StoresNone(Every(R, do))
  /\ StoresNone(Regenerate_) /\ StoresNone(PurgeListings)
  /\ StoresNone(PurgeListings \o << [do |-> <<"purge">>] >>)
  /\ StoresNone(<<>>)
  <1>1. ASSUME NEW R, NEW do PROVE StoresNone(Every(R, do))
    <2>1. StoresNot(Listing(R, do))
      BY DEF Listing, StoresNot, TaskStages
    <2>. QED
      BY <2>1, OneTask DEF Every
  <1>2. StoresNone(Regenerate_) /\ StoresNone(PurgeListings)
    BY <1>1, Appended DEF Regenerate_, PurgeListings
  <1>3. StoresNone(<< [do |-> <<"purge">>] >>) /\ StoresNone(<<>>)
    <2>1. StoresNot([do |-> <<"purge">>])
      BY DEF StoresNot, TaskStages
    <2>. QED
      BY <2>1, OneTask
  <1>. QED
    BY <1>1, <1>2, <1>3, Appended

(* What Finish and the tasks for the objects of a listing leave. *)
LEMMA Finished ==
  ASSUME NEW a \in Callers, tasks \in [Callers -> Range(tasks)],
         StoresNone(tasks[a]), tasks[a] # <<>>,
         NEW do, do = <<>> \/ do \in TaskStages, NEW more, StoresNone(more),
         Finish(a, do, more)
  PROVE  StoresNone(tasks'[a]) /\ \A c \in Callers \ {a} : tasks'[c] = tasks[c]
  <1> DEFINE s == tasks[a]
             head == IF do = <<>> THEN <<>> ELSE <<[Head(s) EXCEPT !.do = do]>>
  <1>1. StoresNone(Tail(s))
    <2>1. s \in Seq(Range(s)) /\ \A task \in Range(s) : StoresNot(task)
      BY DEF StoresNone
    <2>2. Tail(s) \in Seq(Range(s))
      BY <2>1
    <2>. QED
      BY <2>1, <2>2, StoresNoneIf
  <1>2. StoresNone(head)
    <2>1. CASE do = <<>>
      BY <2>1, ListingTasks
    <2>2. CASE do # <<>> /\ do \in TaskStages
      <3>1. s \in Seq(Range(s)) /\ Head(s) \in Range(s)
        BY HeadTailProperties DEF StoresNone
      <3>2. StoresNot([Head(s) EXCEPT !.do = do])
        BY <2>2, <3>1 DEF StoresNone, StoresNot
      <3>. QED
        BY <2>2, <3>2, OneTask
    <2>. QED
      BY <2>1, <2>2
  <1>. QED
    BY <1>1, <1>2, Appended DEF Finish

(* How the list of a caller that stores no TCP route goes on. *)
LEMMA Staged ==
  ASSUME NEW a \in Callers, TcpInv, NEW stage_ \in {"pod", "list", "unpost", "remove", "purge", "resolve", "write"},
         On(a, stage_)
  PROVE  /\ StoresNone(tasks[a]) /\ tasks[a] # <<>>
         /\ Tail(Now(a).do) = <<>> \/ Tail(Now(a).do) \in TaskStages
  <1>1. tasks[a] # <<>> /\ Head(Now(a).do) = stage_
    BY DEF On
  <1>2. ~StoresOne(a)
    <2> SUFFICES ASSUME StoresOne(a) PROVE FALSE
      OBVIOUS
    <2>1. Now(a).do = <<"store">>
      BY DEF StoresOne, Now
    <2>. QED
      BY <1>1, <2>1
  <1>3. StoresNone(tasks[a])
    BY <1>2 DEF TcpInv
  <1>4. tasks[a] \in Seq(Range(tasks[a])) /\ Now(a) \in Range(tasks[a])
    BY <1>1, <1>3, HeadTailProperties DEF StoresNone, Now
  <1>5. Now(a).do \in TaskStages
    BY <1>3, <1>4 DEF StoresNone, StoresNot
  <1>6. \A do \in TaskStages : Tail(do) = <<>> \/ Tail(do) = <<"write">>
    <2>1. \A x : Tail(<<x>>) = <<>>
      OBVIOUS
    <2>2. Tail(<<"resolve", "write">>) = <<"write">>
      OBVIOUS
    <2> SUFFICES ASSUME NEW do \in TaskStages PROVE Tail(do) = <<>> \/ Tail(do) = <<"write">>
      OBVIOUS
    <2>3. CASE do = <<"resolve", "write">>
      BY <2>2, <2>3
    <2>4. ASSUME NEW x, do = <<x>> PROVE Tail(do) = <<>>
      BY <2>1, <2>4
    <2>. QED
      BY <2>3, <2>4 DEF TaskStages
  <1>8. Tail(Now(a).do) = <<>> \/ Tail(Now(a).do) \in TaskStages
    BY <1>5, <1>6 DEF TaskStages
  <1>. QED
    BY <1>1, <1>3, <1>8

(* Steps that leave no list with a TCP route to store that was not there   *)
(* before, and store none.                                                 *)
LEMMA QuietTcp ==
  ASSUME TcpInv, clashed' = clashed,
         tasks' \in [Callers -> Range(tasks')], route' \in [Routes -> Range(route')],
         \A a \in Callers : StoresNone(tasks'[a]) \/ tasks'[a] = tasks[a],
         \A t \in TcpRoutes : route'[t] \in {Absent, route[t]}
  PROVE  TcpInv'
  <1>1. ASSUME NEW a \in Callers, StoresOne(a), tasks'[a] = tasks[a] PROVE StoresOne(a)'
    BY <1>1 DEF StoresOne, Free
  <1>2. \A a \in Callers : StoresNone(tasks[a])' \/ StoresOne(a)'
    BY <1>1 DEF TcpInv
  <1>3. ASSUME NEW a \in Callers, StoresOne(a)' PROVE tasks'[a] = tasks[a] /\ StoresOne(a)
    <2>1. ~StoresNone(tasks'[a])
      <3> SUFFICES ASSUME StoresNone(tasks'[a]) PROVE FALSE
        OBVIOUS
      <3>1. PICK task : tasks'[a] = <<task>> /\ task.do = <<"store">>
        BY <1>3 DEF StoresOne
      <3>2. task \in Range(tasks'[a])
        BY <3>1 DEF Range
      <3>. QED
        BY <3>1, <3>2 DEF StoresNone, StoresNot, TaskStages
    <2>2. tasks'[a] = tasks[a]
      BY <2>1
    <2>3. ~StoresNone(tasks[a])
      BY <2>1, <2>2
    <2>. QED
      BY <2>2, <2>3 DEF TcpInv
  <1>4. EntryPointsExclusive'
    BY DEF TcpInv, EntryPointsExclusive
  <1>. QED
    BY <1>2, <1>3, <1>4 DEF TcpInv

LEMMA Shapes ==
  ASSUME TcpInv, NEW a \in Callers, NEW todo,
         tasks' = [tasks EXCEPT ![a] = todo]
  PROVE  /\ tasks' \in [Callers -> Range(tasks')] /\ tasks'[a] = todo
         /\ \A c \in Callers \ {a} : tasks'[c] = tasks[c]
  <1>1. tasks \in [Callers -> Range(tasks)]
    BY DEF TcpInv
  <1>2. DOMAIN tasks' = Callers /\ tasks' = [c \in Callers |-> tasks'[c]]
    BY <1>1
  <1>. QED
    BY <1>1, <1>2 DEF Range

LEMMA RouteShapes ==
  ASSUME TcpInv, NEW r \in Routes, NEW b, route' = [route EXCEPT ![r] = b]
  PROVE  /\ route' \in [Routes -> Range(route')] /\ route'[r] = b
         /\ \A u \in Routes \ {r} : route'[u] = route[u]
  <1>1. route \in [Routes -> Range(route)]
    BY DEF TcpInv
  <1>2. DOMAIN route' = Routes /\ route' = [u \in Routes |-> route'[u]]
    BY <1>1
  <1>. QED
    BY <1>1, <1>2 DEF Range

LEMMA SameRoutes ==
  ASSUME TcpInv, UNCHANGED route
  PROVE  /\ route' \in [Routes -> Range(route')]
         /\ \A t \in TcpRoutes : route'[t] \in {Absent, route[t]}
  BY DEF TcpInv, Range

LEMMA SameTasks ==
  ASSUME TcpInv, UNCHANGED tasks
  PROVE  tasks' \in [Callers -> Range(tasks')]
  BY DEF TcpInv, Range

(* Requests but those for TCP routes. *)
LEMMA CallsTcpInv ==
  ASSUME TcpInv, NEW a \in Clients, RoutingCalls(a),
         ~\E t \in TcpRoutes : \E b \in RouteBodies(t) : CheckTcpRoute(a, t, b)
  PROVE  TcpInv'
  <1> USE DEF routing
  <1>0. a \in Callers
    BY DEF Callers
  <1>1. ASSUME NEW P \in SUBSET (Members \cap stage), NEW spec, ChangePods(a, P, spec)
        PROVE  TcpInv'
    <2> DEFINE ps == SetToSeq(P)
               todo == [j \in 1..Len(ps) |-> PodTask(ps[j], spec)]
    <2>1. ps \in Seq(P)
      BY FS_Subset, SetToSeqIsSeq
    <2> HIDE DEF ps
    <2>2. todo \in Seq({PodTask(p, spec) : p \in P})
      BY <2>1
    <2>3. \A task \in {PodTask(p, spec) : p \in P} : StoresNot(task)
      BY DEF PodTask, StoresNot, TaskStages
    <2>4. StoresNone(todo)
      BY <2>2, <2>3, StoresNoneIf
    <2>5. tasks' = [tasks EXCEPT ![a] = todo \o Regenerate_] /\ UNCHANGED <<route, clashed>>
      BY <1>1 DEF ChangePods, Begin, ps
    <2>6. StoresNone(todo \o Regenerate_)
      BY <2>4, ListingTasks, Appended
    <2> HIDE DEF todo
    <2>. QED
      BY <1>0, <2>5, <2>6, Shapes, SameRoutes, QuietTcp
  <1>2. ASSUME NEW p, NEW spec, PatchPod_(a, p, spec)
        PROVE  TcpInv'
    BY <1>2, SameTasks, SameRoutes, QuietTcp DEF PatchPod_
  <1>3. ASSUME NEW s, NEW label, PostService_(a, s, label) \/ PatchService_(a, s, label) \/ DeleteService_(a, s)
        PROVE  TcpInv'
    <2>1. UNCHANGED <<route, clashed>>
      BY <1>3 DEF PostService_, PatchService_, DeleteService_
    <2>2. UNCHANGED tasks \/ \E todo : StoresNone(todo) /\ tasks' = [tasks EXCEPT ![a] = todo]
      <3>1. StoresNot([do |-> <<"unpost">>, s |-> s])
        BY DEF StoresNot, TaskStages
      <3>. QED
        BY <1>3, <3>1, OneTask, ListingTasks DEF PostService_, PatchService_, DeleteService_, Begin
    <2>. QED
      BY <1>0, <2>1, <2>2, Shapes, SameTasks, SameRoutes, QuietTcp
  <1>4. ASSUME NEW r \in Routes, NEW b, StoresNone(IF r \in Followed THEN << Generate(r, b) >> ELSE <<>>),
               StoresNone(IF r \in Followed THEN << Unroute(r) >> ELSE <<>>),
               DeleteRoute(a, r) \/ WriteIngress(a, r, b) \/ WriteMiddleware(a, r, b)
        PROVE  TcpInv'
    <2>1. PICK c : /\ route' = [route EXCEPT ![r] = c] /\ (r \in TcpRoutes => c = Absent)
                   /\ clashed' = clashed
      BY <1>4 DEF DeleteRoute, WriteIngress, WriteMiddleware, WriteRoute, StoreAndGenerate
    <2>2. \E todo : StoresNone(todo) /\ tasks' = [tasks EXCEPT ![a] = todo]
      BY <1>4 DEF DeleteRoute, WriteIngress, WriteMiddleware, WriteRoute, StoreAndGenerate, Begin, BeginOn
    <2>3. route' \in [Routes -> Range(route')] /\ \A t \in TcpRoutes : route'[t] \in {Absent, route[t]}
      BY <2>1, RouteShapes DEF Routes
    <2>. QED
      BY <1>0, <2>1, <2>2, <2>3, Shapes, QuietTcp
  <1>5. ASSUME NEW r \in Routes, NEW b
        PROVE  /\ StoresNone(IF r \in Followed THEN << Generate(r, b) >> ELSE <<>>)
               /\ StoresNone(IF r \in Followed THEN << Unroute(r) >> ELSE <<>>)
    <2>1. StoresNot(Generate(r, b)) /\ StoresNot(Unroute(r))
      BY DEF Generate, Unroute, StoresNot, TaskStages
    <2>. QED
      BY <2>1, OneTask
  <1>6. CASE DeleteNamespace_(a)
    <2>1. UNCHANGED <<route, clashed>>
          /\ tasks' = [tasks EXCEPT ![a] = PurgeListings \o << [do |-> <<"purge">>] >>]
      BY <1>6 DEF DeleteNamespace_, Begin
    <2>. QED
      BY <1>0, <2>1, ListingTasks, Shapes, SameRoutes, QuietTcp
  <1>. QED
    BY <1>1, <1>2, <1>3, <1>4, <1>5, <1>6 DEF RoutingCalls, Routes

(* The stages of callers but that which stores a TCP route. *)
LEMMA StagesTcpInv ==
  ASSUME TcpInv, NEW a \in Callers, RoutingStep(a), ~StoreTcpRoute(a)
  PROVE  TcpInv'
  <1> USE DEF routing
  <1>1. ASSUME NEW do, do = <<>> \/ do \in TaskStages, NEW more, StoresNone(more),
               Finish(a, do, more), UNCHANGED clashed,
               StoresNone(tasks[a]), tasks[a] # <<>>,
               route' \in [Routes -> Range(route')],
               \A t \in TcpRoutes : route'[t] \in {Absent, route[t]}
        PROVE  TcpInv'
    <2>1. tasks \in [Callers -> Range(tasks)]
      BY DEF TcpInv
    <2>2. StoresNone(tasks'[a]) /\ \A c \in Callers \ {a} : tasks'[c] = tasks[c]
      BY <1>1, <2>1, Finished
    <2>3. tasks' \in [Callers -> Range(tasks')]
      BY <1>1, Shapes DEF Finish
    <2>. QED
      BY <1>1, <2>2, <2>3, QuietTcp
  <1>2. CASE ChangePod(a) \/ Unpost(a) \/ RemoveConfig(a) \/ WriteConfig(a)
    <2>1. PICK s \in {"pod", "unpost", "remove", "write"} : On(a, s)
      BY <1>2 DEF ChangePod, Unpost, RemoveConfig, WriteConfig
    <2>2. Finish(a, Tail(Now(a).do), <<>>) /\ UNCHANGED <<route, clashed>>
      BY <1>2 DEF ChangePod, Unpost, RemoveConfig, WriteConfig, Proceed
    <2>. QED
      BY <1>1, <2>1, <2>2, Staged, ListingTasks, SameRoutes
  <1>3. CASE PurgeRoutes(a)
    <2>1. On(a, "purge") /\ Finish(a, Tail(Now(a).do), <<>>)
      BY <1>3 DEF PurgeRoutes, Proceed
    <2>2. /\ UNCHANGED clashed /\ route' = [r \in Routes |-> Absent]
          /\ route' \in [Routes -> Range(route')]
          /\ \A t \in TcpRoutes : route'[t] \in {Absent, route[t]}
      BY <1>3 DEF PurgeRoutes, Range, Routes
    <2>. QED
      BY <1>1, <2>1, <2>2, Staged, ListingTasks
  <1>4. CASE ListRoutes(a)
    <2> DEFINE R == Now(a).of \cap Stored
               rs == SetToSeq(R)
               next(r) == IF Now(a).then = "remove" THEN Unroute(r) ELSE Generate(r, route[r])
               todo == [j \in 1..Len(rs) |-> next(rs[j])]
    <2>1. rs \in Seq(R)
      <3>1. IsFiniteSet(R)
        BY FS_Subset DEF Stored
      <3>. QED
        BY <3>1, SetToSeqIsSeq
    <2> HIDE DEF rs, R
    <2>2. todo \in Seq({next(r) : r \in R})
      BY <2>1
    <2>3. \A task \in {next(r) : r \in R} : StoresNot(task)
      BY DEF Unroute, Generate, StoresNot, TaskStages
    <2> HIDE DEF next
    <2>4. StoresNone(todo)
      BY <2>2, <2>3, StoresNoneIf
    <2>5. On(a, "list") /\ Finish(a, <<>>, todo) /\ UNCHANGED <<route, clashed>>
      BY <1>4 DEF ListRoutes, rs, R, next
    <2> HIDE DEF todo
    <2>. QED
      BY <1>1, <2>4, <2>5, Staged, SameRoutes
  <1>5. CASE Resolve(a)
    <2>1. On(a, "resolve") /\ UNCHANGED <<route, clashed>>
      BY <1>5 DEF Resolve
    <2>2. StoresNone(tasks[a]) /\ tasks[a] # <<>>
          /\ (Tail(Now(a).do) = <<>> \/ Tail(Now(a).do) \in TaskStages)
      BY <2>1, Staged
    <2> DEFINE made == Render(Now(a).r, Now(a).b, svc[Now(a).b.svc], pod)
               new == [tasks[a][1] EXCEPT !.do = Tail(@), !.made = made]
    <2>3. tasks' = [tasks EXCEPT ![a][1].do = Tail(@), ![a][1].made = made]
      BY <1>5 DEF Resolve
    <2> HIDE DEF made
    <2>4. tasks' = [tasks EXCEPT ![a] = [@ EXCEPT ![1] = new]]
      BY <2>2, <2>3 DEF StoresNone
    <2>5. tasks[a] \in Seq(Range(tasks[a])) /\ tasks[a][1] \in Range(tasks[a]) /\ Now(a) = tasks[a][1]
      BY <2>2, HeadTailProperties DEF StoresNone, Now
    <2>6. Tail(Now(a).do) = <<"write">>
      <3>1. Now(a).do \in TaskStages /\ Head(Now(a).do) = "resolve"
        BY <2>1, <2>2, <2>5 DEF StoresNone, StoresNot, On
      <3>2. Now(a).do = <<"resolve", "write">>
        BY <3>1 DEF TaskStages
      <3>. QED
        BY <3>2
    <2>7. StoresNot(new)
      BY <2>2, <2>5, <2>6 DEF StoresNone, StoresNot, TaskStages
    <2> HIDE DEF new
    <2>8. StoresNone([tasks[a] EXCEPT ![1] = new])
      <3> DEFINE T == Range(tasks[a]) \cup {new}
      <3>1. Range(tasks[a]) \subseteq T /\ new \in T /\ \A task \in T : StoresNot(task)
        BY <2>2, <2>7 DEF StoresNone
      <3> HIDE DEF T
      <3>2. tasks[a] \in Seq(T) /\ 1 \in 1..Len(tasks[a])
        BY <2>2, <2>5, <3>1, SeqWiden
      <3>3. [tasks[a] EXCEPT ![1] = new] \in Seq(T)
        BY <3>1, <3>2, ExceptSeq
      <3>. QED
        BY <3>1, <3>3, StoresNoneIf
    <2>. QED
      BY <2>1, <2>4, <2>8, Shapes, SameRoutes, QuietTcp
  <1>. QED
    BY <1>2, <1>3, <1>4, <1>5 DEF RoutingStep

LEMMA NotBoth ==
  ASSUME NEW task, task.do = <<"store">>
  PROVE  ~StoresNone(<<task>>)
  <1>1. task \in Range(<<task>>)
    BY DEF Range
  <1>. QED
    BY <1>1 DEF StoresNone, StoresNot, TaskStages

(* What one check and its store do to the others. *)
LEMMA CheckTcpInv ==
  ASSUME TcpInv, NEW a \in Callers, NEW t \in TcpRoutes, NEW b \in RouteBodies(t), CheckTcpRoute(a, t, b)
  PROVE  TcpInv'
  <1>1. PICK new \in BOOLEAN :
          tasks' = [tasks EXCEPT ![a] = << [do |-> <<"store">>, t |-> t, b |-> b, new |-> new] >>]
    BY DEF CheckTcpRoute, Begin
  <1>2. /\ UNCHANGED <<route, stage>> /\ ~Conflict(t, b) /\ clashed \subseteq clashed'
        /\ \A c \in Callers \ {a} : \A u \in Checked(c) : u \in clashed' /\ t \in clashed'
    BY DEF CheckTcpRoute, routing
  <1>3. /\ tasks' \in [Callers -> Range(tasks')]
        /\ tasks'[a] = << [do |-> <<"store">>, t |-> t, b |-> b, new |-> new] >>
        /\ \A c \in Callers \ {a} : tasks'[c] = tasks[c]
    BY <1>1, Shapes
  <1>4. StoresOne(a)'
    <2>1. Free(t, b)'
      BY <1>2 DEF Free, Conflict
    <2>. QED
      BY <1>3, <2>1 DEF StoresOne
  <1>5. ASSUME NEW c \in Callers \ {a}
        PROVE  /\ StoresNone(tasks[c])' \/ StoresOne(c)'
               /\ StoresOne(c)' => tasks'[c][1].t \in clashed' /\ t \in clashed'
    <2>1. StoresOne(c) => StoresOne(c)'
      BY <1>2, <1>3 DEF StoresOne, Free
    <2>2. StoresOne(c)' => tasks'[c][1].t \in Checked(c)
      BY <1>3 DEF StoresOne, Checked
    <2>. QED
      BY <1>2, <1>3, <2>1, <2>2 DEF TcpInv
  <1>6. \A c, d \in Callers : c # d /\ StoresOne(c)' /\ StoresOne(d)' =>
          tasks'[c][1].t \in clashed' /\ tasks'[d][1].t \in clashed'
    BY <1>3, <1>5
  <1>7. EntryPointsExclusive'
    BY <1>2 DEF TcpInv, EntryPointsExclusive
  <1>8. \A c \in Callers : StoresNone(tasks[c])' \/ StoresOne(c)'
    BY <1>4, <1>5
  <1>. QED
    BY <1>2, <1>3, <1>6, <1>7, <1>8, SameRoutes DEF TcpInv

LEMMA StoreTcpInv ==
  ASSUME TcpInv, NEW a \in Callers, StoreTcpRoute(a)
  PROVE  TcpInv'
  <1>1. StoresOne(a)
    <2>1. ~StoresNone(tasks[a])
      <3> SUFFICES ASSUME StoresNone(tasks[a]) PROVE FALSE
        OBVIOUS
      <3>1. tasks[a] # <<>> /\ Head(Now(a).do) = "store"
        BY DEF StoreTcpRoute, On
      <3>2. Now(a) \in Range(tasks[a])
        BY <3>1, HeadTailProperties DEF StoresNone, Now
      <3>3. Now(a).do \in TaskStages
        BY <3>2 DEF StoresNone, StoresNot
      <3>. QED
        BY <3>1, <3>3 DEF TaskStages
    <2>. QED
      BY <2>1 DEF TcpInv
  <1>0. PICK t \in TcpRoutes : \E b \in RouteBodies(t) : \E new \in BOOLEAN :
          tasks[a] = << [do |-> <<"store">>, t |-> t, b |-> b, new |-> new] >> /\ Free(t, b)
    BY <1>1 DEF StoresOne
  <1>2. PICK b \in RouteBodies(t), new \in BOOLEAN :
          tasks[a] = << [do |-> <<"store">>, t |-> t, b |-> b, new |-> new] >> /\ Free(t, b)
    BY <1>0
  <1>3. Now(a) = [do |-> <<"store">>, t |-> t, b |-> b, new |-> new] /\ clashed' = clashed
    BY <1>2 DEF Now, StoreTcpRoute
  <1>4. CASE new = (route[t] = Absent)
    <2>1. route' = [route EXCEPT ![t] = b] /\ t \in Routes
      BY <1>3, <1>4 DEF StoreTcpRoute, StoreAndGenerate, Routes
    <2>2. PICK todo : StoresNone(todo) /\ tasks' = [tasks EXCEPT ![a] = todo]
      <3>1. StoresNot(Generate(t, b))
        BY DEF Generate, StoresNot, TaskStages
      <3>. QED
        <4>1. StoresNone(<< Generate(t, b) >>) /\ StoresNone(<<>>)
          BY <3>1, OneTask
        <4>2. tasks' = [tasks EXCEPT ![a] = IF t \in Followed THEN << Generate(t, b) >> ELSE <<>>]
          BY <1>3, <1>4 DEF StoreTcpRoute, StoreAndGenerate, BeginOn, Begin
        <4>. QED
          BY <4>1, <4>2
    <2>3. /\ route' \in [Routes -> Range(route')] /\ route'[t] = b
          /\ \A u \in Routes \ {t} : route'[u] = route[u]
      BY <2>1, RouteShapes
    <2>4. /\ tasks' \in [Callers -> Range(tasks')] /\ tasks'[a] = todo
          /\ \A c \in Callers \ {a} : tasks'[c] = tasks[c]
      BY <2>2, Shapes
    <2>5. EntryPointsExclusive'
      BY <1>2, <1>3, <2>3 DEF TcpInv, EntryPointsExclusive, Free, Routes
    <2>6. ASSUME NEW c \in Callers \ {a}, StoresOne(c)
          PROVE  StoresOne(c)'
      <3>1. tasks[c][1].t \in clashed /\ t \in clashed
        BY <1>1, <1>2, <2>6 DEF TcpInv
      <3>2. PICK u \in TcpRoutes : \E d \in RouteBodies(u) : \E n \in BOOLEAN :
              tasks[c] = << [do |-> <<"store">>, t |-> u, b |-> d, new |-> n] >>
        BY <2>6 DEF StoresOne
      <3>3. u \in clashed'
        BY <1>3, <3>1, <3>2
      <3>. QED
        BY <2>4, <3>2, <3>3 DEF StoresOne, Free
    <2>7. \A c \in Callers : StoresOne(c)' => c # a /\ StoresOne(c)
      <3>1. ~StoresOne(a)'
        BY <2>2, <2>4, NotBoth DEF StoresOne
      <3>2. ASSUME NEW c \in Callers \ {a}, StoresOne(c)' PROVE StoresOne(c)
        <4>1. PICK task : tasks'[c] = <<task>> /\ task.do = <<"store">>
          BY <3>2 DEF StoresOne
        <4>2. ~StoresNone(tasks[c])
          BY <2>4, <4>1, NotBoth
        <4>. QED
          BY <4>2 DEF TcpInv
      <3>. QED
        BY <3>1, <3>2
    <2>8. \A c \in Callers : StoresNone(tasks[c])' \/ StoresOne(c)'
      BY <2>2, <2>4, <2>6 DEF TcpInv
    <2>9. \A c, d \in Callers : c # d /\ StoresOne(c)' /\ StoresOne(d)' =>
            tasks'[c][1].t \in clashed' /\ tasks'[d][1].t \in clashed'
      BY <1>3, <2>4, <2>7 DEF TcpInv
    <2>. QED
      BY <2>3, <2>4, <2>5, <2>8, <2>9 DEF TcpInv
  <1>5. CASE new # (route[t] = Absent)
    <2>1. Finish(a, <<>>, <<>>) /\ UNCHANGED route
      BY <1>3, <1>5 DEF StoreTcpRoute, Abandon
    <2>2. tasks' = [tasks EXCEPT ![a] = <<>>]
      BY <1>2, <2>1 DEF Finish
    <2>. QED
      BY <1>3, <2>1, <2>2, ListingTasks, Shapes, SameRoutes, QuietTcp
  <1>. QED
    BY <1>4, <1>5

(* The sync loop, deaths and starts. *)
LEMMA OthersTcpInv ==
  ASSUME TcpInv, SyncMembers \/ DieRouting \/ BootRouting
  PROVE  TcpInv'
  <1> USE DEF routing
  <1>1. CASE SyncMembers
    <2>1. UNCHANGED <<tasks, route, clashed>>
      BY <1>1 DEF SyncMembers, ChangePhase, PruneMember, ImportMember
    <2>. QED
      BY <2>1, SameTasks, SameRoutes, QuietTcp
  <1>2. CASE DieRouting
    <2>1. tasks' = [a \in Callers |-> <<>>] /\ UNCHANGED <<route, clashed>>
      BY <1>2 DEF DieRouting, Forget
    <2>2. tasks' \in [Callers -> Range(tasks')]
      BY <2>1 DEF Range
    <2>. QED
      BY <2>1, <2>2, ListingTasks, SameRoutes, QuietTcp
  <1>3. CASE BootRouting
    <2>1. Main \in Callers
      BY DEF Callers
    <2>2. tasks' = [tasks EXCEPT ![Main] = Regenerate_] /\ UNCHANGED <<route, clashed>>
      BY <1>3 DEF BootRouting, Begin
    <2>. QED
      BY <2>1, <2>2, ListingTasks, Shapes, SameRoutes, QuietTcp
  <1>. QED
    BY <1>1, <1>2, <1>3

LEMMA InitTcpInv == TraefikInit => TcpInv
  <1> SUFFICES ASSUME TraefikInit PROVE TcpInv
    OBVIOUS
  <1>1. tasks = [a \in Callers |-> <<>>] /\ route = [r \in Routes |-> Absent]
    BY DEF TraefikInit
  <1>2. tasks \in [Callers -> Range(tasks)] /\ route \in [Routes -> Range(route)]
    BY <1>1 DEF Range
  <1>3. \A a \in Callers : StoresNone(tasks[a])
    BY <1>1, ListingTasks
  <1>4. \A a \in Callers : ~StoresOne(a)
    BY <1>1 DEF StoresOne
  <1>5. EntryPointsExclusive
    BY <1>1 DEF EntryPointsExclusive, Routes
  <1>. QED
    BY <1>2, <1>3, <1>4, <1>5 DEF TcpInv

LEMMA NextTcpInv == TcpInv /\ [TraefikNext]_traefikVars => TcpInv'
  <1> SUFFICES ASSUME TcpInv, [TraefikNext]_traefikVars PROVE TcpInv'
    OBVIOUS
  <1>1. CASE UNCHANGED traefikVars
    <2>1. UNCHANGED <<tasks, route, clashed>>
      BY <1>1 DEF traefikVars, routing
    <2>. QED
      BY <2>1, SameTasks, SameRoutes, QuietTcp
  <1>2. ASSUME NEW a \in Clients, RoutingCalls(a) PROVE TcpInv'
    <2>1. a \in Callers
      BY DEF Callers
    <2>. QED
      BY <1>2, <2>1, CallsTcpInv, CheckTcpInv
  <1>3. ASSUME NEW a \in Callers, RoutingStep(a) PROVE TcpInv'
    BY <1>3, StagesTcpInv, StoreTcpInv
  <1>4. CASE SyncMembers \/ DieRouting \/ BootRouting
    BY <1>4, OthersTcpInv
  <1>. QED
    BY <1>1, <1>2, <1>3, <1>4 DEF TraefikNext

(* ingressRouteTCPConflict looks before the route is stored and no lock is *)
(* held between: still, routes whose checks did not overlap never share an *)
(* entry point.                                                            *)
THEOREM TcpRoutesAreExclusive == TraefikSpec => []EntryPointsExclusive
  <1>1. TcpInv => EntryPointsExclusive
    BY DEF TcpInv
  <1>. QED
    BY <1>1, InitTcpInv, NextTcpInv, PTL DEF TraefikSpec
---------------------------------------------------------------------------
(* Lists in order *)

LEMMA InOrderIf ==
  ASSUME NEW R, NEW todo \in Seq(R),
         \A j, k \in 1..Len(todo) : j < k => Rank(todo[j]) <= Rank(todo[k]) /\ Unmade(todo[k])
  PROVE  InOrder(todo) /\ Range(todo) \subseteq R
  <1>1. /\ Len(todo) \in Nat /\ DOMAIN todo = 1..Len(todo)
        /\ \A j \in 1..Len(todo) : todo[j] \in R /\ todo[j] \in Range(todo)
        /\ todo = [j \in 1..Len(todo) |-> todo[j]]
    BY DEF Range
  <1>2. todo \in [1..Len(todo) -> Range(todo)]
    BY <1>1
  <1>3. todo \in Seq(Range(todo))
    BY <1>1, <1>2, SeqDef
  <1>. QED
    BY <1>1, <1>3 DEF InOrder, Range

LEMMA ShortLists ==
  /\ InOrder(<<>>) /\ Range(<<>>) = {}
  /\ \A task : InOrder(<<task>>) /\ Range(<<task>>) = {task}
  <1>1. InOrder(<<>>) /\ Range(<<>>) = {}
    <2>1. <<>> \in Seq({}) /\ \A j, k \in 1..Len(<<>>) : ~(j < k)
      OBVIOUS
    <2>2. InOrder(<<>>) /\ Range(<<>>) \subseteq {}
      BY <2>1, InOrderIf
    <2>. QED
      BY <2>2
  <1>2. ASSUME NEW task PROVE InOrder(<<task>>) /\ Range(<<task>>) = {task}
    <2>1. <<task>> \in Seq({task}) /\ \A j, k \in 1..Len(<<task>>) : ~(j < k)
      OBVIOUS
    <2>2. InOrder(<<task>>)
      BY <2>1, InOrderIf
    <2>. QED
      BY <2>1, <2>2 DEF Range
  <1>. QED
    BY <1>1, <1>2

(* The first task comes before the others, and these are untouched yet. *)
LEMMA TailInOrder ==
  ASSUME NEW todo, InOrder(todo), todo # <<>>
  PROVE  /\ InOrder(Tail(todo)) /\ Range(todo) = {Head(todo)} \cup Range(Tail(todo))
         /\ todo[1] = Head(todo)
         /\ \A task \in Range(Tail(todo)) : Rank(Head(todo)) <= Rank(task) /\ Unmade(task)
  <1> DEFINE n == Len(todo)
             R == Range(todo)
  <1>1. todo \in Seq(R) /\ n \in Nat \ {0} /\ DOMAIN todo = 1..n /\ \A j \in 1..n : todo[j] \in R
    BY DEF InOrder, Range
  <1>2. \A j, k \in 1..n : j < k => Rank(todo[j]) <= Rank(todo[k]) /\ Unmade(todo[k])
    BY <1>1 DEF InOrder
  <1>3. Tail(todo) \in Seq(R) /\ Len(Tail(todo)) = n - 1 /\ \A j \in 1..(n - 1) : Tail(todo)[j] = todo[j + 1]
    BY <1>1
  <1>4. Head(todo) = todo[1]
    BY <1>1
  <1>5. DOMAIN Tail(todo) = 1..(n - 1)
    BY <1>3
  <1>6. \A x : x \in R <=> \E j \in 1..n : x = todo[j]
    BY <1>1 DEF Range
  <1>7. \A x : x \in Range(Tail(todo)) <=> \E j \in 1..(n - 1) : x = todo[j + 1]
    BY <1>3, <1>5 DEF Range
  <1> HIDE DEF n, R
  <1>8. InOrder(Tail(todo))
    <2>1. \A j, k \in 1..(n - 1) : j < k => Rank(todo[j + 1]) <= Rank(todo[k + 1]) /\ Unmade(todo[k + 1])
      BY <1>1, <1>2
    <2>. QED
      BY <1>3, <2>1, InOrderIf
  <1>9. R = {todo[1]} \cup Range(Tail(todo))
    <2>1. \A j \in 1..n : j = 1 \/ (j - 1 \in 1..(n - 1) /\ j = (j - 1) + 1)
      BY <1>1
    <2>2. 1 \in 1..n /\ \A j \in 1..(n - 1) : j + 1 \in 1..n
      BY <1>1
    <2>. QED
      BY <1>6, <1>7, <2>1, <2>2
  <1>10. \A j \in 1..(n - 1) : Rank(todo[1]) <= Rank(todo[j + 1]) /\ Unmade(todo[j + 1])
    <2>1. \A j \in 1..(n - 1) : j + 1 \in 1..n /\ 1 < j + 1 /\ 1 \in 1..n
      BY <1>1
    <2>. QED
      BY <1>2, <2>1
  <1>. QED
    BY <1>4, <1>7, <1>8, <1>9, <1>10 DEF R

LEMMA JoinInOrder ==
  ASSUME NEW s, NEW u, InOrder(s), InOrder(u),
         \A x \in Range(s), y \in Range(u) : Rank(x) <= Rank(y) /\ Unmade(y)
  PROVE  InOrder(s \o u) /\ Range(s \o u) = Range(s) \cup Range(u)
  <1> DEFINE m == Len(s)
             n == Len(u)
             R == Range(s) \cup Range(u)
  <1>1. /\ s \in Seq(R) /\ u \in Seq(R) /\ m \in Nat /\ n \in Nat
        /\ DOMAIN s = 1..m /\ DOMAIN u = 1..n
    <2>1. /\ s \in Seq(Range(s)) /\ u \in Seq(Range(u)) /\ m \in Nat /\ n \in Nat
          /\ DOMAIN s = 1..m /\ DOMAIN u = 1..n
      BY DEF InOrder
    <2>2. Range(s) \subseteq R /\ Range(u) \subseteq R
      OBVIOUS
    <2> HIDE DEF R, m, n
    <2>. QED
      BY <2>1, <2>2, SeqWiden
  <1>2. /\ \A j, k \in 1..m : j < k => Rank(s[j]) <= Rank(s[k]) /\ Unmade(s[k])
        /\ \A j, k \in 1..n : j < k => Rank(u[j]) <= Rank(u[k]) /\ Unmade(u[k])
        /\ \A j \in 1..m, k \in 1..n : Rank(s[j]) <= Rank(u[k]) /\ Unmade(u[k])
    <2>1. (\A j \in 1..m : s[j] \in Range(s)) /\ \A k \in 1..n : u[k] \in Range(u)
      BY <1>1 DEF Range
    <2> HIDE DEF m, n
    <2>2. /\ \A j, k \in 1..m : j < k => Rank(s[j]) <= Rank(s[k]) /\ Unmade(s[k])
          /\ \A j, k \in 1..n : j < k => Rank(u[j]) <= Rank(u[k]) /\ Unmade(u[k])
      BY <1>1 DEF InOrder
    <2>. QED
      BY <2>1, <2>2
  <1>3. /\ s \o u \in Seq(R) /\ Len(s \o u) = m + n
        /\ \A j \in 1..(m + n) : (s \o u)[j] = IF j <= m THEN s[j] ELSE u[j - m]
    BY <1>1
  <1>4. /\ \A x : x \in Range(s) <=> \E j \in 1..m : x = s[j]
        /\ \A x : x \in Range(u) <=> \E j \in 1..n : x = u[j]
        /\ \A x : x \in Range(s \o u) <=> \E j \in 1..(m + n) : x = (s \o u)[j]
    <2>1. DOMAIN (s \o u) = 1..(m + n)
      BY <1>3
    <2>. QED
      BY <1>1, <2>1 DEF Range
  <1> HIDE DEF m, n, R
  <1>5. \A j, k \in 1..(m + n) : j < k => Rank((s \o u)[j]) <= Rank((s \o u)[k]) /\ Unmade((s \o u)[k])
    <2> SUFFICES ASSUME NEW j \in 1..(m + n), NEW k \in 1..(m + n), j < k
                 PROVE  Rank((s \o u)[j]) <= Rank((s \o u)[k]) /\ Unmade((s \o u)[k])
      OBVIOUS
    <2>1. CASE k <= m
      <3>1. j \in 1..m /\ k \in 1..m
        BY <1>1, <2>1
      <3>. QED
        BY <1>1, <1>2, <1>3, <2>1, <3>1
    <2>2. CASE j <= m /\ k > m
      <3>1. j \in 1..m /\ k - m \in 1..n
        BY <1>1, <2>2
      <3>. QED
        BY <1>1, <1>2, <1>3, <2>2, <3>1
    <2>3. CASE j > m
      <3>1. j - m \in 1..n /\ k - m \in 1..n /\ j - m < k - m
        BY <1>1, <2>3
      <3>. QED
        BY <1>1, <1>2, <1>3, <2>3, <3>1
    <2>. QED
      BY <1>1, <2>1, <2>2, <2>3
  <1>6. InOrder(s \o u)
    BY <1>3, <1>5, InOrderIf
  <1>7. Range(s \o u) = Range(s) \cup Range(u)
    <2>1. ASSUME NEW j \in 1..(m + n) PROVE (s \o u)[j] \in Range(s) \cup Range(u)
      <3>1. j <= m => j \in 1..m
        BY <1>1
      <3>2. j > m => j - m \in 1..n
        BY <1>1
      <3>. QED
        BY <1>1, <1>3, <1>4, <3>1, <3>2
    <2>2. ASSUME NEW j \in 1..m PROVE s[j] \in Range(s \o u)
      <3>1. j \in 1..(m + n) /\ (s \o u)[j] = s[j]
        BY <1>1, <1>3
      <3>. QED
        BY <1>4, <3>1
    <2>3. ASSUME NEW j \in 1..n PROVE u[j] \in Range(s \o u)
      <3>1. m + j \in 1..(m + n) /\ ~(m + j <= m) /\ (m + j) - m = j
        BY <1>1
      <3>2. (s \o u)[m + j] = u[j]
        BY <1>3, <3>1
      <3>. QED
        BY <1>4, <3>1, <3>2
    <2>. QED
      BY <1>4, <2>1, <2>2, <2>3
  <1>. QED
    BY <1>6, <1>7

(* A list of tasks of one rank. *)
LEMMA AlikeInOrder ==
  ASSUME NEW R, NEW todo \in Seq(R), NEW n \in Nat, \A x \in R : Rank(x) = n /\ Unmade(x)
  PROVE  InOrder(todo) /\ Range(todo) \subseteq R
  <1>1. \A j \in 1..Len(todo) : todo[j] \in R
    OBVIOUS
  <1>2. \A j, k \in 1..Len(todo) : j < k => Rank(todo[j]) <= Rank(todo[k]) /\ Unmade(todo[k])
    BY <1>1
  <1>. QED
    BY <1>2, InOrderIf

(* The tasks of requests and of startup. *)
Plain(task) == ~OnFile(task) /\ ~ListsRoutes(task) /\ ~Generates(task) /\ ~Removes(task) /\ Unmade(task)

LEMMA FileTasks ==
  ASSUME NEW r \in Routes, NEW b
  PROVE  /\ LET task == Generate(r, b)
            IN  /\ OnFile(task) /\ Generates(task) /\ ~Removes(task) /\ ~ListsRoutes(task) /\ ~Removal(task)
                /\ Rank(task) = 0 /\ Unmade(task) /\ task.r = r /\ task.b = b /\ "do" \in DOMAIN task
                /\ task.do \in {<<"write">>, <<"resolve", "write">>}
         /\ LET task == Unroute(r)
            IN  /\ OnFile(task) /\ ~Generates(task) /\ Removes(task) /\ ~ListsRoutes(task) /\ Removal(task)
                /\ Rank(task) = 0 /\ Unmade(task) /\ task.r = r /\ task.do = <<"remove">> /\ "do" \in DOMAIN task
  <1>1. LET task == Generate(r, b)
        IN  /\ OnFile(task) /\ Generates(task) /\ ~Removes(task) /\ ~ListsRoutes(task) /\ ~Removal(task)
            /\ Rank(task) = 0 /\ Unmade(task) /\ task.r = r /\ task.b = b /\ "do" \in DOMAIN task
            /\ task.do \in {<<"write">>, <<"resolve", "write">>}
    BY DEF Generate, OnFile, Generates, Removes, ListsRoutes, Removal, Rank, Unmade, Render
  <1>2. LET task == Unroute(r)
        IN  /\ OnFile(task) /\ ~Generates(task) /\ Removes(task) /\ ~ListsRoutes(task) /\ Removal(task)
            /\ Rank(task) = 0 /\ Unmade(task) /\ task.r = r /\ task.do = <<"remove">> /\ "do" \in DOMAIN task
    BY DEF Unroute, OnFile, Generates, Removes, ListsRoutes, Removal, Rank, Unmade
  <1>. QED
    BY <1>1, <1>2

LEMMA OtherTasks ==
  /\ \A R : \A do \in {"generate", "remove"} :
       LET task == Listing(R, do)
       IN  /\ ~OnFile(task) /\ ~Generates(task) /\ ~Removes(task) /\ ListsRoutes(task)
           /\ (Removal(task) <=> do = "remove")
           /\ Rank(task) = 2 /\ Unmade(task) /\ task.of = R /\ task.do = <<"list">> /\ "do" \in DOMAIN task
  /\ \A p, spec : LET task == PodTask(p, spec)
                  IN  Plain(task) /\ ~Removal(task) /\ Rank(task) = 1 /\ task.do = <<"pod">> /\ "do" \in DOMAIN task
  /\ \A s : LET task == [do |-> <<"unpost">>, s |-> s]
            IN  Plain(task) /\ ~Removal(task) /\ Rank(task) = 1 /\ task.do = <<"unpost">> /\ "do" \in DOMAIN task
  /\ LET task == [do |-> <<"purge">>]
     IN  Plain(task) /\ Removal(task) /\ Rank(task) = 3 /\ task.do = <<"purge">> /\ "do" \in DOMAIN task
  /\ \A t, b, new : LET task == [do |-> <<"store">>, t |-> t, b |-> b, new |-> new]
                    IN  /\ Plain(task) /\ ~Removal(task) /\ Rank(task) = 1
                        /\ task.do = <<"store">> /\ task.t = t /\ "do" \in DOMAIN task
  <1>1. ASSUME NEW R, NEW do \in {"generate", "remove"}
        PROVE  LET task == Listing(R, do)
               IN  /\ ~OnFile(task) /\ ~Generates(task) /\ ~Removes(task) /\ ListsRoutes(task)
                   /\ (Removal(task) <=> do = "remove")
                   /\ Rank(task) = 2 /\ Unmade(task) /\ task.of = R /\ task.do = <<"list">> /\ "do" \in DOMAIN task
    BY DEF Listing, OnFile, Generates, Removes, ListsRoutes, Removal, Rank, Unmade
  <1>2. ASSUME NEW p, NEW spec
        PROVE  LET task == PodTask(p, spec)
               IN  Plain(task) /\ ~Removal(task) /\ Rank(task) = 1 /\ task.do = <<"pod">> /\ "do" \in DOMAIN task
    BY DEF PodTask, Plain, OnFile, Generates, Removes, ListsRoutes, Removal, Rank, Unmade
  <1>3. ASSUME NEW s
        PROVE  LET task == [do |-> <<"unpost">>, s |-> s]
               IN  Plain(task) /\ ~Removal(task) /\ Rank(task) = 1 /\ task.do = <<"unpost">> /\ "do" \in DOMAIN task
    BY DEF Plain, OnFile, Generates, Removes, ListsRoutes, Removal, Rank, Unmade
  <1>4. LET task == [do |-> <<"purge">>]
        IN  Plain(task) /\ Removal(task) /\ Rank(task) = 3 /\ task.do = <<"purge">> /\ "do" \in DOMAIN task
    BY DEF Plain, OnFile, Generates, Removes, ListsRoutes, Removal, Rank, Unmade
  <1>5. ASSUME NEW t, NEW b, NEW new
        PROVE  LET task == [do |-> <<"store">>, t |-> t, b |-> b, new |-> new]
               IN  /\ Plain(task) /\ ~Removal(task) /\ Rank(task) = 1
                   /\ task.do = <<"store">> /\ task.t = t /\ "do" \in DOMAIN task
    BY DEF Plain, OnFile, Generates, Removes, ListsRoutes, Removal, Rank, Unmade
  <1>. QED
    BY <1>1, <1>2, <1>3, <1>4, <1>5

(* The listings that requests and startup begin with. *)
Lost == {Listing(R, "remove") : R \in {Q \in {Ingresses, TcpRoutes, Middlewares} : Q \cap Followed # {}}}

LEMMA EveryInOrder ==
  ASSUME NEW R, NEW do \in {"generate", "remove"}
  PROVE  InOrder(Every(R, do)) /\ Range(Every(R, do)) = IF R \cap Followed = {} THEN {} ELSE {Listing(R, do)}
  BY ShortLists DEF Every

LEMMA ListingsInOrder ==
  /\ InOrder(Regenerate_) /\ Range(Regenerate_) = Listings
  /\ InOrder(PurgeListings \o << [do |-> <<"purge">>] >>)
  /\ Range(PurgeListings \o << [do |-> <<"purge">>] >>) = Lost \cup {[do |-> <<"purge">>]}
  <1>1. ASSUME NEW do \in {"generate", "remove"}, NEW A, NEW B, NEW C
        PROVE  LET all == (Every(A, do) \o Every(B, do)) \o Every(C, do)
               IN  /\ InOrder(all)
                   /\ Range(all) = {Listing(R, do) : R \in {Q \in {A, B, C} : Q \cap Followed # {}}}
    <2> DEFINE ab == Every(A, do) \o Every(B, do)
               all == ab \o Every(C, do)
    <2>1. \A R : \A task \in Range(Every(R, do)) : Rank(task) = 2 /\ Unmade(task)
      BY EveryInOrder, OtherTasks
    <2>2. InOrder(ab) /\ Range(ab) = Range(Every(A, do)) \cup Range(Every(B, do))
      BY <2>1, EveryInOrder, JoinInOrder
    <2> HIDE DEF ab
    <2>3. InOrder(all) /\ Range(all) = Range(ab) \cup Range(Every(C, do))
      BY <2>1, <2>2, EveryInOrder, JoinInOrder
    <2>4. Range(all) = {Listing(R, do) : R \in {Q \in {A, B, C} : Q \cap Followed # {}}}
      BY <2>2, <2>3, EveryInOrder
    <2>. QED
      BY <2>3, <2>4 DEF all, ab
  <1>2. InOrder(Regenerate_) /\ Range(Regenerate_) = Listings
    BY <1>1 DEF Regenerate_, Listings
  <1>3. InOrder(PurgeListings) /\ Range(PurgeListings) = Lost
    <2>1. {Ingresses, Middlewares, TcpRoutes} = {Ingresses, TcpRoutes, Middlewares}
      OBVIOUS
    <2>. QED
      BY <1>1, <2>1 DEF PurgeListings, Lost
  <1>4. \A task \in Lost : Rank(task) = 2
    BY OtherTasks DEF Lost
  <1> DEFINE last == << [do |-> <<"purge">>] >>
  <1>5. InOrder(last) /\ Range(last) = {[do |-> <<"purge">>]}
    BY ShortLists
  <1>6. \A task \in Range(last) : Rank(task) = 3 /\ Unmade(task)
    BY <1>5, OtherTasks DEF Plain
  <1> HIDE DEF last
  <1>7. InOrder(PurgeListings \o last) /\ Range(PurgeListings \o last) = Range(PurgeListings) \cup Range(last)
    BY <1>3, <1>4, <1>5, <1>6, JoinInOrder
  <1>. QED
    BY <1>2, <1>3, <1>5, <1>7 DEF last

(* What requests and startup begin with keeps to the order. *)
Sound(todo) == InOrder(todo) /\ Coherent(Range(todo))

LEMMA NewLists ==
  /\ Sound(<<>>)
  /\ Sound(Regenerate_)
  /\ Sound(PurgeListings \o << [do |-> <<"purge">>] >>)
  /\ \A s : Sound(<< [do |-> <<"unpost">>, s |-> s] >>)
  /\ \A t \in TcpRoutes : \A b, new : Sound(<< [do |-> <<"store">>, t |-> t, b |-> b, new |-> new] >>)
  /\ \A r \in Routes : \A b : Sound(<< Generate(r, b) >>) /\ Sound(<< Unroute(r) >>)
  <1>1. Sound(<<>>)
    BY ShortLists DEF Sound, Coherent
  <1>2. \A task \in Listings : ~OnFile(task) /\ ListsRoutes(task) /\ ~Removal(task) /\ task.do = <<"list">> /\ "do" \in DOMAIN task
    BY OtherTasks DEF Listings
  <1>3. \A task \in Lost : ~OnFile(task) /\ ListsRoutes(task) /\ Removal(task) /\ task.do = <<"list">> /\ "do" \in DOMAIN task
    BY OtherTasks DEF Lost
  <1>4. Coherent(Listings)
    BY <1>2 DEF Coherent, Removal
  <1>5. Coherent(Lost \cup {[do |-> <<"purge">>]})
    <2> DEFINE purge == [do |-> <<"purge">>]
    <2>1. ~OnFile(purge) /\ Changes(purge) /\ Removal(purge) /\ purge.do = <<"purge">> /\ "do" \in DOMAIN purge
      BY OtherTasks DEF Plain, Changes
    <2> HIDE DEF purge
    <2>2. Coherent(Lost \cup {purge})
      BY <1>3, <2>1 DEF Coherent
    <2>. QED
      BY <2>2 DEF purge
  <1>6. ASSUME NEW s PROVE Sound(<< [do |-> <<"unpost">>, s |-> s] >>)
    <2> DEFINE unpost == [do |-> <<"unpost">>, s |-> s]
    <2>1. ~OnFile(unpost) /\ ~Removal(unpost) /\ unpost.do = <<"unpost">> /\ "do" \in DOMAIN unpost
      BY OtherTasks DEF Plain
    <2> HIDE DEF unpost
    <2>2. Sound(<<unpost>>)
      BY <2>1, ShortLists DEF Sound, Coherent, Changes, ListsRoutes
    <2>. QED
      BY <2>2 DEF unpost
  <1>7. ASSUME NEW t \in TcpRoutes, NEW b, NEW new
        PROVE  Sound(<< [do |-> <<"store">>, t |-> t, b |-> b, new |-> new] >>)
    <2> DEFINE store == [do |-> <<"store">>, t |-> t, b |-> b, new |-> new]
    <2>1. ~OnFile(store) /\ ~Removal(store) /\ store.do = <<"store">> /\ "do" \in DOMAIN store /\ store.t \in TcpRoutes
      BY OtherTasks DEF Plain
    <2> HIDE DEF store
    <2>2. Sound(<<store>>)
      BY <2>1, ShortLists DEF Sound, Coherent, Changes, ListsRoutes
    <2>. QED
      BY <2>2 DEF store
  <1>8. ASSUME NEW r \in Routes, NEW b PROVE Sound(<< Generate(r, b) >>) /\ Sound(<< Unroute(r) >>)
    <2> DEFINE made == Generate(r, b)
               gone == Unroute(r)
    <2>1. /\ OnFile(made) /\ Generates(made) /\ ~Removal(made) /\ made.r = r /\ "do" \in DOMAIN made
          /\ made.do \in {<<"write">>, <<"resolve", "write">>}
          /\ OnFile(gone) /\ Removes(gone) /\ Removal(gone) /\ gone.r = r /\ gone.do = <<"remove">> /\ "do" \in DOMAIN gone
      BY FileTasks
    <2> HIDE DEF made, gone
    <2>2. Sound(<<made>>) /\ Sound(<<gone>>)
      BY <2>1, ShortLists DEF Sound, Coherent, ListsRoutes
    <2>. QED
      BY <2>2 DEF made, gone
  <1>. QED
    BY <1>1, <1>4, <1>5, <1>6, <1>7, <1>8, ListingsInOrder DEF Sound

(* The pods of a request, then every file. *)
PodsThenFiles(P, spec) ==
  [j \in 1..Len(SetToSeq(P)) |-> PodTask(SetToSeq(P)[j], spec)] \o Regenerate_

LEMMA PodLists ==
  ASSUME NEW P, IsFiniteSet(P), NEW spec
  PROVE  /\ Sound(PodsThenFiles(P, spec)) /\ Listings \subseteq Range(PodsThenFiles(P, spec))
         /\ \A task \in Range(PodsThenFiles(P, spec)) : ~OnFile(task) /\ task.do # <<"purge">>
  <1> DEFINE ps == SetToSeq(P)
             R == {PodTask(p, spec) : p \in P}
             first == [j \in 1..Len(ps) |-> PodTask(ps[j], spec)]
             todo == first \o Regenerate_
  <1>1. ps \in Seq(P)
    BY SetToSeqIsSeq
  <1> HIDE DEF ps
  <1>2. first \in Seq(R)
    BY <1>1
  <1>3. \A task \in R : ~OnFile(task) /\ task.do = <<"pod">> /\ ~Removal(task) /\ Rank(task) = 1 /\ Unmade(task) /\ "do" \in DOMAIN task
    BY OtherTasks DEF Plain
  <1>4. \A task \in Listings : /\ ~OnFile(task) /\ ListsRoutes(task) /\ ~Removal(task) /\ task.do = <<"list">>
                               /\ Rank(task) = 2 /\ Unmade(task) /\ "do" \in DOMAIN task
    BY OtherTasks DEF Listings
  <1> HIDE DEF R, first
  <1>5. InOrder(first) /\ Range(first) \subseteq R
    BY <1>2, <1>3, AlikeInOrder
  <1>6. InOrder(todo) /\ Range(todo) = Range(first) \cup Listings
    BY <1>3, <1>4, <1>5, ListingsInOrder, JoinInOrder
  <1>7. Coherent(Range(first) \cup Listings)
    <2>1. \A task \in R : ~ListsRoutes(task)
      BY <1>3 DEF ListsRoutes
    <2>2. \A task \in Listings : task.then # "remove"
      BY <1>4 DEF Removal
    <2>3. \A task \in Range(first) \cup Listings :
            /\ "do" \in DOMAIN task /\ (ListsRoutes(task) \/ Changes(task)) /\ ~OnFile(task) /\ ~Removal(task)
            /\ ~(ListsRoutes(task) /\ task.then = "remove") /\ task.do # <<"store">>
      <3>1. \A task \in R : /\ "do" \in DOMAIN task /\ Changes(task) /\ ~OnFile(task) /\ ~Removal(task)
                            /\ ~ListsRoutes(task) /\ task.do # <<"store">>
        <4>1. \A task \in R : Changes(task)
          BY <1>3 DEF Changes
        <4>2. \A task \in R : task.do # <<"store">>
          BY <1>3
        <4>. QED
          BY <1>3, <2>1, <4>1, <4>2
      <3>2. \A task \in Listings : /\ "do" \in DOMAIN task /\ ListsRoutes(task) /\ ~OnFile(task) /\ ~Removal(task)
                                   /\ task.then # "remove" /\ task.do # <<"store">>
        BY <1>4, <2>2
      <3>. QED
        BY <1>5, <3>1, <3>2
    <2>. QED
      BY <2>3 DEF Coherent
  <1>8. \A task \in Range(todo) : ~OnFile(task) /\ task.do # <<"purge">>
    BY <1>3, <1>4, <1>5, <1>6
  <1>. QED
    BY <1>6, <1>7, <1>8 DEF Sound, PodsThenFiles, todo, first, ps

---------------------------------------------------------------------------
(* The steps of a list *)

ListsSound ==
  /\ tasks \in [Callers -> Range(tasks)]
  /\ \A a \in Callers : Sound(tasks[a])

(* The head task is done, those for the objects it found come instead. *)
LEMMA StepSound ==
  ASSUME ListsSound, NEW a \in Callers, tasks[a] # <<>>, NEW more, Finish(a, <<>>, more),
         InOrder(more), \A task \in Range(more) : Rank(task) = 0 /\ Unmade(task)
  PROVE  /\ InOrder(tasks'[a]) /\ Remaining(a) = {Now(a)} \cup Range(Tail(tasks[a]))
         /\ Remaining(a)' = Range(more) \cup Range(Tail(tasks[a]))
         /\ \A task \in Range(Tail(tasks[a])) : Rank(Now(a)) <= Rank(task) /\ Unmade(task)
         /\ \A c \in Callers \ {a} : tasks'[c] = tasks[c] /\ Remaining(c)' = Remaining(c)
         /\ tasks' \in [Callers -> Range(tasks')]
  <1>1. InOrder(tasks[a])
    BY DEF ListsSound, Sound
  <1>2. /\ InOrder(Tail(tasks[a])) /\ Range(tasks[a]) = {Head(tasks[a])} \cup Range(Tail(tasks[a]))
        /\ \A task \in Range(Tail(tasks[a])) : Rank(Head(tasks[a])) <= Rank(task) /\ Unmade(task)
    BY <1>1, TailInOrder
  <1>3. tasks' = [tasks EXCEPT ![a] = (<<>> \o more) \o Tail(tasks[a])]
    BY DEF Finish
  <1>4. <<>> \o more = more
    BY DEF InOrder
  <1>5. /\ tasks'[a] = more \o Tail(tasks[a]) /\ \A c \in Callers \ {a} : tasks'[c] = tasks[c]
        /\ tasks' \in [Callers -> Range(tasks')]
    <2>1. DOMAIN tasks' = Callers /\ tasks' = [c \in Callers |-> tasks'[c]]
      BY <1>3 DEF ListsSound
    <2>. QED
      BY <1>3, <1>4, <2>1 DEF ListsSound, Range
  <1>6. \A task : Rank(task) \in Nat
    BY DEF Rank
  <1>7. \A x \in Range(more), y \in Range(Tail(tasks[a])) : Rank(x) <= Rank(y) /\ Unmade(y)
    BY <1>2, <1>6
  <1>8. InOrder(more \o Tail(tasks[a])) /\ Range(more \o Tail(tasks[a])) = Range(more) \cup Range(Tail(tasks[a]))
    BY <1>2, <1>7, JoinInOrder
  <1>. QED
    BY <1>2, <1>5, <1>8 DEF Remaining, Now

(* What is left is of one kind, and its pods are still followed by every   *)
(* file: no pod comes after a listing.                                     *)
LEMMA RestCoherent ==
  ASSUME ListsSound, NEW a \in Callers, tasks[a] # <<>>,
         Remaining(a) = {Now(a)} \cup Range(Tail(tasks[a])),
         \A task \in Range(Tail(tasks[a])) : Rank(Now(a)) <= Rank(task)
  PROVE  Coherent(Range(Tail(tasks[a])))
  <1> DEFINE T == Range(Tail(tasks[a]))
  <1>1. Coherent(Remaining(a)) /\ Remaining(a) = {Now(a)} \cup T
    BY DEF ListsSound, Sound, Remaining
  <1>2. ASSUME NEW task \in T, task.do = <<"pod">> PROVE Listings \subseteq T
    <2>1. Rank(Now(a)) <= 1
      <3>1. Rank(task) <= 1
        BY <1>2 DEF Rank, ListsRoutes
      <3>2. Rank(Now(a)) <= Rank(task) /\ Rank(task) \in Nat /\ Rank(Now(a)) \in Nat
        BY DEF Rank
      <3>. QED
        BY <3>1, <3>2
    <2>2. Now(a) \notin Listings
      BY <2>1, OtherTasks DEF Listings
    <2>. QED
      BY <1>1, <1>2, <2>2 DEF Coherent
  <1>3. ASSUME NEW task \in T, ListsRoutes(task), task.then = "remove" PROVE \E last \in T : last.do = <<"purge">>
    <2>1. PICK last \in Remaining(a) : last.do = <<"purge">>
      BY <1>1, <1>3 DEF Coherent
    <2>2. Rank(task) = 2 \/ Rank(task) = 0
      BY <1>3 DEF Rank
    <2>3. ~OnFile(last)
      <3>1. ~Removes(last) /\ ~Generates(last) /\ ~ListsRoutes(last)
        BY <2>1 DEF Removes, Generates, ListsRoutes
      <3>. QED
        BY <1>1, <2>1, <3>1 DEF Coherent, Changes
    <2>4. Rank(last) = 3
      BY <2>1, <2>3 DEF Rank, ListsRoutes
    <2>5. last # Now(a)
      <3>1. Rank(Now(a)) <= Rank(task)
        OBVIOUS
      <3>. QED
        BY <2>2, <2>4, <3>1
    <2>. QED
      BY <1>1, <2>1, <2>5
  <1> HIDE DEF T
  <1>4. Coherent(T)
    BY <1>1, <1>2, <1>3 DEF Coherent
  <1>. QED
    BY <1>4 DEF T

LEMMA SoundLists == RoutingInv => ListsSound
  BY DEF RoutingInv, ListsSound, Sound, Remaining

LEMMA SoundTask ==
  ASSUME ListsSound, NEW a \in Callers, NEW task \in Remaining(a)
  PROVE  /\ "do" \in DOMAIN task
         /\ Removes(task) \/ Generates(task) \/ ListsRoutes(task) \/ Changes(task)
         /\ OnFile(task) => task.r \in Routes
         /\ (\A other \in Remaining(a) : Removal(other)) \/ (\A other \in Remaining(a) : ~Removal(other))
         /\ task.do = <<"pod">> => Listings \subseteq Remaining(a)
         /\ task.do = <<"store">> => Remaining(a) = {task} /\ task.t \in TcpRoutes
  BY DEF ListsSound, Sound, Coherent, Remaining

(* A head task has one stage left, but for a file yet to be resolved. *)
LEMMA HeadTask ==
  ASSUME ListsSound, NEW a \in Callers, NEW st, On(a, st)
  PROVE  /\ Now(a) \in Remaining(a) /\ tasks[a] # <<>> /\ Now(a) = tasks[a][1]
         /\ Now(a).do = <<st>> \/ (st = "resolve" /\ Now(a).do = <<"resolve", "write">> /\ Generates(Now(a)))
         /\ st \in {"resolve", "write"} => Generates(Now(a)) /\ OnFile(Now(a))
         /\ st = "remove" => Removes(Now(a)) /\ OnFile(Now(a))
         /\ st = "list" => ListsRoutes(Now(a)) /\ ~OnFile(Now(a))
         /\ st \notin {"resolve", "write", "remove", "list"} => ~OnFile(Now(a)) /\ ~ListsRoutes(Now(a))
  <1>1. tasks[a] # <<>> /\ Now(a).do # <<>> /\ Head(Now(a).do) = st
    BY DEF On
  <1>2. Now(a) \in Remaining(a) /\ Now(a) = tasks[a][1]
    BY <1>1, TailInOrder DEF ListsSound, Sound, Remaining, Now
  <1>3. Removes(Now(a)) \/ Generates(Now(a)) \/ ListsRoutes(Now(a)) \/ Changes(Now(a))
    BY <1>2, SoundTask
  <1>4. \A x : Head(<<x>>) = x
    OBVIOUS
  <1>5. Head(<<"resolve", "write">>) = "resolve"
    OBVIOUS
  <1>6. CASE Removes(Now(a))
    <2>1. OnFile(Now(a)) /\ Now(a).do = <<"remove">> /\ st = "remove"
      BY <1>1, <1>4, <1>6 DEF Removes, OnFile
    <2>. QED
      BY <1>1, <1>2, <1>6, <2>1
  <1>7. CASE Generates(Now(a))
    <2>1. OnFile(Now(a)) /\ Now(a).do \in {<<"write">>, <<"resolve", "write">>}
      BY <1>7 DEF Generates, OnFile
    <2>2. (st = "write" /\ Now(a).do = <<"write">>) \/ (st = "resolve" /\ Now(a).do = <<"resolve", "write">>)
      BY <1>1, <1>4, <1>5, <2>1
    <2>. QED
      BY <1>1, <1>2, <1>7, <2>1, <2>2
  <1>8. CASE ListsRoutes(Now(a))
    <2>1. ~OnFile(Now(a)) /\ Now(a).do = <<"list">> /\ st = "list"
      BY <1>1, <1>4, <1>8 DEF ListsRoutes, OnFile
    <2>. QED
      BY <1>1, <1>2, <1>8, <2>1
  <1>9. CASE Changes(Now(a))
    <2>1. ~OnFile(Now(a)) /\ \E x \in {"pod", "unpost", "purge", "store"} : Now(a).do = <<x>>
      BY <1>9 DEF Changes
    <2>2. st \in {"pod", "unpost", "purge", "store"} /\ Now(a).do = <<st>>
      BY <1>1, <1>4, <2>1
    <2>3. ~ListsRoutes(Now(a))
      BY <2>2 DEF ListsRoutes
    <2>. QED
      BY <1>1, <1>2, <2>1, <2>2, <2>3
  <1>. QED
    BY <1>3, <1>6, <1>7, <1>8, <1>9

(* A task that is done and leaves nothing behind. *)
LEMMA DropSound ==
  ASSUME ListsSound, UNCHANGED stage, NEW a \in Callers, NEW st, On(a, st), st # "resolve",
         Proceed(a) \/ Abandon(a)
  PROVE  /\ ListsSound' /\ Remaining(a) = {Now(a)} \cup Remaining(a)'
         /\ \A task \in Remaining(a)' : Rank(Now(a)) <= Rank(task) /\ Unmade(task)
         /\ \A c \in Callers \ {a} : Remaining(c)' = Remaining(c)
  <1>1. Now(a).do = <<st>> /\ tasks[a] # <<>>
    BY HeadTask
  <1>2. Tail(Now(a).do) = <<>>
    BY <1>1
  <1>3. Finish(a, <<>>, <<>>)
    BY <1>2 DEF Proceed, Abandon
  <1>4. InOrder(<<>>) /\ Range(<<>>) = {}
    BY ShortLists
  <1>5. /\ InOrder(tasks'[a]) /\ Remaining(a) = {Now(a)} \cup Range(Tail(tasks[a]))
        /\ Remaining(a)' = Range(Tail(tasks[a]))
        /\ \A task \in Range(Tail(tasks[a])) : Rank(Now(a)) <= Rank(task) /\ Unmade(task)
        /\ \A c \in Callers \ {a} : tasks'[c] = tasks[c] /\ Remaining(c)' = Remaining(c)
        /\ tasks' \in [Callers -> Range(tasks')]
    BY <1>1, <1>3, <1>4, StepSound
  <1>6. Coherent(Remaining(a)')
    BY <1>1, <1>5, RestCoherent
  <1>7. ListsSound'
    <2>1. Sound(tasks'[a])
      BY <1>5, <1>6 DEF Sound, Remaining
    <2>2. \A c \in Callers \ {a} : Sound(tasks'[c])
      BY <1>5 DEF ListsSound
    <2>3. \A todo : Sound(todo)' <=> Sound(todo)
      BY DEF Sound, InOrder, Coherent, Listings, Followed
    <2>. QED
      BY <1>5, <2>1, <2>2, <2>3 DEF ListsSound
  <1>. QED
    BY <1>5, <1>7

LEMMA BeginSound ==
  ASSUME ListsSound, UNCHANGED stage, NEW a \in Callers, NEW todo, Sound(todo),
         Begin(a, todo)
  PROVE  /\ ListsSound' /\ (tasks[a] = <<>> => Remaining(a) = {}) /\ Remaining(a)' = Range(todo)
         /\ \A c \in Callers \ {a} : Remaining(c)' = Remaining(c)
  <1>1. tasks' = [tasks EXCEPT ![a] = todo]
    BY DEF Begin
  <1>2. tasks'[a] = todo /\ (\A c \in Callers \ {a} : tasks'[c] = tasks[c]) /\ tasks' \in [Callers -> Range(tasks')]
    <2>1. DOMAIN tasks' = Callers /\ tasks' = [c \in Callers |-> tasks'[c]]
      BY <1>1 DEF ListsSound
    <2>. QED
      BY <1>1, <2>1 DEF ListsSound, Range
  <1>3. \A c \in Callers : Sound(tasks'[c])
    BY <1>2 DEF ListsSound
  <1>4. \A s : Sound(s)' <=> Sound(s)
    BY DEF Sound, InOrder, Coherent, Listings, Followed
  <1>. QED
    BY <1>2, <1>3, <1>4, ShortLists DEF ListsSound, Remaining

---------------------------------------------------------------------------
(* What a step leaves of a file *)

Alone(r) == \A a, c \in Callers : a # c /\ Holds(a, r) => ~Holds(c, r)
RouteInv(r) == Leaving(r) /\ TakenFirst(r) /\ KeepsUp(r)
Typed ==
  /\ tasks \in [Callers -> Range(tasks)] /\ route \in [Routes -> Range(route)]
  /\ pod \in [Members -> Range(pod)] /\ conf \in [Routes -> Range(conf)]

LEMMA PartsOfInv ==
  RoutingInv <=>
    /\ Typed /\ ListsSound /\ (alive \/ \A a \in Callers : tasks[a] = <<>>)
    /\ \A r \in Routes \ raced : Alone(r)
    /\ \A r \in Followed \ raced : RouteInv(r)
  BY DEF RoutingInv, ListsSound, Sound, Remaining, Alone, RouteInv, Typed

LEMMA PartsOfNext ==
  ASSUME Typed', ListsSound', alive' \/ \A a \in Callers : tasks'[a] = <<>>,
         \A r \in Routes \ raced' : Alone(r)',
         \A r \in Followed' \ raced' : RouteInv(r)'
  PROVE  RoutingInv'
  BY DEF RoutingInv, ListsSound, Sound, Remaining, Alone, RouteInv, Typed

LEMMA WindowHolds ==
  ASSUME ListsSound, NEW a \in Callers, NEW r \in Routes
  PROVE  r \in Window(a) <=> Holds(a, r)
  <1>1. \A task : task \in Remaining(a) <=> \E j \in DOMAIN tasks[a] : task = tasks[a][j]
    BY DEF Remaining, Range
  <1>2. (\E j \in DOMAIN tasks[a] : tasks[a][j].do = <<"purge">>) <=> PurgeAhead(a)
    BY <1>1 DEF PurgeAhead
  <1>3. r \in {tasks[a][j].r : j \in {i \in DOMAIN tasks[a] : "r" \in DOMAIN tasks[a][i]}} <=> OnFileOf(a, r) # {}
    <2>1. OnFileOf(a, r) # {} <=> \E j \in DOMAIN tasks[a] : "r" \in DOMAIN tasks[a][j] /\ tasks[a][j].r = r
      BY <1>1 DEF OnFileOf, OnFile
    <2>. QED
      BY <2>1
  <1>. QED
    BY <1>2, <1>3 DEF Window, Holds

(* The listings of startup miss no file. *)
LEMMA ListingCovers ==
  ASSUME NEW r \in Followed
  PROVE  \E task \in Listings : r \in task.of
  <1>1. PICK R \in {Ingresses, TcpRoutes, Middlewares} : r \in R
    BY DEF Followed, Routes
  <1>2. Listing(R, "generate") \in Listings
    BY <1>1 DEF Listings
  <1>3. Listing(R, "generate").of = R
    BY DEF Listing
  <1>. QED
    BY <1>1, <1>2, <1>3

(* The tasks on files, the purges and, while r is stored, the listings     *)
(* that come to it, are the same.                                          *)
SameWork(r) ==
  \A c \in Callers :
    /\ OnFileOf(c, r)' = OnFileOf(c, r) /\ (PurgeAhead(c)' <=> PurgeAhead(c))
    /\ route[r] # Absent => \A task \in Remaining(c) : ListsRoutes(task) /\ r \in task.of => task \in Remaining(c)'

LEMMA Undisturbed ==
  ASSUME NEW r \in Followed, RouteInv(r), SameWork(r), UNCHANGED stage,
         route'[r] = route[r], conf'[r] = conf[r], alive' => alive,
         route[r] # Absent /\ r \notin late' =>
           \/ r \notin late /\ Current(r)' = Current(r)
           \/ \E c \in Callers : Listings \subseteq Remaining(c)'
  PROVE  RouteInv(r)'
  <1>1. Leaving(r)'
    BY DEF RouteInv, SameWork, Leaving, Removes
  <1>2. TakenFirst(r)'
    BY DEF RouteInv, SameWork, TakenFirst, ListsRoutes
  <1>3. Listings' = Listings /\ Followed' = Followed
    BY DEF Listings, Followed
  <1>4. KeepsUp(r)'
    <2> SUFFICES ASSUME route'[r] # Absent PROVE KeepsUp(r)'
      BY DEF KeepsUp
    <2>1. /\ \A a \in Callers : \A task \in OnFileOf(a, r)' : Generates(task) => task.b = route'[r]
      BY DEF RouteInv, SameWork, KeepsUp
    <2>2. ASSUME alive', r \notin late'
          PROVE  \/ \E a \in Callers : PurgeAhead(a)'
                 \/ \E a \in Callers : \E task \in Remaining(a)' \cap Listings' : r \in task.of
                 \/ /\ \A a \in Callers : \A task \in OnFileOf(a, r)' : Fresh(task, r)'
                    /\ conf'[r] = Current(r)' \/ \E a \in Callers : OnFileOf(a, r)' # {}
      <3>1. CASE \E c \in Callers : Listings \subseteq Remaining(c)'
        BY <1>3, <3>1, ListingCovers
      <3>2. CASE r \notin late /\ Current(r)' = Current(r)
        <4>1. \A task : Fresh(task, r)' <=> Fresh(task, r)
          BY <3>2 DEF Fresh, Generates
        <4>2. \A task \in Listings : ListsRoutes(task)
          BY OtherTasks DEF Listings
        <4>3. CASE \E a \in Callers : PurgeAhead(a)
          BY <4>3 DEF SameWork
        <4>4. CASE \E a \in Callers : \E task \in Remaining(a) \cap Listings : r \in task.of
          BY <1>3, <4>2, <4>4 DEF SameWork
        <4>5. CASE /\ \A a \in Callers : \A task \in OnFileOf(a, r) : Fresh(task, r)
                   /\ conf[r] = Current(r) \/ \E a \in Callers : OnFileOf(a, r) # {}
          BY <3>2, <4>1, <4>5 DEF SameWork
        <4>. QED
          BY <2>2, <3>2, <4>3, <4>4, <4>5 DEF RouteInv, KeepsUp
      <3>. QED
        BY <2>2, <3>1, <3>2
    <2>3. \A task : Generates(task)' <=> Generates(task)
      BY DEF Generates
    <2>. QED
      BY <2>1, <2>2, <2>3 DEF KeepsUp
  <1>. QED
    BY <1>1, <1>2, <1>4 DEF RouteInv

(* A step that changes no route and no file, does no task on a file, and   *)
(* leaves what follows from pods and Services to listings to come.         *)
LEMMA QuietStep ==
  ASSUME RoutingInv, ListsSound', UNCHANGED <<stage, route, conf, raced>>, alive, alive',
         pod' \in [Members -> Range(pod')],
         \A c \in Callers : \A task :
           /\ OnFile(task) \/ ListsRoutes(task) \/ task.do = <<"purge">> => (task \in Remaining(c) => task \in Remaining(c)')
           /\ OnFile(task) \/ task.do = <<"purge">> => (task \in Remaining(c)' => task \in Remaining(c)),
         \A r \in Followed \ raced : route[r] # Absent /\ r \notin late' =>
           \/ r \notin late /\ Current(r)' = Current(r)
           \/ \E c \in Callers : Listings \subseteq Remaining(c)'
  PROVE  RoutingInv'
  <1>1. \A r : SameWork(r)
    BY DEF SameWork, OnFileOf, PurgeAhead, OnFile
  <1>2. Followed' = Followed
    BY DEF Followed
  <1>3. ASSUME NEW r \in Followed \ raced PROVE RouteInv(r)'
    BY <1>1, PartsOfInv, Undisturbed
  <1>4. ASSUME NEW r \in Routes \ raced PROVE Alone(r)'
    <2>1. Alone(r) /\ \A c \in Callers : Holds(c, r)' <=> Holds(c, r)
      BY <1>1, PartsOfInv DEF SameWork, Holds
    <2>. QED
      BY <2>1 DEF Alone
  <1>5. Typed'
    BY PartsOfInv DEF Typed, ListsSound, Range
  <1>. QED
    BY <1>2, <1>3, <1>4, <1>5, PartsOfNext

---------------------------------------------------------------------------
(* Steps that are quiet *)

LEMMA ListsUnchanged ==
  ASSUME ListsSound, UNCHANGED <<stage, tasks>>
  PROVE  ListsSound' /\ \A c \in Callers : Remaining(c)' = Remaining(c)
  <1>1. \A s : Sound(s)' <=> Sound(s)
    BY DEF Sound, InOrder, Coherent, Listings, Followed
  <1>. QED
    BY <1>1 DEF ListsSound, Remaining

LEMMA PodShapes ==
  ASSUME Typed, NEW p, NEW v, pod' = [pod EXCEPT ![p] = v]
  PROVE  pod' \in [Members -> Range(pod')] /\ \A q \in Members \ {p} : pod'[q] = pod[q]
  <1>1. DOMAIN pod' = Members /\ pod' = [q \in Members |-> pod'[q]]
    BY DEF Typed
  <1>. QED
    BY <1>1 DEF Typed, Range

(* A container that was imported serves nobody: it cannot be dialed. *)
LEMMA ImportedServesNobody ==
  ASSUME Typed, NEW p \in Members, pod[p] = Absent, NEW v, v.via = Unreachable,
         pod' = [pod EXCEPT ![p] = v], UNCHANGED <<route, svc>>, NEW r \in Routes
  PROVE  Current(r)' = Current(r)
  <1>1. pod'[p] = v /\ \A q \in Members \ {p} : pod'[q] = pod[q]
    BY DEF Typed
  <1>2. ASSUME NEW label PROVE Backends(label, pod') = Backends(label, pod)
    <2> DEFINE In(ps) == {q \in Members : /\ ps[q] # Absent /\ ps[q].label = label
                                          /\ ps[q].live /\ ps[q].via # Unreachable}
    <2>1. In(pod') = In(pod) /\ p \notin In(pod)
      BY <1>1
    <2>2. {[pod |-> q, via |-> pod'[q].via] : q \in In(pod')} = {[pod |-> q, via |-> pod[q].via] : q \in In(pod)}
      BY <1>1, <2>1
    <2>. QED
      BY <2>2 DEF Backends
  <1>3. \A b, label : Render(r, b, label, pod') = Render(r, b, label, pod)
    BY <1>2 DEF Render
  <1>. QED
    BY <1>3 DEF Current

LEMMA SyncQuiet ==
  ASSUME RoutingInv, NEW p \in Members, ChangePhase(p) \/ PruneMember(p) \/ ImportMember(p)
  PROVE  RoutingInv'
  <1>1. alive /\ UNCHANGED <<stage, svc, route, conf, tasks, alive, raced>> /\ Typed /\ ListsSound
    BY PartsOfInv DEF ChangePhase, PruneMember, ImportMember
  <1>2. ListsSound' /\ \A c \in Callers : Remaining(c)' = Remaining(c)
    BY <1>1, ListsUnchanged
  <1>3. PICK v : /\ pod' = [pod EXCEPT ![p] = v]
                 /\ late' = Stored \/ (late' = late /\ pod[p] = Absent /\ v.via = Unreachable)
    <2>1. CASE ChangePhase(p)
      <3>1. pod' = [pod EXCEPT ![p] = [pod[p] EXCEPT !.live = ~pod[p].live]] /\ late' = Stored
        BY <2>1 DEF ChangePhase
      <3>. QED
        BY <3>1
    <2>2. CASE PruneMember(p)
      BY <2>2 DEF PruneMember
    <2>3. CASE ImportMember(p)
      <3>1. PICK live \in BOOLEAN : pod' = [pod EXCEPT ![p] = [label |-> Absent, via |-> Unreachable, live |-> live]]
        BY <2>3 DEF ImportMember
      <3>2. late' = late /\ pod[p] = Absent /\ [label |-> Absent, via |-> Unreachable, live |-> live].via = Unreachable
        BY <2>3 DEF ImportMember
      <3>. QED
        BY <3>1, <3>2
    <2>. QED
      BY <2>1, <2>2, <2>3
  <1>4. pod' \in [Members -> Range(pod')]
    BY <1>1, <1>3, PodShapes
  <1>5. ASSUME NEW r \in Followed \ raced, route[r] # Absent, r \notin late'
        PROVE  r \notin late /\ Current(r)' = Current(r)
    <2>1. r \in Routes
      BY DEF Followed
    <2>2. late' # Stored
      BY <1>5, <2>1 DEF Stored
    <2>. QED
      BY <1>1, <1>3, <1>5, <2>1, <2>2, ImportedServesNobody
  <1>. QED
    BY <1>1, <1>2, <1>4, <1>5, QuietStep

(* Requests that begin with no file. *)
LEMMA BeginQuiet ==
  ASSUME RoutingInv, UNCHANGED <<stage, route, conf, alive, raced>>, alive, pod' \in [Members -> Range(pod')],
         NEW a \in Callers, tasks[a] = <<>>, NEW todo, Sound(todo), Begin(a, todo),
         \A task \in Range(todo) : ~OnFile(task) /\ task.do # <<"purge">>,
         \/ Listings \subseteq Range(todo)
         \/ late' = Stored
         \/ late' = late /\ UNCHANGED <<pod, svc>>
  PROVE  RoutingInv'
  <1>1. ListsSound' /\ Remaining(a) = {} /\ Remaining(a)' = Range(todo) /\ \A c \in Callers \ {a} : Remaining(c)' = Remaining(c)
    BY PartsOfInv, BeginSound
  <1>2. ASSUME NEW c \in Callers, NEW task
        PROVE  /\ OnFile(task) \/ ListsRoutes(task) \/ task.do = <<"purge">> => (task \in Remaining(c) => task \in Remaining(c)')
               /\ OnFile(task) \/ task.do = <<"purge">> => (task \in Remaining(c)' => task \in Remaining(c))
    BY <1>1
  <1>3. ASSUME NEW r \in Followed \ raced, route[r] # Absent, r \notin late'
        PROVE  \/ r \notin late /\ Current(r)' = Current(r)
               \/ \E c \in Callers : Listings \subseteq Remaining(c)'
    <2>1. late' # Stored
      BY <1>3 DEF Stored, Followed
    <2>2. late' = late /\ UNCHANGED <<pod, svc>> => r \notin late /\ Current(r)' = Current(r)
      BY <1>3 DEF Current
    <2>. QED
      BY <1>1, <2>1, <2>2
  <1>. QED
    BY <1>1, <1>2, <1>3, QuietStep

LEMMA CallsQuiet ==
  ASSUME RoutingInv, NEW a \in Callers,
         \/ \E P \in SUBSET (Members \cap stage) : \E spec : ChangePods(a, P, spec)
         \/ \E p \in Members : \E spec : PatchPod_(a, p, spec)
         \/ \E s, label : PostService_(a, s, label) \/ PatchService_(a, s, label) \/ DeleteService_(a, s)
         \/ \E t \in TcpRoutes : \E b : CheckTcpRoute(a, t, b)
  PROVE  RoutingInv'
  <1> USE DEF routing
  <1>0. Typed /\ ListsSound /\ pod \in [Members -> Range(pod)]
    BY PartsOfInv DEF Typed
  <1>1. ASSUME NEW P \in SUBSET (Members \cap stage), NEW spec, ChangePods(a, P, spec) PROVE RoutingInv'
    <2> DEFINE todo == PodsThenFiles(P, spec)
    <2>1. IsFiniteSet(P)
      BY FS_Subset
    <2>2. /\ Sound(todo) /\ Listings \subseteq Range(todo)
          /\ \A task \in Range(todo) : ~OnFile(task) /\ task.do # <<"purge">>
      BY <2>1, PodLists
    <2>3. /\ Begin(a, todo) /\ alive /\ tasks[a] = <<>>
          /\ UNCHANGED <<stage, pod, svc, route, conf, alive, late, raced>>
      BY <1>1 DEF ChangePods, Idle, PodsThenFiles
    <2> HIDE DEF todo
    <2>. QED
      BY <1>0, <2>2, <2>3, BeginQuiet
  <1>2. ASSUME NEW p \in Members, NEW spec, PatchPod_(a, p, spec) PROVE RoutingInv'
    <2>1. /\ alive /\ UNCHANGED <<stage, svc, route, conf, tasks, alive, raced>> /\ late' = Stored
          /\ \E v : pod' = [pod EXCEPT ![p] = v]
      BY <1>2 DEF PatchPod_, Idle
    <2>2. ListsSound' /\ \A c \in Callers : Remaining(c)' = Remaining(c)
      BY <1>0, <2>1, ListsUnchanged
    <2>3. pod' \in [Members -> Range(pod')]
      BY <1>0, <2>1, PodShapes
    <2>4. \A r \in Followed : route[r] # Absent => r \in late'
      BY <2>1 DEF Stored, Followed
    <2>. QED
      BY <2>1, <2>2, <2>3, <2>4, QuietStep
  <1>3. ASSUME NEW s, NEW label, PostService_(a, s, label) \/ PatchService_(a, s, label) \/ DeleteService_(a, s)
        PROVE  RoutingInv'
    <2>1. alive /\ tasks[a] = <<>> /\ UNCHANGED <<stage, pod, route, conf, alive, raced>>
      BY <1>3 DEF PostService_, PatchService_, DeleteService_, Idle
    <2>2. \A task \in Listings : ~OnFile(task) /\ task.do # <<"purge">>
      BY OtherTasks DEF Listings
    <2>3. CASE Begin(a, Regenerate_)
      BY <1>0, <2>1, <2>2, <2>3, NewLists, ListingsInOrder, BeginQuiet
    <2>4. CASE Begin(a, << [do |-> <<"unpost">>, s |-> s] >>) /\ late' = Stored
      <3> DEFINE task == [do |-> <<"unpost">>, s |-> s]
      <3>1. Sound(<<task>>) /\ Range(<<task>>) = {task} /\ ~OnFile(task) /\ task.do # <<"purge">>
        BY NewLists, ShortLists, OtherTasks DEF Plain
      <3> HIDE DEF task
      <3>2. Begin(a, <<task>>) /\ late' = Stored
        BY <2>4 DEF task
      <3>. QED
        BY <1>0, <2>1, <3>1, <3>2, BeginQuiet
    <2>5. CASE tasks' = tasks /\ late' = Stored
      <3>1. ListsSound' /\ \A c \in Callers : Remaining(c)' = Remaining(c)
        BY <1>0, <2>1, <2>5, ListsUnchanged
      <3>2. \A r \in Followed : route[r] # Absent => r \in late'
        BY <2>5 DEF Stored, Followed
      <3>. QED
        BY <1>0, <2>1, <2>5, <3>1, <3>2, QuietStep
    <2>. QED
      BY <1>3, <2>3, <2>4, <2>5 DEF PostService_, PatchService_, DeleteService_
  <1>4. ASSUME NEW t \in TcpRoutes, NEW b, CheckTcpRoute(a, t, b) PROVE RoutingInv'
    <2>1. /\ alive /\ tasks[a] = <<>> /\ UNCHANGED <<stage, pod, svc, route, conf, alive, late, raced>>
      BY <1>4 DEF CheckTcpRoute, Idle
    <2>2. PICK new \in BOOLEAN : Begin(a, << [do |-> <<"store">>, t |-> t, b |-> b, new |-> new] >>)
      BY <1>4 DEF CheckTcpRoute
    <2> DEFINE task == [do |-> <<"store">>, t |-> t, b |-> b, new |-> new]
    <2>3. Sound(<<task>>) /\ Range(<<task>>) = {task} /\ ~OnFile(task) /\ task.do # <<"purge">>
      BY NewLists, ShortLists, OtherTasks DEF Plain
    <2>4. Begin(a, <<task>>)
      BY <2>2
    <2> HIDE DEF task
    <2>. QED
      BY <1>0, <2>1, <2>3, <2>4, BeginQuiet
  <1>. QED
    BY <1>1, <1>2, <1>3, <1>4

(* A stage of a pod or a Service, and a TCP route that is not stored. *)
LEMMA DropQuiet ==
  ASSUME RoutingInv, NEW a \in Callers, NEW st \in {"pod", "unpost", "store"}, On(a, st),
         Proceed(a) \/ Abandon(a), UNCHANGED <<stage, route, conf, alive, raced>>,
         pod' \in [Members -> Range(pod')],
         st = "pod" \/ late' = Stored \/ (late' = late /\ UNCHANGED <<pod, svc>>),
         st = "pod" => late' = late
  PROVE  RoutingInv'
  <1>1. ListsSound /\ alive
    BY PartsOfInv DEF On
  <1>2. /\ ListsSound' /\ Remaining(a) = {Now(a)} \cup Remaining(a)'
        /\ \A c \in Callers \ {a} : Remaining(c)' = Remaining(c)
    BY <1>1, DropSound
  <1>3. ~OnFile(Now(a)) /\ ~ListsRoutes(Now(a)) /\ Now(a).do = <<st>> /\ Now(a).do # <<"purge">> /\ Now(a) \in Remaining(a)
    BY <1>1, HeadTask
  <1>4. ASSUME NEW c \in Callers, NEW task
        PROVE  /\ OnFile(task) \/ ListsRoutes(task) \/ task.do = <<"purge">> => (task \in Remaining(c) => task \in Remaining(c)')
               /\ OnFile(task) \/ task.do = <<"purge">> => (task \in Remaining(c)' => task \in Remaining(c))
    BY <1>2, <1>3
  <1>5. ASSUME NEW r \in Followed \ raced, route[r] # Absent, r \notin late'
        PROVE  \/ r \notin late /\ Current(r)' = Current(r)
               \/ \E c \in Callers : Listings \subseteq Remaining(c)'
    <2>1. late' # Stored
      BY <1>5 DEF Stored, Followed
    <2>2. CASE st = "pod"
      <3>1. Listings \subseteq Remaining(a)
        BY <1>1, <1>3, <2>2, SoundTask
      <3>2. Now(a) \notin Listings
        BY <1>3, OtherTasks DEF Listings
      <3>. QED
        BY <1>2, <3>1, <3>2
    <2>3. CASE late' = late /\ UNCHANGED <<pod, svc>>
      BY <1>5, <2>3 DEF Current
    <2>. QED
      BY <2>1, <2>2, <2>3
  <1>. QED
    BY <1>1, <1>2, <1>4, <1>5, QuietStep

---------------------------------------------------------------------------
(* Steps on files *)

(* A window opened on R: the others hold none of it. *)
LEMMA OpenedFor ==
  ASSUME RoutingInv, NEW a \in Callers, NEW R, raced' = Opened(a, R), NEW r \in Routes \ raced'
  PROVE  /\ r \in R => \A c \in Callers \ {a} : ~Holds(c, r)
         /\ r \notin R => r \notin raced
  <1>1. \A c \in Callers : r \in Window(c) <=> Holds(c, r)
    BY PartsOfInv, WindowHolds
  <1>. QED
    BY <1>1 DEF Opened

LEMMA AloneStays ==
  ASSUME NEW a \in Callers, NEW r, \A c \in Callers \ {a} : Remaining(c)' = Remaining(c),
         (\A c \in Callers \ {a} : ~Holds(c, r)) \/ (Alone(r) /\ (Holds(a, r)' => Holds(a, r)))
  PROVE  Alone(r)'
  <1>1. \A c \in Callers \ {a} : Holds(c, r)' <=> Holds(c, r)
    BY DEF Holds, PurgeAhead, OnFileOf
  <1>. QED
    BY <1>1 DEF Alone

(* A route is stored or deleted, its file follows. *)
LEMMA BeginOnFile ==
  ASSUME RoutingInv, alive, UNCHANGED <<stage, pod, svc, conf, alive, late>>,
         NEW a \in Callers, \A task \in Remaining(a) : ~OnFile(task) /\ ~ListsRoutes(task) /\ task.do # <<"purge">>,
         NEW r0 \in Routes, raced' = Opened(a, {r0}), NEW b, route' = [route EXCEPT ![r0] = b],
         NEW task0, (b # Absent /\ task0 = Generate(r0, b)) \/ (b = Absent /\ task0 = Unroute(r0)),
         BeginOn(a, r0, <<task0>>)
  PROVE  RoutingInv'
  <1> DEFINE todo == IF r0 \in Followed THEN <<task0>> ELSE <<>>
  <1>1. OnFile(task0) /\ task0.r = r0 /\ ~ListsRoutes(task0) /\ task0.do # <<"purge">> /\ Sound(<<task0>>)
    <2>1. CASE task0 = Generate(r0, b)
      <3>1. /\ OnFile(task0) /\ task0.r = r0 /\ ~ListsRoutes(task0)
            /\ task0.do \in {<<"write">>, <<"resolve", "write">>}
        BY <2>1, FileTasks
      <3>2. Sound(<<task0>>)
        BY <2>1, NewLists
      <3>. QED
        BY <3>1, <3>2
    <2>2. CASE task0 = Unroute(r0)
      <3>1. OnFile(task0) /\ task0.r = r0 /\ ~ListsRoutes(task0) /\ task0.do = <<"remove">>
        BY <2>2, FileTasks
      <3>2. Sound(<<task0>>)
        BY <2>2, NewLists
      <3>. QED
        BY <3>1, <3>2
    <2>. QED
      BY <2>1, <2>2
  <1>2. Sound(todo) /\ Range(todo) \subseteq {task0} /\ (r0 \in Followed => Range(todo) = {task0})
    BY <1>1, NewLists, ShortLists
  <1>3. Begin(a, todo)
    BY DEF BeginOn
  <1> HIDE DEF todo
  <1>4. Typed /\ ListsSound
    BY PartsOfInv
  <1>5. ListsSound' /\ Remaining(a)' = Range(todo) /\ \A c \in Callers \ {a} : Remaining(c)' = Remaining(c)
    BY <1>2, <1>3, <1>4, BeginSound
  <1>6. route'[r0] = b /\ (\A r \in Routes \ {r0} : route'[r] = route[r]) /\ Typed'
    <2>1. DOMAIN route' = Routes /\ route' = [r \in Routes |-> route'[r]]
      BY <1>4 DEF Typed
    <2>. QED
      BY <1>4, <1>5, <2>1 DEF Typed, ListsSound, Range
  <1>7. ~PurgeAhead(a) /\ ~PurgeAhead(a)' /\ \A r \in Routes : /\ OnFileOf(a, r) = {}
                                                        /\ r # r0 => OnFileOf(a, r)' = {}
    BY <1>1, <1>2, <1>5 DEF PurgeAhead, OnFileOf, OnFile
  <1>8. ASSUME NEW r \in Routes \ raced' PROVE Alone(r)'
    <2>1. CASE r = r0
      BY <1>5, <2>1, OpenedFor, AloneStays
    <2>2. CASE r # r0
      <3>1. Alone(r)
        BY <2>2, OpenedFor, PartsOfInv
      <3>2. ~Holds(a, r)'
        BY <1>1, <1>2, <1>5, <2>2 DEF Holds, PurgeAhead, OnFileOf
      <3>. QED
        BY <1>5, <3>1, <3>2, AloneStays
    <2>. QED
      BY <2>1, <2>2
  <1>9. ASSUME NEW r \in Followed' \ raced' PROVE RouteInv(r)'
    <2>1. r \in Routes \ raced' /\ r \in Followed
      BY DEF Followed
    <2>2. CASE r # r0
      <3>1. r \notin raced
        BY <2>1, <2>2 DEF Opened
      <3>2. SameWork(r)
        BY <1>5, <1>7, <2>1, <2>2 DEF SameWork, OnFileOf, PurgeAhead
      <3>3. Current(r)' = Current(r)
        BY <1>6, <2>1, <2>2 DEF Current
      <3>4. RouteInv(r)
        BY <2>1, <3>1, PartsOfInv
      <3>5. route'[r] = route[r]
        BY <1>6, <2>1, <2>2
      <3>. QED
        BY <2>1, <3>2, <3>3, <3>4, <3>5, Undisturbed
    <2>3. CASE r = r0
      <3>1. OnFileOf(a, r)' = {task0} /\ \A c \in Callers \ {a} : ~PurgeAhead(c)' /\ OnFileOf(c, r)' = {}
        <4>1. \A c \in Callers \ {a} : ~Holds(c, r)
          BY <2>1, <2>3, OpenedFor
        <4>2. \A c \in Callers \ {a} : ~PurgeAhead(c)' /\ OnFileOf(c, r)' = {}
          BY <1>5, <4>1 DEF Holds, PurgeAhead, OnFileOf
        <4>3. OnFileOf(a, r)' = {task0}
          BY <1>1, <1>2, <1>5, <2>1, <2>3 DEF OnFileOf, OnFile
        <4>. QED
          BY <4>2, <4>3
      <3>2. CASE b # Absent /\ task0 = Generate(r0, b)
        <4>1. Generates(task0) /\ task0.b = b /\ ~Removes(task0)
          BY <3>2, FileTasks
        <4>2. Fresh(task0, r)'
          <5>1. Generates(task0)'
            BY <4>1 DEF Generates
          <5>2. ASSUME task0.do = <<"write">> PROVE task0.made = Current(r)'
            <6>1. r \in Middlewares
              BY <2>3, <3>2, <5>2 DEF Generate
            <6>. QED
              BY <1>6, <2>3, <3>2, <6>1 DEF Generate, Current, Render
          <5>. QED
            BY <1>6, <2>3, <4>1, <5>1, <5>2 DEF Fresh
        <4>3. Leaving(r)'
          BY <1>6, <2>3, <3>2 DEF Leaving
        <4>4. TakenFirst(r)'
          BY <1>7, <3>1 DEF TakenFirst
        <4>5. KeepsUp(r)'
          BY <1>6, <2>3, <3>1, <4>1, <4>2 DEF KeepsUp
        <4>. QED
          BY <4>3, <4>4, <4>5 DEF RouteInv
      <3>3. CASE b = Absent /\ task0 = Unroute(r0)
        <4>1. Removes(task0)
          BY <3>3, FileTasks
        <4>2. Leaving(r)'
          BY <3>1, <4>1 DEF Leaving, Removes
        <4>3. TakenFirst(r)'
          BY <1>7, <3>1 DEF TakenFirst
        <4>4. KeepsUp(r)'
          BY <1>6, <2>3, <3>3 DEF KeepsUp
        <4>. QED
          BY <4>2, <4>3, <4>4 DEF RouteInv
      <3>. QED
        BY <3>2, <3>3
    <2>. QED
      BY <2>2, <2>3
  <1>. QED
    BY <1>5, <1>6, <1>8, <1>9, PartsOfNext

LEMMA CallsOnFiles ==
  ASSUME RoutingInv, NEW a \in Callers, NEW r \in Routes,
         DeleteRoute(a, r) \/ \E b \in RouteBodies(r) : WriteIngress(a, r, b) \/ WriteMiddleware(a, r, b)
  PROVE  RoutingInv'
  <1>1. \A task \in Remaining(a) : ~OnFile(task) /\ ~ListsRoutes(task) /\ task.do # <<"purge">>
    <2>1. tasks[a] = <<>>
      BY DEF DeleteRoute, WriteIngress, WriteMiddleware, WriteRoute, Idle
    <2>. QED
      BY <2>1, ShortLists DEF Remaining
  <1>2. CASE DeleteRoute(a, r)
    <2>1. /\ alive /\ UNCHANGED <<stage, pod, svc, conf, alive, late>> /\ raced' = Opened(a, {r})
          /\ route' = [route EXCEPT ![r] = Absent] /\ BeginOn(a, r, << Unroute(r) >>)
      BY <1>2 DEF DeleteRoute, Idle
    <2>. QED
      BY <1>1, <2>1, BeginOnFile
  <1>3. ASSUME NEW b \in RouteBodies(r), WriteRoute(a, r, b) PROVE RoutingInv'
    <2>1. /\ alive /\ UNCHANGED <<stage, pod, svc, conf, alive, late>> /\ raced' = Opened(a, {r})
          /\ route' = [route EXCEPT ![r] = b] /\ BeginOn(a, r, << Generate(r, b) >>) /\ b # Absent
      BY <1>3 DEF WriteRoute, StoreAndGenerate, Idle
    <2>. QED
      BY <1>1, <2>1, BeginOnFile
  <1>. QED
    BY <1>2, <1>3 DEF WriteIngress, WriteMiddleware

(* A TCP route is stored some time after its check. *)
LEMMA StoreOnFile ==
  ASSUME RoutingInv, TcpInv, NEW a \in Callers, StoreTcpRoute(a)
  PROVE  RoutingInv'
  <1>1. ListsSound /\ pod \in [Members -> Range(pod)] /\ On(a, "store")
    BY PartsOfInv DEF StoreTcpRoute, Typed
  <1>2. Now(a) \in Remaining(a) /\ Now(a).do = <<"store">> /\ ~OnFile(Now(a)) /\ ~ListsRoutes(Now(a)) /\ Now(a) = tasks[a][1]
    BY <1>1, HeadTask
  <1>3. Remaining(a) = {Now(a)} /\ Now(a).t \in TcpRoutes
    BY <1>1, <1>2, SoundTask
  <1>4. Now(a).b \in RouteBodies(Now(a).t)
    <2>1. ~StoresNone(tasks[a])
      <3>1. <<"store">> \notin TaskStages
        BY DEF TaskStages
      <3>. QED
        BY <1>2, <3>1 DEF StoresNone, StoresNot, Remaining
    <2>2. PICK t \in TcpRoutes : \E b \in RouteBodies(t) : \E new \in BOOLEAN :
            tasks[a] = << [do |-> <<"store">>, t |-> t, b |-> b, new |-> new] >>
      BY <2>1 DEF TcpInv, StoresOne
    <2>. QED
      BY <1>2, <2>2
  <1> DEFINE t0 == Now(a).t
             b0 == Now(a).b
  <1>5. t0 \in Routes /\ b0 # Absent
    BY <1>3, <1>4 DEF Routes
  <1>6. CASE StoreAndGenerate(a, t0, b0)
    <2>1. /\ alive /\ UNCHANGED <<stage, pod, svc, conf, alive, late>> /\ raced' = Opened(a, {t0})
          /\ route' = [route EXCEPT ![t0] = b0] /\ BeginOn(a, t0, << Generate(t0, b0) >>)
      BY <1>6 DEF StoreTcpRoute, StoreAndGenerate, On
    <2>2. \A task \in Remaining(a) : ~OnFile(task) /\ ~ListsRoutes(task) /\ task.do # <<"purge">>
      BY <1>2, <1>3
    <2> HIDE DEF t0, b0
    <2>. QED
      BY <1>5, <2>1, <2>2, BeginOnFile
  <1>7. CASE Abandon(a) /\ UNCHANGED <<route, raced>>
    <2>1. UNCHANGED <<stage, pod, svc, route, conf, alive, late, raced>>
      BY <1>7 DEF StoreTcpRoute
    <2>. QED
      BY <1>1, <1>7, <2>1, DropQuiet
  <1>. QED
    BY <1>6, <1>7 DEF StoreTcpRoute

LEMMA StagesQuiet ==
  ASSUME RoutingInv, NEW a \in Callers, ChangePod(a) \/ Unpost(a)
  PROVE  RoutingInv'
  <1>1. Typed /\ pod \in [Members -> Range(pod)]
    BY PartsOfInv DEF Typed
  <1>2. CASE ChangePod(a)
    <2>1. /\ On(a, "pod") /\ Proceed(a) /\ UNCHANGED <<stage, svc, route, conf, alive, late, raced>>
          /\ \E p, v : pod' = [pod EXCEPT ![p] = v]
      BY <1>2 DEF ChangePod
    <2>2. pod' \in [Members -> Range(pod')]
      BY <1>1, <2>1, PodShapes
    <2>. QED
      BY <2>1, <2>2, DropQuiet
  <1>3. CASE Unpost(a)
    <2>1. /\ On(a, "unpost") /\ Proceed(a) /\ UNCHANGED <<stage, pod, route, conf, alive, raced>>
          /\ late' = Stored
      BY <1>3 DEF Unpost
    <2>. QED
      BY <1>1, <2>1, DropQuiet
  <1>. QED
    BY <1>2, <1>3

(* A namespace delete begins: every file has a listing before the purge. *)
LEMMA LostCovers ==
  ASSUME NEW r \in Followed
  PROVE  \E task \in Lost : ListsRoutes(task) /\ r \in task.of
  <1>1. PICK R \in {Ingresses, TcpRoutes, Middlewares} : r \in R
    BY DEF Followed, Routes
  <1>2. Listing(R, "remove") \in Lost
    BY <1>1 DEF Lost
  <1>3. ListsRoutes(Listing(R, "remove")) /\ Listing(R, "remove").of = R
    BY OtherTasks
  <1>. QED
    BY <1>1, <1>2, <1>3

LEMMA DeleteBegins ==
  ASSUME RoutingInv, NEW a \in Callers, DeleteNamespace_(a)
  PROVE  RoutingInv'
  <1> DEFINE purge == [do |-> <<"purge">>]
             todo == PurgeListings \o << purge >>
  <1>1. /\ alive /\ tasks[a] = <<>> /\ UNCHANGED <<stage, pod, svc, route, conf, alive, late>>
        /\ Begin(a, todo) /\ raced' = raced \cup UNION {Window(c) : c \in Callers \ {a}}
    BY DEF DeleteNamespace_, Idle, routing
  <1>2. Typed /\ ListsSound
    BY PartsOfInv
  <1>3. Sound(todo) /\ Range(todo) = Lost \cup {purge}
    BY NewLists, ListingsInOrder
  <1>4. ~OnFile(purge) /\ purge.do = <<"purge">>
    BY OtherTasks DEF Plain
  <1> HIDE DEF purge, todo
  <1>5. /\ ListsSound' /\ Remaining(a) = {} /\ Remaining(a)' = Lost \cup {purge}
        /\ \A c \in Callers \ {a} : Remaining(c)' = Remaining(c)
    BY <1>1, <1>2, <1>3, BeginSound
  <1>6. Typed'
    BY <1>1, <1>2, <1>5 DEF Typed, ListsSound, Range
  <1>7. ASSUME NEW r \in Routes \ raced' PROVE r \notin raced /\ \A c \in Callers \ {a} : ~Holds(c, r)
    <2>1. \A c \in Callers : r \in Window(c) <=> Holds(c, r)
      BY <1>2, WindowHolds
    <2>. QED
      BY <1>1, <2>1
  <1>8. ASSUME NEW r \in Routes \ raced' PROVE Alone(r)'
    BY <1>5, <1>7, AloneStays
  <1>9. ASSUME NEW r \in Followed' \ raced' PROVE RouteInv(r)'
    <2>1. r \in Routes \ raced' /\ r \in Followed
      BY <1>1 DEF Followed
    <2>2. \A c \in Callers \ {a} : ~PurgeAhead(c) /\ OnFileOf(c, r) = {} /\ ~PurgeAhead(c)' /\ OnFileOf(c, r)' = {}
      BY <1>5, <1>7, <2>1 DEF Holds, PurgeAhead, OnFileOf
    <2>3. OnFileOf(a, r) = {} /\ OnFileOf(a, r)' = {} /\ PurgeAhead(a)'
      <3>1. \A task \in Lost : ~OnFile(task)
        BY OtherTasks DEF Lost
      <3>. QED
        BY <1>4, <1>5, <3>1 DEF OnFileOf, PurgeAhead, OnFile
    <2>4. RouteInv(r)
      BY <1>7, <2>1, PartsOfInv
    <2>5. Leaving(r)'
      <3>1. route[r] = Absent => conf[r] = Absent
        BY <2>2, <2>3, <2>4 DEF RouteInv, Leaving
      <3>. QED
        BY <1>1, <2>2, <2>3, <3>1 DEF Leaving
    <2>6. TakenFirst(r)'
      <3>1. \E task \in Remaining(a)' : ListsRoutes(task) /\ r \in task.of
        BY <1>5, <2>1, LostCovers
      <3>2. conf[r] # Absent => route[r] # Absent
        BY <2>2, <2>3, <2>4 DEF RouteInv, Leaving
      <3>. QED
        BY <1>1, <2>2, <3>1, <3>2 DEF TakenFirst, ListsRoutes
    <2>7. KeepsUp(r)'
      BY <2>2, <2>3 DEF KeepsUp
    <2>. QED
      BY <2>5, <2>6, <2>7 DEF RouteInv
  <1>. QED
    BY <1>1, <1>5, <1>6, <1>8, <1>9, PartsOfNext

(* The purge comes last: a namespace delete has taken every file by then. *)
LEMMA PurgeLeaves ==
  ASSUME RoutingInv, NEW a \in Callers, PurgeRoutes(a)
  PROVE  RoutingInv'
  <1>1. /\ On(a, "purge") /\ Proceed(a) /\ UNCHANGED <<stage, conf, alive, late, raced>>
        /\ pod' = [p \in Members |-> Absent] /\ route' = [r \in Routes |-> Absent]
    BY DEF PurgeRoutes
  <1>2. Typed /\ ListsSound
    BY PartsOfInv
  <1>3. /\ ListsSound' /\ Remaining(a) = {Now(a)} \cup Remaining(a)'
        /\ \A task \in Remaining(a)' : Rank(Now(a)) <= Rank(task) /\ Unmade(task)
        /\ \A c \in Callers \ {a} : Remaining(c)' = Remaining(c)
    BY <1>1, <1>2, DropSound
  <1>4. Now(a) \in Remaining(a) /\ Now(a).do = <<"purge">> /\ ~OnFile(Now(a)) /\ ~ListsRoutes(Now(a)) /\ Rank(Now(a)) = 3
    <2>1. Now(a) \in Remaining(a) /\ Now(a).do = <<"purge">> /\ ~OnFile(Now(a)) /\ ~ListsRoutes(Now(a))
      BY <1>1, <1>2, HeadTask
    <2>. QED
      BY <2>1 DEF Rank
  <1>5. \A task \in Remaining(a) : ~OnFile(task) /\ ~ListsRoutes(task)
    <2>1. \A task : OnFile(task) \/ ListsRoutes(task) => Rank(task) \in {0, 2}
      BY DEF Rank
    <2>. QED
      BY <1>3, <1>4, <2>1
  <1>6. PurgeAhead(a)
    BY <1>4 DEF PurgeAhead
  <1>7. Typed'
    BY <1>1, <1>2, <1>3 DEF Typed, ListsSound, Range
  <1>8. ASSUME NEW r \in Routes \ raced'
        PROVE  Alone(r) /\ \A c \in Callers \ {a} : ~Holds(c, r)
    BY <1>1, <1>6, PartsOfInv DEF Alone, Holds
  <1>9. ASSUME NEW r \in Routes \ raced' PROVE Alone(r)'
    BY <1>3, <1>8, AloneStays
  <1>10. ASSUME NEW r \in Followed' \ raced' PROVE RouteInv(r)'
    <2>1. r \in Routes \ raced' /\ r \in Followed /\ r \notin raced
      BY <1>1 DEF Followed
    <2>2. \A c \in Callers : OnFileOf(c, r)' = {}
      <3>1. OnFileOf(a, r)' = {}
        BY <1>3, <1>5 DEF OnFileOf, OnFile
      <3>2. \A c \in Callers \ {a} : OnFileOf(c, r)' = {}
        BY <1>3, <1>8, <2>1 DEF OnFileOf, Holds
      <3>. QED
        BY <3>1, <3>2
    <2>3. conf[r] = Absent
      <3>1. TakenFirst(r)
        BY <2>1, PartsOfInv DEF RouteInv
      <3>2. OnFileOf(a, r) = {}
        BY <1>5 DEF OnFileOf
      <3>. QED
        BY <1>5, <1>6, <3>1, <3>2 DEF TakenFirst
    <2>4. Leaving(r)'
      BY <1>1, <2>2, <2>3 DEF Leaving
    <2>5. TakenFirst(r)'
      BY <1>1, <2>3 DEF TakenFirst
    <2>6. KeepsUp(r)'
      BY <1>1, <2>1 DEF KeepsUp
    <2>. QED
      BY <2>4, <2>5, <2>6 DEF RouteInv
  <1>11. alive'
    BY <1>1 DEF On
  <1>. QED
    BY <1>3, <1>7, <1>9, <1>10, <1>11, PartsOfNext

(* A death: what was on its way to go, and had gone from the store, stays. *)
LEMMA DeathStops ==
  ASSUME RoutingInv, DieRouting
  PROVE  RoutingInv'
  <1>1. /\ UNCHANGED <<stage, pod, svc, route, conf, late>> /\ ~alive' /\ tasks' = [c \in Callers |-> <<>>]
        /\ raced' = raced \cup {r \in UNION {Window(c) : c \in Callers} : route[r] = Absent}
    BY DEF DieRouting, Forget, routing
  <1>2. Typed /\ ListsSound
    BY PartsOfInv
  <1>3. ListsSound' /\ \A c \in Callers : tasks'[c] = <<>> /\ Remaining(c)' = {}
    <2>1. tasks' \in [Callers -> Range(tasks')] /\ \A c \in Callers : tasks'[c] = <<>>
      BY <1>1 DEF Range
    <2>2. \A s : Sound(s)' <=> Sound(s)
      BY <1>1 DEF Sound, InOrder, Coherent, Listings, Followed
    <2>. QED
      BY <2>1, <2>2, NewLists, ShortLists DEF ListsSound, Remaining
  <1>4. \A c \in Callers : ~PurgeAhead(c)' /\ \A r : OnFileOf(c, r)' = {}
    BY <1>3 DEF PurgeAhead, OnFileOf
  <1>5. Typed'
    BY <1>1, <1>2, <1>3 DEF Typed, ListsSound
  <1>6. \A r \in Routes : Alone(r)'
    BY <1>4 DEF Alone, Holds
  <1>7. ASSUME NEW r \in Followed' \ raced' PROVE RouteInv(r)'
    <2>1. r \in Routes /\ r \in Followed /\ r \notin raced
      BY <1>1 DEF Followed
    <2>2. route[r] = Absent => conf[r] = Absent
      <3>1. Leaving(r)
        BY <2>1, PartsOfInv DEF RouteInv
      <3>2. route[r] = Absent => \A c \in Callers : ~Holds(c, r)
        <4>1. \A c \in Callers : r \in Window(c) <=> Holds(c, r)
          BY <1>2, <2>1, WindowHolds
        <4>. QED
          BY <1>1, <4>1
      <3>. QED
        BY <3>1, <3>2 DEF Leaving, Holds
    <2>3. Leaving(r)'
      BY <1>1, <1>4, <2>2 DEF Leaving
    <2>4. TakenFirst(r)' /\ KeepsUp(r)'
      BY <1>1, <1>4 DEF TakenFirst, KeepsUp
    <2>. QED
      BY <2>3, <2>4 DEF RouteInv
  <1>. QED
    BY <1>3, <1>5, <1>6, <1>7, PartsOfNext

(* A start lists every file. *)
LEMMA StartLists ==
  ASSUME RoutingInv, BootRouting
  PROVE  RoutingInv'
  <1>1. /\ UNCHANGED <<stage, pod, svc, route, conf, late, raced>> /\ ~alive /\ alive'
        /\ Begin(Main, Regenerate_) /\ Main \in Callers
    BY DEF BootRouting, routing, Callers
  <1>2. Typed /\ ListsSound /\ \A c \in Callers : tasks[c] = <<>>
    BY <1>1, PartsOfInv
  <1>3. /\ ListsSound' /\ Remaining(Main)' = Listings
        /\ \A c \in Callers \ {Main} : Remaining(c)' = Remaining(c)
    BY <1>1, <1>2, BeginSound, NewLists, ListingsInOrder
  <1>4. \A c \in Callers : Remaining(c) = {}
    BY <1>2, ShortLists DEF Remaining
  <1>5. \A c \in Callers : \A task \in Remaining(c)' : ~OnFile(task) /\ task.do # <<"purge">>
    <2>1. \A task \in Listings : ~OnFile(task) /\ task.do # <<"purge">>
      BY OtherTasks DEF Listings
    <2>. QED
      BY <1>3, <1>4, <2>1
  <1>6. \A c \in Callers : ~PurgeAhead(c)' /\ \A r : OnFileOf(c, r)' = {} /\ OnFileOf(c, r) = {}
    BY <1>4, <1>5 DEF PurgeAhead, OnFileOf
  <1>7. Typed'
    BY <1>1, <1>2, <1>3 DEF Typed, ListsSound
  <1>8. \A r \in Routes : Alone(r)'
    BY <1>6 DEF Alone, Holds
  <1>9. ASSUME NEW r \in Followed' \ raced' PROVE RouteInv(r)'
    <2>1. r \in Routes /\ r \in Followed /\ r \notin raced
      BY <1>1 DEF Followed
    <2>2. Leaving(r)'
      <3>1. Leaving(r)
        BY <2>1, PartsOfInv DEF RouteInv
      <3>. QED
        BY <1>1, <1>6, <3>1 DEF Leaving
    <2>3. TakenFirst(r)'
      BY <1>6 DEF TakenFirst
    <2>4. KeepsUp(r)'
      <3>1. Listings' = Listings
        BY <1>1 DEF Listings, Followed
      <3>. QED
        BY <1>1, <1>3, <1>6, <2>1, <3>1, ListingCovers DEF KeepsUp
    <2>. QED
      BY <2>2, <2>3, <2>4 DEF RouteInv
  <1>. QED
    BY <1>1, <1>3, <1>7, <1>8, <1>9, PartsOfNext

(* A step of a on the file of r0 and its tasks leaves the other files.     *)
LEMMA OnOneFile ==
  ASSUME RoutingInv, ListsSound', alive, NEW a \in Callers, NEW r0, NEW v,
         UNCHANGED <<stage, pod, svc, route, alive, raced>>,
         \A c \in Callers \ {a} : Remaining(c)' = Remaining(c),
         \A task : (OnFile(task) /\ task.r = r0) \/ (task \in Remaining(a)' <=> task \in Remaining(a)),
         \A task \in Remaining(a) \cup Remaining(a)' : OnFile(task) => ~ListsRoutes(task) /\ task.do # <<"purge">>,
         OnFileOf(a, r0)' # {} => OnFileOf(a, r0) # {},
         conf' = conf \/ conf' = [conf EXCEPT ![r0] = v],
         late' \ {r0} = late \ {r0},
         r0 \in Followed \ raced => RouteInv(r0)'
  PROVE  RoutingInv'
  <1>1. Typed /\ ListsSound
    BY PartsOfInv
  <1>2. Typed' /\ \A r \in Routes \ {r0} : conf'[r] = conf[r]
    <2>1. DOMAIN conf' = Routes /\ conf' = [r \in Routes |-> conf'[r]]
      BY <1>1 DEF Typed
    <2>. QED
      BY <1>1, <2>1 DEF Typed, ListsSound, Range
  <1>3. PurgeAhead(a)' <=> PurgeAhead(a)
    BY DEF PurgeAhead
  <1>4. ASSUME NEW r \in Routes \ raced' PROVE Alone(r)'
    <2>1. CASE r = r0
      BY <1>3, <2>1, AloneStays, PartsOfInv DEF Holds
    <2>2. CASE r # r0
      <3>1. OnFileOf(a, r)' = OnFileOf(a, r)
        BY <2>2 DEF OnFileOf
      <3>2. Alone(r) /\ (Holds(a, r)' => Holds(a, r))
        BY <1>3, <3>1, PartsOfInv DEF Holds
      <3>. QED
        BY <3>2, AloneStays
    <2>. QED
      BY <2>1, <2>2
  <1>5. ASSUME NEW r \in Followed' \ raced' PROVE RouteInv(r)'
    <2>1. r \in Routes /\ r \in Followed \ raced
      BY DEF Followed
    <2>2. CASE r # r0
      <3>1. RouteInv(r)
        BY <2>1, PartsOfInv
      <3>2. SameWork(r)
        <4>1. OnFileOf(a, r)' = OnFileOf(a, r)
          BY <2>2 DEF OnFileOf
        <4>2. \A c \in Callers \ {a} : OnFileOf(c, r)' = OnFileOf(c, r) /\ (PurgeAhead(c)' <=> PurgeAhead(c))
          BY DEF OnFileOf, PurgeAhead
        <4>3. \A c \in Callers : \A task \in Remaining(c) : ListsRoutes(task) => task \in Remaining(c)'
          OBVIOUS
        <4>. QED
          BY <1>3, <4>1, <4>2, <4>3 DEF SameWork
      <3>3. conf'[r] = conf[r] /\ (r \in late' <=> r \in late)
        BY <1>2, <2>1, <2>2
      <3>4. Current(r)' = Current(r)
        BY DEF Current
      <3>. QED
        BY <2>1, <3>1, <3>2, <3>3, <3>4, Undisturbed
    <2>. QED
      BY <2>1, <2>2
  <1>. QED
    BY <1>2, <1>4, <1>5, PartsOfNext

LEMMA FileTask ==
  ASSUME ListsSound, NEW a \in Callers, NEW task \in Remaining(a), OnFile(task)
  PROVE  ~ListsRoutes(task) /\ task.do # <<"purge">> /\ (Removes(task) \/ Generates(task))
  <1>1. ~ListsRoutes(task) /\ ~Changes(task)
    BY DEF OnFile, ListsRoutes, Changes
  <1>2. Removes(task) \/ Generates(task)
    BY <1>1, SoundTask
  <1>. QED
    BY <1>1, <1>2 DEF Removes, Generates

(* The head task, on the file of r0, is done.                              *)
LEMMA DoneWith ==
  ASSUME RoutingInv, NEW a \in Callers, NEW st \in {"write", "remove"}, On(a, st), Proceed(a),
         UNCHANGED <<stage, pod, svc, route, alive, raced>>, NEW v, NEW r0, r0 = Now(a).r,
         conf' = conf \/ conf' = [conf EXCEPT ![r0] = v],
         late' \ {r0} = late \ {r0},
         r0 \in Followed \ raced => RouteInv(r0)'
  PROVE  RoutingInv'
  <1>1. ListsSound /\ alive
    BY PartsOfInv DEF On
  <1>2. /\ ListsSound' /\ Remaining(a) = {Now(a)} \cup Remaining(a)'
        /\ \A c \in Callers \ {a} : Remaining(c)' = Remaining(c)
    BY <1>1, DropSound
  <1>3. OnFile(Now(a))
    BY <1>1, HeadTask
  <1>4. \A task \in Remaining(a) \cup Remaining(a)' : OnFile(task) => ~ListsRoutes(task) /\ task.do # <<"purge">>
    BY <1>1, <1>2, FileTask
  <1>5. OnFileOf(a, r0)' \subseteq OnFileOf(a, r0)
    BY <1>2 DEF OnFileOf
  <1>6. \A task : (OnFile(task) /\ task.r = r0) \/ (task \in Remaining(a)' <=> task \in Remaining(a))
    BY <1>2, <1>3
  <1>. QED
    BY <1>1, <1>2, <1>4, <1>5, <1>6, OnOneFile

(* Whoever makes the file of a route nobody raced is alone with it, and    *)
(* the route is stored.                                                    *)
LEMMA Maker ==
  ASSUME RoutingInv, NEW a \in Callers, NEW task \in Remaining(a), Generates(task),
         NEW r, r = task.r, r \in Followed \ raced
  PROVE  /\ route[r] # Absent /\ OnFile(task) /\ task \in OnFileOf(a, r)
         /\ \A c \in Callers : ~PurgeAhead(c)
         /\ \A c \in Callers \ {a} : OnFileOf(c, r) = {}
         /\ \A other \in OnFileOf(a, r) : Generates(other) /\ other.b = route[r]
  <1>1. ListsSound /\ RouteInv(r) /\ r \in Routes
    BY PartsOfInv DEF Followed
  <1>2. OnFile(task) /\ ~Removes(task) /\ task.do # <<"purge">> /\ ~ListsRoutes(task) /\ ~Removal(task)
    BY DEF Generates, OnFile, Removes, Removal, ListsRoutes
  <1>3. task \in OnFileOf(a, r)
    BY <1>2 DEF OnFileOf
  <1>4. \A other \in Remaining(a) : ~Removal(other)
    BY <1>1, <1>2, SoundTask
  <1>5. ~PurgeAhead(a)
    BY <1>4 DEF PurgeAhead, Removal
  <1>6. \A c \in Callers \ {a} : ~PurgeAhead(c) /\ OnFileOf(c, r) = {}
    <2>1. Alone(r) /\ Holds(a, r)
      BY <1>1, <1>3, PartsOfInv DEF Holds
    <2>. QED
      BY <2>1 DEF Alone, Holds
  <1>7. route[r] # Absent
    BY <1>1, <1>2, <1>3 DEF RouteInv, Leaving
  <1>8. ASSUME NEW other \in OnFileOf(a, r) PROVE Generates(other) /\ other.b = route[r]
    <2>1. other \in Remaining(a) /\ OnFile(other)
      BY DEF OnFileOf
    <2>2. ~Removes(other) /\ ~ListsRoutes(other) /\ ~Changes(other)
      BY <1>4, <2>1 DEF Removal, ListsRoutes, Changes, OnFile
    <2>3. Generates(other)
      BY <1>1, <2>1, <2>2, SoundTask
    <2>. QED
      BY <1>1, <1>7, <2>3 DEF RouteInv, KeepsUp
  <1>. QED
    BY <1>2, <1>3, <1>5, <1>6, <1>7, <1>8

LEMMA WriteFollows ==
  ASSUME RoutingInv, NEW a \in Callers, WriteConfig(a)
  PROVE  RoutingInv'
  <1>0. PICK r0 : r0 = Now(a).r
    OBVIOUS
  <1>1. /\ On(a, "write") /\ Proceed(a) /\ UNCHANGED <<stage, pod, svc, route, alive, raced>>
        /\ \/ conf' = [conf EXCEPT ![r0] = Now(a).made] /\ late' = late
           \/ conf' = conf /\ late' = late \cup {r0}
    BY <1>0 DEF WriteConfig
  <1>2. Typed /\ ListsSound /\ alive
    BY <1>1, PartsOfInv DEF On
  <1>3. Generates(Now(a)) /\ OnFile(Now(a)) /\ Now(a).do = <<"write">> /\ Now(a) \in Remaining(a)
    BY <1>1, <1>2, HeadTask
  <1>4. /\ Remaining(a) = {Now(a)} \cup Remaining(a)'
        /\ \A c \in Callers \ {a} : Remaining(c)' = Remaining(c)
    BY <1>1, <1>2, DropSound
  <1>5. ASSUME r0 \in Followed \ raced PROVE RouteInv(r0)'
    <2>1. /\ route[r0] # Absent /\ Now(a) \in OnFileOf(a, r0)
          /\ \A c \in Callers : ~PurgeAhead(c)
          /\ \A c \in Callers \ {a} : OnFileOf(c, r0) = {}
          /\ \A other \in OnFileOf(a, r0) : Generates(other) /\ other.b = route[r0]
      BY <1>0, <1>3, <1>5, Maker
    <2>2. /\ \A c \in Callers : ~PurgeAhead(c)'
          /\ \A c \in Callers \ {a} : OnFileOf(c, r0)' = {}
          /\ OnFileOf(a, r0)' \subseteq OnFileOf(a, r0)
      BY <1>4, <2>1 DEF PurgeAhead, OnFileOf
    <2>3. Leaving(r0)' /\ TakenFirst(r0)'
      BY <1>1, <2>1, <2>2 DEF Leaving, TakenFirst
    <2>4. ASSUME r0 \notin late'
          PROVE  \/ \E c \in Callers : \E task \in Remaining(c)' \cap Listings' : r0 \in task.of
                 \/ (\A c \in Callers : \A task \in OnFileOf(c, r0)' : Fresh(task, r0)') /\ conf'[r0] = Current(r0)'
      <3>1. r0 \notin late /\ conf' = [conf EXCEPT ![r0] = Now(a).made]
        BY <1>1, <2>4
      <3>2. KeepsUp(r0) /\ r0 \in Routes /\ Listings' = Listings /\ Current(r0)' = Current(r0)
        BY <1>1, <1>5, PartsOfInv DEF RouteInv, Followed, Listings, Current
      <3>3. CASE \E c \in Callers : \E task \in Remaining(c) \cap Listings : r0 \in task.of
        <4>1. Now(a) \notin Listings
          BY <1>3, OtherTasks DEF Listings
        <4>. QED
          BY <1>4, <3>2, <3>3, <4>1
      <3>4. CASE \A c \in Callers : \A task \in OnFileOf(c, r0) : Fresh(task, r0)
        <4>1. \A task : Fresh(task, r0)' <=> Fresh(task, r0)
          BY <1>1, <3>2 DEF Fresh, Generates
        <4>2. conf'[r0] = Current(r0)
          BY <1>2, <1>3, <2>1, <3>1, <3>2, <3>4 DEF Fresh, Typed
        <4>. QED
          BY <2>2, <3>2, <3>4, <4>1, <4>2
      <3>. QED
        BY <1>2, <2>1, <3>1, <3>2, <3>3, <3>4 DEF KeepsUp
    <2>5. \A c \in Callers : \A task \in OnFileOf(c, r0)' : task.b = route'[r0]
      BY <1>1, <2>1, <2>2
    <2>6. KeepsUp(r0)'
      BY <2>4, <2>5 DEF KeepsUp
    <2>. QED
      BY <2>3, <2>6 DEF RouteInv
  <1>6. late' \ {r0} = late \ {r0}
    BY <1>1
  <1>. QED
    BY <1>0, <1>1, <1>5, <1>6, DoneWith

LEMMA RemoveFollows ==
  ASSUME RoutingInv, NEW a \in Callers, RemoveConfig(a)
  PROVE  RoutingInv'
  <1>0. PICK r0 : r0 = Now(a).r
    OBVIOUS
  <1>1. /\ On(a, "remove") /\ Proceed(a) /\ UNCHANGED <<stage, pod, svc, route, alive, late, raced>>
        /\ conf' = [conf EXCEPT ![r0] = Absent]
    BY <1>0 DEF RemoveConfig
  <1>2. Typed /\ ListsSound /\ alive
    BY <1>1, PartsOfInv DEF On
  <1>3. Removes(Now(a)) /\ OnFile(Now(a)) /\ Now(a).do = <<"remove">> /\ Now(a) \in Remaining(a)
    BY <1>1, <1>2, HeadTask
  <1>4. /\ Remaining(a) = {Now(a)} \cup Remaining(a)'
        /\ \A c \in Callers \ {a} : Remaining(c)' = Remaining(c)
    BY <1>1, <1>2, DropSound
  <1>5. ASSUME r0 \in Followed \ raced PROVE RouteInv(r0)'
    <2>1. RouteInv(r0) /\ r0 \in Routes /\ Now(a) \in OnFileOf(a, r0)
      BY <1>0, <1>3, <1>5, PartsOfInv DEF Followed, OnFileOf
    <2>2. conf'[r0] = Absent
      BY <1>1, <1>2, <2>1 DEF Typed
    <2>3. \A c \in Callers : OnFileOf(c, r0)' \subseteq OnFileOf(c, r0) /\ (PurgeAhead(c)' <=> PurgeAhead(c))
      <3>1. Now(a).do # <<"purge">>
        BY <1>3
      <3>. QED
        BY <1>4, <3>1 DEF OnFileOf, PurgeAhead
    <2>4. Leaving(r0)'
      BY <1>1, <2>1, <2>2, <2>3 DEF Leaving, RouteInv, Removes
    <2>5. TakenFirst(r0)'
      BY <2>2 DEF TakenFirst
    <2>6. KeepsUp(r0)'
      <3>1. ~Generates(Now(a)) /\ Now(a) \notin Listings
        <4>1. \A task \in Listings : ~OnFile(task)
          BY OtherTasks DEF Listings
        <4>. QED
          BY <1>3, <4>1 DEF Generates
      <3>2. Listings' = Listings
        BY <1>1 DEF Listings, Followed
      <3>3. ASSUME route[r0] # Absent, r0 \notin late
            PROVE  \/ \E c \in Callers : PurgeAhead(c)'
                   \/ \E c \in Callers : \E task \in Remaining(c)' \cap Listings' : r0 \in task.of
        <4>1. ~Fresh(Now(a), r0)
          BY <3>1 DEF Fresh
        <4>2. \/ \E c \in Callers : PurgeAhead(c)
              \/ \E c \in Callers : \E task \in Remaining(c) \cap Listings : r0 \in task.of
          BY <1>2, <2>1, <3>3, <4>1 DEF RouteInv, KeepsUp
        <4>. QED
          BY <1>4, <2>3, <3>1, <3>2, <4>2
      <3>4. route[r0] # Absent =>
              \A c \in Callers : \A task \in OnFileOf(c, r0) : Generates(task) => task.b = route[r0]
        BY <2>1 DEF RouteInv, KeepsUp
      <3>. QED
        BY <1>1, <2>3, <3>3, <3>4 DEF KeepsUp, Generates
    <2>. QED
      BY <2>4, <2>5, <2>6 DEF RouteInv
  <1>6. late' \ {r0} = late \ {r0}
    BY <1>1
  <1>. QED
    BY <1>0, <1>1, <1>5, <1>6, DoneWith

(* A list goes on with tasks on files in front. *)
LEMMA AddedCoherent ==
  ASSUME NEW M, NEW T, Coherent(T), \A task \in T : task.do # <<"store">>,
         \A task \in M : /\ "do" \in DOMAIN task /\ OnFile(task) /\ task.r \in Routes
                         /\ Removes(task) \/ Generates(task),
         (\A task \in M \cup T : Removal(task)) \/ (\A task \in M \cup T : ~Removal(task))
  PROVE  Coherent(M \cup T)
  <1>1. \A task \in M : ~ListsRoutes(task) /\ task.do # <<"pod">> /\ task.do # <<"store">>
    <2>1. \A task : OnFile(task) => ~ListsRoutes(task)
      BY DEF OnFile, ListsRoutes
    <2>2. \A task : Removes(task) \/ Generates(task) =>
                      task.do \in {<<"remove">>, <<"write">>, <<"resolve", "write">>}
      BY DEF Removes, Generates
    <2>. QED
      BY <2>1, <2>2
  <1>2. \A task \in T : task.do = <<"pod">> => Listings \subseteq M \cup T
    BY DEF Coherent
  <1>3. (\E task \in M \cup T : ListsRoutes(task) /\ task.then = "remove") => \E task \in M \cup T : task.do = <<"purge">>
    BY <1>1 DEF Coherent
  <1>4. \A task \in M \cup T :
          /\ "do" \in DOMAIN task
          /\ Removes(task) \/ Generates(task) \/ ListsRoutes(task) \/ Changes(task)
          /\ OnFile(task) => task.r \in Routes
    BY DEF Coherent
  <1>. QED
    BY <1>1, <1>2, <1>3, <1>4 DEF Coherent

LEMMA NothingElseStores ==
  ASSUME ListsSound, NEW a \in Callers, NEW task \in Remaining(a), task.do # <<"store">>
  PROVE  \A other \in Remaining(a) : other.do # <<"store">>
  BY SoundTask

LEMMA HeadReplaced ==
  ASSUME NEW todo, InOrder(todo), todo # <<>>, NEW new
  PROVE  [todo EXCEPT ![1] = new] = <<new>> \o Tail(todo)
  <1> DEFINE n == Len(todo)
             R == Range(todo) \cup {new}
             s == [todo EXCEPT ![1] = new]
             u == <<new>> \o Tail(todo)
  <1>1. todo \in Seq(R) /\ n \in Nat \ {0}
    <2>1. todo \in Seq(Range(todo)) /\ Range(todo) \subseteq R
      BY DEF InOrder
    <2>2. n \in Nat \ {0}
      BY <2>1
    <2> HIDE DEF R, n
    <2>. QED
      BY <2>1, <2>2, SeqWiden
  <1>2. new \in R
    OBVIOUS
  <1> HIDE DEF R
  <1>3. s \in Seq(R) /\ Len(s) = n /\ \A j \in 1..n : s[j] = IF j = 1 THEN new ELSE todo[j]
    <2>1. 1 \in 1..Len(todo)
      BY <1>1
    <2>. QED
      BY <1>1, <1>2, <2>1, ExceptSeq
  <1>4. Tail(todo) \in Seq(R) /\ Len(Tail(todo)) = n - 1 /\ \A j \in 1..(n - 1) : Tail(todo)[j] = todo[j + 1]
    BY <1>1
  <1>5. u \in Seq(R) /\ Len(u) = n /\ \A j \in 1..n : u[j] = IF j = 1 THEN new ELSE todo[j]
    <2>1. <<new>> \in Seq(R) /\ Len(<<new>>) = 1 /\ <<new>>[1] = new
      BY <1>2
    <2> HIDE DEF n
    <2>2. u \in Seq(R) /\ Len(u) = 1 + (n - 1)
      BY <1>1, <1>4, <2>1
    <2>3. \A j \in 1..n : u[j] = IF j <= 1 THEN <<new>>[j] ELSE Tail(todo)[j - 1]
      BY <1>1, <1>4, <2>1
    <2>4. ASSUME NEW j \in 1..n, j # 1 PROVE Tail(todo)[j - 1] = todo[j]
      <3>1. j - 1 \in 1..(n - 1) /\ (j - 1) + 1 = j
        BY <1>1, <2>4
      <3>. QED
        BY <1>4, <3>1
    <2>. QED
      BY <1>1, <2>1, <2>2, <2>3, <2>4
  <1> HIDE DEF s, u, n
  <1>6. s = u
    BY <1>3, <1>5, SeqEqual
  <1>. QED
    BY <1>6 DEF s, u

(* A file is made of what is stored at this moment. *)
LEMMA ResolveMakes ==
  ASSUME RoutingInv, NEW a \in Callers, Resolve(a)
  PROVE  \E new, T :
           /\ ListsSound' /\ Remaining(a) = {Now(a)} \cup T /\ Remaining(a)' = {new} \cup T
           /\ \A c \in Callers \ {a} : Remaining(c)' = Remaining(c)
           /\ \A task \in T : Unmade(task)
           /\ Generates(new) /\ OnFile(new) /\ new.r = Now(a).r /\ new.b = Now(a).b
           /\ new.made = Render(new.r, new.b, svc[new.b.svc], pod)
  <1> DEFINE made == Render(Now(a).r, Now(a).b, svc[Now(a).b.svc], pod)
             new == [Now(a) EXCEPT !.do = <<"write">>, !.made = made]
             T == Range(Tail(tasks[a]))
  <1>1. On(a, "resolve") /\ UNCHANGED stage /\ ListsSound
    BY PartsOfInv DEF Resolve
  <1>2. /\ Now(a) \in Remaining(a) /\ Generates(Now(a)) /\ OnFile(Now(a)) /\ Now(a) = tasks[a][1]
        /\ Now(a).do = <<"resolve", "write">> /\ tasks[a] # <<>>
    <2>1. <<"resolve">> # <<"resolve", "write">> /\ <<"resolve">> # <<"write">>
      OBVIOUS
    <2>. QED
      BY <1>1, <2>1, HeadTask DEF Generates
  <1>3. Tail(Now(a).do) = <<"write">>
    BY <1>2
  <1>4. tasks' = [tasks EXCEPT ![a] = [tasks[a] EXCEPT ![1] = new]]
    <2>1. tasks' = [tasks EXCEPT ![a][1].do = Tail(@), ![a][1].made = made]
      BY DEF Resolve
    <2>2. tasks[a] \in Seq(Range(tasks[a])) /\ 1 \in DOMAIN tasks[a] /\ tasks \in [Callers -> Range(tasks)]
      BY <1>1, <1>2 DEF ListsSound, Sound, InOrder
    <2>3. DOMAIN Now(a) = {"do", "r", "b", "made"}
      BY <1>2 DEF Generates
    <2> HIDE DEF made
    <2>. QED
      BY <1>2, <1>3, <2>1, <2>2, <2>3
  <1>5. /\ Generates(new) /\ OnFile(new) /\ new.r = Now(a).r /\ new.b = Now(a).b
        /\ new.made = Render(new.r, new.b, svc[new.b.svc], pod) /\ new.do = <<"write">>
        /\ ~Removal(new) /\ "do" \in DOMAIN new /\ Rank(new) = 0
    <2>1. /\ DOMAIN Now(a) = {"do", "r", "b", "made"} /\ Now(a).r \notin Middlewares
      BY <1>2 DEF Generates
    <2>2. /\ DOMAIN new = {"do", "r", "b", "made"} /\ new.do = <<"write">>
          /\ new.r = Now(a).r /\ new.b = Now(a).b /\ new.made = made
      BY <2>1
    <2> HIDE DEF new
    <2>3. Generates(new) /\ OnFile(new) /\ ~Removal(new)
      BY <2>1, <2>2 DEF Generates, OnFile, Removal, Removes, ListsRoutes
    <2>. QED
      BY <2>2, <2>3 DEF Rank
  <1> HIDE DEF new, made
  <1>6. InOrder(tasks[a])
    BY <1>1 DEF ListsSound, Sound
  <1>7. /\ InOrder(Tail(tasks[a])) /\ Remaining(a) = {Now(a)} \cup T
        /\ \A task \in T : Rank(Now(a)) <= Rank(task) /\ Unmade(task)
    BY <1>2, <1>6, TailInOrder DEF Remaining, Now
  <1>8. InOrder(<<new>> \o Tail(tasks[a])) /\ Range(<<new>> \o Tail(tasks[a])) = {new} \cup T
    <2>1. \A x \in Range(<<new>>), y \in Range(Tail(tasks[a])) : Rank(x) <= Rank(y) /\ Unmade(y)
      BY <1>5, <1>7, ShortLists DEF Rank
    <2>. QED
      BY <1>7, <2>1, ShortLists, JoinInOrder
  <1>9. tasks' = [tasks EXCEPT ![a] = <<new>> \o Tail(tasks[a])]
    BY <1>2, <1>4, <1>6, HeadReplaced
  <1>10. Coherent({new} \cup T)
    <2>1. Coherent(T)
      BY <1>1, <1>2, <1>7, RestCoherent
    <2>2. \A task \in T : task.do # <<"store">> /\ ~Removal(task)
      <3>1. ~Removal(Now(a)) /\ Now(a).do # <<"store">>
        BY <1>2 DEF Removal, Removes, ListsRoutes
      <3>2. \A task \in Remaining(a) : ~Removal(task) /\ task.do # <<"store">>
        BY <1>1, <1>2, <3>1, SoundTask, NothingElseStores
      <3>. QED
        BY <1>7, <3>2
    <2>3. Now(a).r \in Routes
      BY <1>1, <1>2, SoundTask
    <2>. QED
      BY <1>5, <2>1, <2>2, <2>3, AddedCoherent
  <1>11. Sound(<<new>> \o Tail(tasks[a]))
    BY <1>8, <1>10 DEF Sound
  <1>12. /\ ListsSound' /\ Remaining(a)' = {new} \cup T
         /\ \A c \in Callers \ {a} : Remaining(c)' = Remaining(c)
    BY <1>1, <1>8, <1>9, <1>11, BeginSound DEF Begin
  <1>. QED
    BY <1>5, <1>7, <1>12

LEMMA ResolveFollows ==
  ASSUME RoutingInv, NEW a \in Callers, Resolve(a)
  PROVE  RoutingInv'
  <1>0. PICK r0 : r0 = Now(a).r
    OBVIOUS
  <1>1. /\ On(a, "resolve") /\ UNCHANGED <<stage, pod, svc, route, conf, alive, raced>>
        /\ late' = late \ {r0} /\ alive
    BY <1>0 DEF Resolve, On, routing
  <1>2. ListsSound
    BY PartsOfInv
  <1>3. PICK new, T :
           /\ ListsSound' /\ Remaining(a) = {Now(a)} \cup T /\ Remaining(a)' = {new} \cup T
           /\ \A c \in Callers \ {a} : Remaining(c)' = Remaining(c)
           /\ \A task \in T : Unmade(task)
           /\ Generates(new) /\ OnFile(new) /\ new.r = Now(a).r /\ new.b = Now(a).b
           /\ new.made = Render(new.r, new.b, svc[new.b.svc], pod)
    BY ResolveMakes
  <1>4. Now(a) \in Remaining(a) /\ Generates(Now(a)) /\ OnFile(Now(a)) /\ r0 \notin Middlewares
    <2>1. Now(a).do # <<"write">>
      <3>1. Head(Now(a).do) = "resolve"
        BY <1>1 DEF On
      <3>. QED
        BY <3>1
    <2>. QED
      BY <1>0, <1>1, <1>2, <2>1, HeadTask DEF Generates
  <1>5. \A task \in Remaining(a) \cup Remaining(a)' : OnFile(task) => ~ListsRoutes(task) /\ task.do # <<"purge">>
    <2>1. ~ListsRoutes(new) /\ new.do # <<"purge">>
      BY <1>3 DEF Generates, ListsRoutes
    <2>. QED
      BY <1>2, <1>3, <2>1, FileTask
  <1>6. \A task : (OnFile(task) /\ task.r = r0) \/ (task \in Remaining(a)' <=> task \in Remaining(a))
    BY <1>0, <1>3, <1>4
  <1>7. OnFileOf(a, r0) # {}
    BY <1>0, <1>4 DEF OnFileOf
  <1>8. ASSUME r0 \in Followed \ raced PROVE RouteInv(r0)'
    <2>1. /\ route[r0] # Absent /\ Now(a) \in OnFileOf(a, r0)
          /\ \A c \in Callers : ~PurgeAhead(c)
          /\ \A c \in Callers \ {a} : OnFileOf(c, r0) = {}
          /\ \A other \in OnFileOf(a, r0) : Generates(other) /\ other.b = route[r0]
      BY <1>0, <1>4, <1>8, Maker
    <2>2. /\ \A c \in Callers : ~PurgeAhead(c)'
          /\ \A c \in Callers \ {a} : OnFileOf(c, r0)' = {}
      <3>1. new.do # <<"purge">>
        BY <1>3, <1>5
      <3>. QED
        BY <1>3, <2>1, <3>1 DEF PurgeAhead, OnFileOf
    <2>3. Leaving(r0)' /\ TakenFirst(r0)'
      BY <1>1, <2>1, <2>2 DEF Leaving, TakenFirst
    <2>4. new \in OnFileOf(a, r0)'
      BY <1>0, <1>3 DEF OnFileOf
    <2>5. ASSUME NEW task \in OnFileOf(a, r0)' PROVE Fresh(task, r0)' /\ task.b = route'[r0]
      <3>1. CASE task = new
        <4>1. new.b = route[r0] /\ new.made = Current(r0)
          BY <1>0, <1>3, <1>4, <2>1 DEF Current
        <4>2. Current(r0)' = Current(r0)
          BY <1>1 DEF Current
        <4>. QED
          BY <1>1, <1>3, <3>1, <4>1, <4>2 DEF Fresh, Generates
      <3>2. CASE task \in T
        <4>1. task \in OnFileOf(a, r0) /\ task.r = r0
          BY <1>3, <3>2 DEF OnFileOf
        <4>2. task.do = <<"resolve", "write">>
          BY <1>3, <1>4, <2>1, <3>2, <4>1 DEF Unmade
        <4>. QED
          BY <1>1, <2>1, <4>1, <4>2 DEF Fresh, Generates
      <3>. QED
        BY <1>3, <3>1, <3>2 DEF OnFileOf
    <2>6. \A c \in Callers : \A task \in OnFileOf(c, r0)' : Fresh(task, r0)' /\ task.b = route'[r0]
      BY <2>2, <2>5
    <2>7. KeepsUp(r0)'
      BY <2>4, <2>6 DEF KeepsUp
    <2>. QED
      BY <2>3, <2>7 DEF RouteInv
  <1>9. late' \ {r0} = late \ {r0}
    BY <1>1
  <1>. QED
    BY <1>1, <1>3, <1>5, <1>6, <1>7, <1>8, <1>9, OnOneFile

(* The tasks for the objects a listing finds. *)
Found(then, r) == IF then = "remove" THEN Unroute(r) ELSE Generate(r, route[r])
FoundIn(then, R) == [j \in 1..Len(SetToSeq(R)) |-> Found(then, SetToSeq(R)[j])]

FoundSound(then, r) ==
  /\ OnFile(Found(then, r)) /\ Found(then, r).r = r /\ "do" \in DOMAIN Found(then, r)
  /\ Rank(Found(then, r)) = 0 /\ Unmade(Found(then, r))
  /\ Found(then, r).do # <<"purge">> /\ ~ListsRoutes(Found(then, r))
  /\ then = "remove" => Removes(Found(then, r)) /\ Removal(Found(then, r))
  /\ then # "remove" => Generates(Found(then, r)) /\ ~Removal(Found(then, r))

LEMMA FoundTasks ==
  ASSUME NEW then, NEW R \in SUBSET Routes
  PROVE  /\ InOrder(FoundIn(then, R)) /\ Range(FoundIn(then, R)) = {Found(then, r) : r \in R}
         /\ \A r \in R : FoundSound(then, r)
  <1> DEFINE rs == SetToSeq(R)
             S == {Found(then, r) : r \in R}
             todo == FoundIn(then, R)
  <1>1. rs \in Seq(R) /\ Range(rs) = R
    <2>1. IsFiniteSet(R)
      BY FS_Subset
    <2>. QED
      BY <2>1, SetToSeqIsSeq, SetToSeqCovers
  <1>2. ASSUME NEW r \in R PROVE FoundSound(then, r)
    <2>1. r \in Routes
      OBVIOUS
    <2>2. CASE then = "remove"
      <3>1. Found(then, r) = Unroute(r)
        BY <2>2 DEF Found
      <3>2. Found(then, r).do = <<"remove">>
        BY <2>1, <3>1, FileTasks
      <3>. QED
        BY <2>1, <2>2, <3>1, <3>2, FileTasks DEF FoundSound
    <2>3. CASE then # "remove"
      <3>1. Found(then, r) = Generate(r, route[r])
        BY <2>3 DEF Found
      <3>2. Found(then, r).do \in {<<"write">>, <<"resolve", "write">>}
        BY <2>1, <3>1, FileTasks
      <3>3. Found(then, r).do # <<"purge">>
        BY <3>2
      <3>. QED
        BY <2>1, <2>3, <3>1, <3>3, FileTasks DEF FoundSound
    <2>. QED
      BY <2>2, <2>3
  <1>3. todo = [j \in 1..Len(rs) |-> Found(then, rs[j])]
    BY DEF FoundIn
  <1> HIDE DEF rs, todo
  <1>4. todo \in Seq(S) /\ Range(todo) = S
    <2>1. Len(rs) \in Nat /\ DOMAIN rs = 1..Len(rs) /\ \A j \in 1..Len(rs) : rs[j] \in R
      BY <1>1
    <2>2. todo \in [1..Len(rs) -> S]
      BY <1>3, <2>1
    <2>3. todo \in Seq(S)
      BY <2>1, <2>2, SeqDef
    <2>4. \A r : r \in R <=> \E j \in 1..Len(rs) : rs[j] = r
      BY <1>1, <2>1 DEF Range
    <2>5. \A task : task \in Range(todo) <=> \E j \in 1..Len(rs) : task = Found(then, rs[j])
      BY <1>3, <2>1 DEF Range
    <2>. QED
      BY <2>3, <2>4, <2>5
  <1>5. \A task \in S : Rank(task) = 0 /\ Unmade(task)
    BY <1>2 DEF FoundSound
  <1> HIDE DEF S
  <1>6. InOrder(todo)
    BY <1>4, <1>5, AlikeInOrder
  <1>. QED
    BY <1>2, <1>4, <1>6 DEF todo, S

LEMMA ListMakes ==
  ASSUME RoutingInv, NEW a \in Callers, ListRoutes(a),
         NEW T, NEW R, NEW then,
         R = Now(a).of \cap Stored, then = Now(a).then, T = Range(Tail(tasks[a]))
  PROVE  /\ raced' = Opened(a, R)
         /\ ListsSound' /\ Remaining(a) = {Now(a)} \cup T
         /\ Remaining(a)' = {Found(then, r) : r \in R} \cup T
         /\ \A c \in Callers \ {a} : Remaining(c)' = Remaining(c)
         /\ \A task \in T : ~OnFile(task)
  <1>1. /\ On(a, "list") /\ Finish(a, <<>>, FoundIn(then, R)) /\ raced' = Opened(a, R) /\ UNCHANGED stage
    BY DEF ListRoutes, FoundIn, Found
  <1>2. ListsSound /\ R \in SUBSET Routes
    BY PartsOfInv DEF Stored
  <1>3. /\ Now(a) \in Remaining(a) /\ tasks[a] # <<>> /\ ListsRoutes(Now(a)) /\ ~OnFile(Now(a))
    BY <1>1, <1>2, HeadTask
  <1>4. /\ InOrder(FoundIn(then, R)) /\ Range(FoundIn(then, R)) = {Found(then, r) : r \in R}
        /\ \A r \in R : FoundSound(then, r)
    <2>1. \A r \in R : FoundSound(then, r)
      BY <1>2, FoundTasks
    <2>2. InOrder(FoundIn(then, R))
      BY <1>2, FoundTasks
    <2>3. Range(FoundIn(then, R)) = {Found(then, r) : r \in R}
      BY <1>2, FoundTasks
    <2>. QED
      BY <2>1, <2>2, <2>3
  <1>5. /\ InOrder(tasks'[a]) /\ Remaining(a) = {Now(a)} \cup T
        /\ Remaining(a)' = {Found(then, r) : r \in R} \cup T
        /\ \A task \in T : Rank(Now(a)) <= Rank(task)
        /\ \A c \in Callers \ {a} : tasks'[c] = tasks[c] /\ Remaining(c)' = Remaining(c)
        /\ tasks' \in [Callers -> Range(tasks')]
    <2>1. \A task \in Range(FoundIn(then, R)) : Rank(task) = 0 /\ Unmade(task)
      BY <1>4 DEF FoundSound
    <2>. QED
      BY <1>1, <1>2, <1>3, <1>4, <2>1, StepSound
  <1>6. \A task \in T : ~OnFile(task)
    <2>1. Rank(Now(a)) = 2
      BY <1>3 DEF Rank
    <2>2. \A task : OnFile(task) => Rank(task) = 0
      BY DEF Rank
    <2>. QED
      BY <1>5, <2>1, <2>2
  <1>7. Coherent({Found(then, r) : r \in R} \cup T)
    <2>1. Coherent(T)
      BY <1>2, <1>3, <1>5, RestCoherent
    <2>2. \A task \in T : task.do # <<"store">>
      <3>1. Now(a).do # <<"store">>
        BY <1>3 DEF ListsRoutes
      <3>. QED
        BY <1>2, <1>3, <1>5, <3>1, NothingElseStores
    <2>3. (\A task \in Remaining(a) : Removal(task)) \/ (\A task \in Remaining(a) : ~Removal(task))
      BY <1>2, <1>3, SoundTask
    <2>4. Removal(Now(a)) <=> then = "remove"
      BY <1>3 DEF Removal, Removes, ListsRoutes
    <2>5. \/ (\A task \in {Found(then, r) : r \in R} \cup T : Removal(task))
          \/ (\A task \in {Found(then, r) : r \in R} \cup T : ~Removal(task))
      <3>1. \A r \in R : Removal(Found(then, r)) <=> Removal(Now(a))
        BY <1>4, <2>4 DEF FoundSound
      <3>. QED
        BY <1>3, <1>5, <2>3, <3>1
    <2>6. \A task \in {Found(then, r) : r \in R} :
            /\ "do" \in DOMAIN task /\ OnFile(task) /\ task.r \in Routes
            /\ Removes(task) \/ Generates(task)
      <3>1. ASSUME NEW r \in R
            PROVE  /\ "do" \in DOMAIN Found(then, r) /\ OnFile(Found(then, r)) /\ Found(then, r).r \in Routes
                   /\ Removes(Found(then, r)) \/ Generates(Found(then, r))
        <4>1. OnFile(Found(then, r)) /\ Found(then, r).r = r /\ "do" \in DOMAIN Found(then, r)
          BY <1>4 DEF FoundSound
        <4>2. Removes(Found(then, r)) \/ Generates(Found(then, r))
          BY <1>4 DEF FoundSound
        <4>. QED
          BY <1>2, <4>1, <4>2
      <3>. QED
        BY <3>1
    <2>. QED
      BY <2>1, <2>2, <2>5, <2>6, AddedCoherent
  <1>8. ListsSound'
    <2>1. Sound(tasks'[a])
      BY <1>5, <1>7 DEF Sound, Remaining
    <2>2. \A c \in Callers \ {a} : Sound(tasks'[c])
      BY <1>2, <1>5 DEF ListsSound
    <2>3. \A todo : Sound(todo)' <=> Sound(todo)
      BY <1>1 DEF Sound, InOrder, Coherent, Listings, Followed
    <2>. QED
      BY <1>5, <2>1, <2>2, <2>3 DEF ListsSound
  <1>. QED
    BY <1>1, <1>5, <1>6, <1>8

LEMMA ListFollows ==
  ASSUME RoutingInv, NEW a \in Callers, ListRoutes(a)
  PROVE  RoutingInv'
  <1>0. PICK T, R, then : R = Now(a).of \cap Stored /\ then = Now(a).then /\ T = Range(Tail(tasks[a]))
    OBVIOUS
  <1>1. /\ R = Now(a).of \cap Stored /\ then = Now(a).then /\ raced' = Opened(a, R)
        /\ ListsSound' /\ Remaining(a) = {Now(a)} \cup T
        /\ Remaining(a)' = {Found(then, r) : r \in R} \cup T
        /\ \A c \in Callers \ {a} : Remaining(c)' = Remaining(c)
        /\ \A task \in T : ~OnFile(task)
    BY <1>0, ListMakes
  <1>2. /\ On(a, "list") /\ alive /\ UNCHANGED <<stage, pod, svc, route, conf, alive, late>>
    BY DEF ListRoutes, On, routing
  <1>3. Typed /\ ListsSound /\ R \in SUBSET Routes
    BY <1>1, PartsOfInv DEF Stored
  <1>4. ListsRoutes(Now(a)) /\ ~OnFile(Now(a)) /\ Now(a).do # <<"purge">> /\ Now(a) \in Remaining(a)
    BY <1>2, <1>3, HeadTask DEF ListsRoutes
  <1>5. Typed'
    BY <1>1, <1>2, <1>3 DEF Typed, ListsSound
  <1>6. \A r \in R : /\ OnFile(Found(then, r)) /\ Found(then, r).r = r /\ Found(then, r).do # <<"purge">>
                     /\ ~ListsRoutes(Found(then, r)) /\ FoundSound(then, r)
    BY <1>3, FoundTasks DEF FoundSound
  <1>7. \A r : OnFileOf(a, r) = {} /\ OnFileOf(a, r)' = IF r \in R THEN {Found(then, r)} ELSE {}
    <2>1. ASSUME NEW r PROVE OnFileOf(a, r) = {} /\ OnFileOf(a, r)' = IF r \in R THEN {Found(then, r)} ELSE {}
      <3>1. OnFileOf(a, r) = {}
        BY <1>1, <1>4 DEF OnFileOf
      <3>2. \A task : task \in OnFileOf(a, r)' <=> r \in R /\ task = Found(then, r)
        BY <1>1, <1>6 DEF OnFileOf, OnFile
      <3>. QED
        BY <3>1, <3>2
    <2>. QED
      BY <2>1
  <1>8. PurgeAhead(a)' <=> PurgeAhead(a)
    BY <1>1, <1>4, <1>6 DEF PurgeAhead
  <1>9. ASSUME NEW r \in Routes \ raced' PROVE Alone(r)'
    <2>1. CASE r \in R
      BY <1>1, <2>1, OpenedFor, AloneStays
    <2>2. CASE r \notin R
      <3>1. Alone(r)
        BY <1>1, <2>2, OpenedFor, PartsOfInv
      <3>2. OnFileOf(a, r)' = {}
        BY <1>7, <2>2
      <3>3. Holds(a, r)' => Holds(a, r)
        BY <1>8, <3>2 DEF Holds
      <3>. QED
        BY <1>1, <3>1, <3>3, AloneStays
    <2>. QED
      BY <2>1, <2>2
  <1>10. ASSUME NEW r \in Followed' \ raced' PROVE RouteInv(r)'
    <2>1. r \in Routes \ raced' /\ r \in Followed
      BY <1>2 DEF Followed
    <2>2. CASE r \notin R
      <3>1. RouteInv(r)
        BY <1>1, <2>1, <2>2, OpenedFor, PartsOfInv
      <3>2. route[r] = Absent \/ r \notin Now(a).of
        BY <1>1, <2>1, <2>2 DEF Stored
      <3>3. SameWork(r)
        <4>1. OnFileOf(a, r)' = OnFileOf(a, r)
          <5>1. OnFileOf(a, r)' = {}
            BY <1>7, <2>2
          <5>. QED
            BY <1>7, <5>1
        <4>2. \A c \in Callers \ {a} : OnFileOf(c, r)' = OnFileOf(c, r) /\ (PurgeAhead(c)' <=> PurgeAhead(c))
          BY <1>1 DEF OnFileOf, PurgeAhead
        <4>3. route[r] # Absent =>
                \A c \in Callers : \A task \in Remaining(c) : ListsRoutes(task) /\ r \in task.of => task \in Remaining(c)'
          BY <1>1, <3>2
        <4>. QED
          BY <1>8, <4>1, <4>2, <4>3 DEF SameWork
      <3>4. Current(r)' = Current(r)
        BY <1>2 DEF Current
      <3>. QED
        BY <1>2, <2>1, <3>1, <3>3, <3>4, Undisturbed
    <2>3. CASE r \in R
      <3>1. \A c \in Callers \ {a} : ~Holds(c, r)
        BY <1>1, <2>1, <2>3, OpenedFor
      <3>2. \A c \in Callers \ {a} : ~PurgeAhead(c)' /\ OnFileOf(c, r)' = {}
        BY <1>1, <3>1 DEF Holds, PurgeAhead, OnFileOf
      <3>3. route[r] # Absent /\ OnFileOf(a, r)' = {Found(then, r)}
        BY <1>1, <1>7, <2>3 DEF Stored
      <3>4. Leaving(r)'
        BY <1>2, <3>3 DEF Leaving
      <3>5. TakenFirst(r)'
        BY <3>2, <3>3 DEF TakenFirst
      <3>6. CASE then = "remove"
        <4>1. Removes(Found(then, r))
          BY <1>6, <2>3, <3>6 DEF FoundSound
        <4>2. PurgeAhead(a)'
          <5>1. \E task \in Remaining(a) : task.do = <<"purge">>
            BY <1>1, <1>3, <1>4, <3>6 DEF ListsSound, Sound, Coherent, Remaining
          <5>. QED
            BY <1>8, <5>1 DEF PurgeAhead
        <4>3. KeepsUp(r)'
          BY <3>2, <3>3, <4>1, <4>2 DEF KeepsUp, Removes, Generates
        <4>. QED
          BY <3>4, <3>5, <4>3 DEF RouteInv
      <3>7. CASE then # "remove"
        <4>0. PICK task0 : task0 = Found(then, r)
          OBVIOUS
        <4>1. Generates(task0) /\ task0 = Generate(r, route[r])
          BY <1>6, <2>3, <3>7, <4>0 DEF FoundSound, Found
        <4>2. Fresh(task0, r)' /\ task0.b = route[r]
          <5>1. Generate(r, route[r]).b = route[r]
            BY DEF Generate
          <5>2. Generate(r, route[r]).do = <<"write">> => Generate(r, route[r]).made = Current(r)
            BY DEF Generate, Current, Render
          <5>3. Current(r)' = Current(r)
            BY <1>2 DEF Current
          <5>. QED
            BY <1>2, <4>1, <5>1, <5>2, <5>3 DEF Fresh, Generates
        <4>3. KeepsUp(r)'
          BY <1>2, <3>2, <3>3, <4>0, <4>2 DEF KeepsUp
        <4>. QED
          BY <3>4, <3>5, <4>3 DEF RouteInv
      <3>. QED
        BY <3>6, <3>7
    <2>. QED
      BY <2>2, <2>3
  <1>. QED
    BY <1>1, <1>2, <1>5, <1>9, <1>10, PartsOfNext

---------------------------------------------------------------------------
(* The invariant of routed files *)

LEMMA InitRoutingInv == TraefikInit => RoutingInv
  <1> SUFFICES ASSUME TraefikInit PROVE RoutingInv
    OBVIOUS
  <1>1. /\ tasks = [c \in Callers |-> <<>>] /\ route = [r \in Routes |-> Absent]
        /\ conf = [r \in Routes |-> Absent] /\ pod = [p \in Members |-> Absent] /\ alive
    BY DEF TraefikInit
  <1>2. Typed /\ \A c \in Callers : Remaining(c) = {}
    BY <1>1, ShortLists DEF Typed, Range, Remaining
  <1>3. ListsSound
    BY <1>1, <1>2, NewLists DEF ListsSound, Typed
  <1>4. \A c \in Callers : ~PurgeAhead(c) /\ \A r : OnFileOf(c, r) = {}
    BY <1>2 DEF PurgeAhead, OnFileOf
  <1>5. \A r \in Routes : Alone(r)
    BY <1>4 DEF Alone, Holds
  <1>6. \A r \in Followed : RouteInv(r)
    BY <1>1, <1>4 DEF Followed, RouteInv, Leaving, TakenFirst, KeepsUp
  <1>. QED
    BY <1>1, <1>2, <1>3, <1>5, <1>6, PartsOfInv

LEMMA NextRoutingInv == TcpInv /\ RoutingInv /\ [TraefikNext]_traefikVars => RoutingInv'
  <1> SUFFICES ASSUME TcpInv, RoutingInv, [TraefikNext]_traefikVars PROVE RoutingInv'
    OBVIOUS
  <1>1. ASSUME NEW a \in Clients, RoutingCalls(a) PROVE RoutingInv'
    <2>1. a \in Callers
      BY DEF Callers
    <2>2. CASE \E r \in Routes \cap stage :
                 DeleteRoute(a, r) \/ \E b \in RouteBodies(r) : WriteIngress(a, r, b) \/ WriteMiddleware(a, r, b)
      BY <2>1, <2>2, CallsOnFiles
    <2>3. CASE DeleteNamespace_(a)
      BY <2>1, <2>3, DeleteBegins
    <2>4. CASE \/ \E P \in SUBSET (Members \cap stage) : \E spec : ChangePods(a, P, spec)
               \/ \E p \in Members : \E spec : PatchPod_(a, p, spec)
               \/ \E s, label : PostService_(a, s, label) \/ PatchService_(a, s, label) \/ DeleteService_(a, s)
               \/ \E t \in TcpRoutes : \E b : CheckTcpRoute(a, t, b)
      BY <2>1, <2>4, CallsQuiet
    <2>. QED
      BY <1>1, <2>2, <2>3, <2>4 DEF RoutingCalls
  <1>2. ASSUME NEW a \in Callers, RoutingStep(a) PROVE RoutingInv'
    BY <1>2, StagesQuiet, StoreOnFile, ListFollows, ResolveFollows, WriteFollows, RemoveFollows, PurgeLeaves
       DEF RoutingStep
  <1>3. CASE SyncMembers
    BY <1>3, SyncQuiet DEF SyncMembers
  <1>4. CASE DieRouting \/ BootRouting
    BY <1>4, DeathStops, StartLists
  <1>5. CASE UNCHANGED traefikVars
    <2>1. UNCHANGED <<stage, pod, svc, route, conf, tasks, alive, late, raced>>
      BY <1>5 DEF traefikVars, routing
    <2>2. ListsSound /\ pod \in [Members -> Range(pod)]
      BY PartsOfInv DEF Typed
    <2>3. ListsSound' /\ \A c \in Callers : Remaining(c)' = Remaining(c)
      BY <2>1, <2>2, ListsUnchanged
    <2>4. \A c \in Callers : (PurgeAhead(c)' <=> PurgeAhead(c)) /\ \A r : OnFileOf(c, r)' = OnFileOf(c, r)
      BY <2>3 DEF PurgeAhead, OnFileOf
    <2>5. \A r \in Routes \ raced : Alone(r)'
      BY <2>4, PartsOfInv DEF Alone, Holds
    <2>6. ASSUME NEW r \in Followed \ raced PROVE RouteInv(r)'
      <3>1. SameWork(r)
        BY <2>3, <2>4 DEF SameWork
      <3>2. Current(r)' = Current(r)
        BY <2>1 DEF Current
      <3>. QED
        BY <2>1, <3>1, <3>2, PartsOfInv, Undisturbed
    <2>7. Typed' /\ (alive' \/ \A c \in Callers : tasks'[c] = <<>>) /\ Followed' = Followed
      BY <2>1, PartsOfInv DEF Typed, Followed
    <2>. QED
      BY <2>1, <2>3, <2>5, <2>6, <2>7, PartsOfNext
  <1>. QED
    BY <1>1, <1>2, <1>3, <1>4, <1>5 DEF TraefikNext

LEMMA RoutingInvariant == TraefikSpec => []RoutingInv
  BY InitTcpInv, NextTcpInv, InitRoutingInv, NextRoutingInv, PTL DEF TraefikSpec

(* "or the hostnames keep routing to backends in a namespace that no       *)
(* longer exists" (purgeNamespaceResources): for any number of requests at *)
(* once, of objects and of deaths, a route that is gone from the store has *)
(* no file when all is quiet, unless two writers of it overlapped or q8s   *)
(* died between the two.                                                   *)
THEOREM DeletedRoutesAreUnrouted == TraefikSpec => []DeletedAreUnrouted
  <1>1. RoutingInv => DeletedAreUnrouted
    <2> SUFFICES ASSUME RoutingInv, Settled, NEW r \in Followed \ raced, route[r] = Absent
                 PROVE  conf[r] = Absent
      BY DEF DeletedAreUnrouted
    <2>1. \A c \in Callers : Remaining(c) = {}
      BY ShortLists DEF Settled, Remaining
    <2>2. Leaving(r)
      BY PartsOfInv DEF RouteInv
    <2>. QED
      BY <2>1, <2>2 DEF Leaving, OnFileOf
  <1>. QED
    BY <1>1, RoutingInvariant, PTL

(* "Called whenever pod or Service churn can change the backend set"       *)
(* (regenerateIngressConfigs): when all is quiet the file of a stored      *)
(* route is the one made of the object, its Service and the pods of this   *)
(* moment, unless writers of it overlapped, or the last change was one     *)
(* that regenerates nothing.                                               *)
THEOREM FilesFollowBackends == TraefikSpec => []RoutesFollowBackends
  <1>1. RoutingInv => RoutesFollowBackends
    <2> SUFFICES ASSUME RoutingInv, Settled, NEW r \in Followed \ (late \cup raced), route[r] # Absent
                 PROVE  conf[r] = Current(r)
      BY DEF RoutesFollowBackends
    <2>1. alive /\ \A c \in Callers : Remaining(c) = {}
      BY ShortLists DEF Settled, Remaining
    <2>2. KeepsUp(r)
      BY PartsOfInv DEF RouteInv
    <2>. QED
      BY <2>1, <2>2 DEF KeepsUp, OnFileOf, PurgeAhead
  <1>. QED
    BY <1>1, RoutingInvariant, PTL

=============================================================================
