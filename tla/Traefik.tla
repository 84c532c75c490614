------------------------------ MODULE Traefik ------------------------------
(***************************************************************************)
(* Ingresses, TCP routes and Middlewares, and the files q8s keeps for them *)
(* in Traefik's directory: handleIngresses, internal/server/traefik.go,    *)
(* and the changes to pods and Services that must show in those files.     *)
(*                                                                         *)
(* A file is made in steps: the object is taken from the store, then its   *)
(* Service and the pods are read (one step here), then the file is         *)
(* written.  No lock spans them, so requests, startup and the sync loop    *)
(* interleave there.  The write (temporary file, rename) is one step.      *)
(*                                                                         *)
(* One namespace; an object has one path or route, a Service one port.  A  *)
(* label stands for the labels and the port that make a pod a backend.     *)
(***************************************************************************)
EXTENDS Requests

CONSTANTS
  Members, Services, Ingresses, TcpRoutes, Middlewares,
  Labels,
  Addresses, Unreachable,  \* how a pod is dialed: by name, by host port, not at all
  PodSpecs,                \* [label, via]
  Selected,                \* labels Services select
  EntryPoints,             \* the entry points requests name for a TCP route
  Rules,                   \* what a Middleware does
  Stages                   \* sets of objects used together, one per behaviour

Routes == Ingresses \cup TcpRoutes \cup Middlewares
Servers == [pod : Members, via : Addresses \ {Unreachable}]
Localhost == [pod |-> Absent, via |-> Absent]

ASSUME TraefikAssumption ==
  /\ Unreachable \in Addresses
  /\ PodSpecs \subseteq [label : Labels, via : Addresses] /\ Selected \subseteq Labels
  /\ \A S \in Stages : S \subseteq Members \cup Services \cup Routes
  /\ Absent \notin Routes \cup Labels \cup Rules
  /\ TcpRoutes \cap (Ingresses \cup Middlewares) = {}
  /\ IsFiniteSet(Members) /\ IsFiniteSet(Routes)

VARIABLES
  stage,   \* the objects of this behaviour
  pod,     \* stored pods: [label, via, live], or Absent
  svc,     \* stored Services: the label selected, or Absent
  route,   \* stored routes, or Absent
  conf,    \* the files in TraefikDir, or Absent
  late,    \* history: pods or Services changed by what does not regenerate the file
  raced,   \* history: two writers of the file, or of its removal, overlapped
  clashed  \* history: two conflict checks overlapped

routing == <<pod, svc, route, conf>>
traefikVars == <<stage, routing, tasks, alive, late, raced, clashed>>

---------------------------------------------------------------------------
(* Rendering                                                               *)

(* A TCP route names an entry point besides its Service. *)
RouteBodies(r) ==
  IF r \in Ingresses THEN {[svc |-> s] : s \in Services}
  ELSE IF r \in TcpRoutes THEN [entry : EntryPoints[r], svc : Services]
  ELSE Rules

ASSUME BodiesAssumption == \A r \in Routes : Absent \notin RouteBodies(r)

(* serviceBackendTargets and ingressBackendServers: the live pods a        *)
(* Service selects that can be dialed.  No Service selects nothing.        *)
Backends(label, ps) ==
  {[pod |-> p, via |-> ps[p].via] :
     p \in {q \in Members : /\ ps[q] # Absent
                            /\ ps[q].label = label
                            /\ ps[q].live
                            /\ ps[q].via # Unreachable}}

(* Mutation test: every route falls back. *)
RenderFaulty(r, b, label, ps) ==
  IF r \in Middlewares THEN [b |-> b]
  ELSE IF Backends(label, ps) = {} THEN [b |-> b, to |-> {Localhost}]
  ELSE [b |-> b, to |-> Backends(label, ps)]

(* An Ingress without a backend is sent to a port of localhost. *)
Render(r, b, label, ps) ==
  IF r \in Middlewares THEN [b |-> b]
  ELSE IF r \in Ingresses /\ Backends(label, ps) = {} THEN [b |-> b, to |-> {Localhost}]
  ELSE [b |-> b, to |-> Backends(label, ps)]

Current(r) == Render(r, route[r], IF r \in Middlewares THEN Absent ELSE svc[route[r].svc], pod)

Stored == {r \in Routes : route[r] # Absent}

---------------------------------------------------------------------------
(* Tasks                                                                   *)

(* One file: b is the object as it was taken from the store. *)
Generate(r, b) ==
  [do |-> IF r \in Middlewares THEN <<"write">> ELSE <<"resolve", "write">>,
   r |-> r, b |-> b, made |-> Render(r, b, Absent, [p \in Members |-> Absent])]
Unroute(r) == [do |-> <<"remove">>, r |-> r]
PodTask(p, spec) == [do |-> <<"pod">>, p |-> p, spec |-> spec]

(* Bound: the files of routes to Services are followed in behaviours that  *)
(* use Services; the others are about what is stored.                      *)
Followed == {r \in Routes \cap stage : r \in Middlewares \/ stage \cap Services # {}}

(* A listing of a kind nobody uses in this behaviour finds nothing. *)
Every(R, do) == IF R \cap Followed = {} THEN <<>> ELSE <<Listing(R, do)>>

(* Mutation test: TCP files are taken to have no backends. *)
RegenerateFaulty == Every(Ingresses, "generate") \o Every(Middlewares, "generate")

(* regenerateIngressConfigs; ReconcileIngressConfigs at startup. *)
Regenerate_ ==
  Every(Ingresses, "generate") \o Every(TcpRoutes, "generate") \o Every(Middlewares, "generate")

(* Files a caller is about to write or remove; a namespace delete may      *)
(* remove any until it has purged the store.                               *)
Window(a) ==
  IF \E j \in DOMAIN tasks[a] : tasks[a][j].do = <<"purge">> THEN Routes
  ELSE {tasks[a][j].r : j \in {i \in DOMAIN tasks[a] : "r" \in DOMAIN tasks[a][i]}}

(* A window a opens on R takes what happened before out of account. *)
Opened(a, R) == (raced \ R) \cup (R \cap UNION {Window(b) : b \in Callers \ {a}})

Begin(a, todo) == tasks' = [tasks EXCEPT ![a] = todo]
BeginOn(a, r, todo) == Begin(a, IF r \in Followed THEN todo ELSE <<>>)

---------------------------------------------------------------------------
(* Requests                                                                *)

(* POST and DELETE of pods; POST, PUT, PATCH, scale and DELETE of a        *)
(* Deployment: pod by pod, one regeneration at the end.                    *)
ChangePods(a, P, spec) ==
  /\ Idle(a)
  /\ LET ps == SetToSeq(P)
     IN  Begin(a, [j \in 1..Len(ps) |-> PodTask(ps[j], spec)] \o Regenerate_)
  /\ UNCHANGED <<stage, routing, alive, late, raced, clashed>>

(* PATCH of a pod: the quadlet file is rendered again, no route is. *)
PatchPod_(a, p, spec) ==
  /\ Idle(a) /\ pod[p] # Absent
  /\ pod' = [pod EXCEPT ![p] = [label |-> spec.label, via |-> spec.via, live |-> @.live]]
  /\ late' = Stored
  /\ UNCHANGED <<stage, svc, route, conf, tasks, alive, raced, clashed>>

(* A nodePort conflict found after the Service was stored: a POST takes it *)
(* back, a PATCH leaves it, neither regenerates (NodePorts has the rest).  *)
PostService_(a, s, label) ==
  /\ Idle(a) /\ svc[s] = Absent
  /\ svc' = [svc EXCEPT ![s] = label]
  /\ \/ Begin(a, Regenerate_) /\ late' = late
     \/ Begin(a, << [do |-> <<"unpost">>, s |-> s] >>) /\ late' = Stored
  /\ UNCHANGED <<stage, pod, route, conf, alive, raced, clashed>>

PatchService_(a, s, label) ==
  /\ Idle(a) /\ svc[s] # Absent
  /\ svc' = [svc EXCEPT ![s] = label]
  /\ \/ Begin(a, Regenerate_) /\ late' = late
     \/ tasks' = tasks /\ late' = Stored
  /\ UNCHANGED <<stage, pod, route, conf, alive, raced, clashed>>

DeleteService_(a, s) ==
  /\ Idle(a) /\ svc[s] # Absent
  /\ svc' = [svc EXCEPT ![s] = Absent]
  /\ Begin(a, Regenerate_)
  /\ UNCHANGED <<stage, pod, route, conf, alive, late, raced, clashed>>

(* Store.CreateIngress, UpdateIngress and so on, then the file. *)
StoreAndGenerate(a, r, b) ==
  /\ route' = [route EXCEPT ![r] = b]
  /\ BeginOn(a, r, << Generate(r, b) >>)
  /\ raced' = Opened(a, {r})

(* POST, PUT and PATCH: POST of a name in use and the others on one that   *)
(* is not are refused.                                                     *)
WriteRoute(a, r, b) ==
  /\ Idle(a)
  /\ StoreAndGenerate(a, r, b)
  /\ UNCHANGED <<stage, pod, svc, conf, alive, late, clashed>>

WriteIngress(a, r, b)    == r \in Ingresses /\ WriteRoute(a, r, b)
WriteMiddleware(a, r, b) == r \in Middlewares /\ WriteRoute(a, r, b)

(* ingressRouteTCPConflict *)
Conflict(t, b) ==
  \E u \in TcpRoutes \ {t} : route[u] # Absent /\ route[u].entry = b.entry

Checked(a) == {tasks[a][j].t : j \in {i \in DOMAIN tasks[a] : tasks[a][i].do = <<"store">>}}

(* Mutation test: a route that exists is not checked again. *)
CheckTcpRouteFaulty(a, t, b) ==
  /\ Idle(a)
  /\ route[t] # Absent \/ ~Conflict(t, b)
  /\ Begin(a, << [do |-> <<"store">>, t |-> t, b |-> b, new |-> route[t] = Absent] >>)
  /\ LET others == UNION {Checked(c) : c \in Callers \ {a}}
     IN  clashed' = IF others = {} THEN clashed ELSE clashed \cup others \cup {t}
  /\ UNCHANGED <<stage, routing, alive, late, raced>>

(* POST, PUT and PATCH of a TCP route look for a conflict first ... *)
CheckTcpRoute(a, t, b) ==
  /\ Idle(a)
  /\ ~Conflict(t, b)
  /\ \E new \in BOOLEAN :
       Begin(a, << [do |-> <<"store">>, t |-> t, b |-> b, new |-> new] >>)
  /\ LET others == UNION {Checked(c) : c \in Callers \ {a}}
     IN  clashed' = IF others = {} THEN clashed ELSE clashed \cup others \cup {t}
  /\ UNCHANGED <<stage, routing, alive, late, raced>>

DeleteRoute(a, r) ==
  /\ Idle(a) /\ route[r] # Absent
  /\ route' = [route EXCEPT ![r] = Absent]
  /\ BeginOn(a, r, << Unroute(r) >>)
  /\ raced' = Opened(a, {r})
  /\ UNCHANGED <<stage, pod, svc, conf, alive, late, clashed>>

(* Mutation test: the files of Middlewares are forgotten. *)
PurgeListingsFaulty == Every(Ingresses, "remove") \o Every(TcpRoutes, "remove")

PurgeListings ==
  Every(Ingresses, "remove") \o Every(Middlewares, "remove") \o Every(TcpRoutes, "remove")

(* handleNamespaceDelete: purgeNamespaceResources takes the files away     *)
(* before it purges the store.                                             *)
DeleteNamespace_(a) ==
  /\ Idle(a)
  /\ Begin(a, PurgeListings \o << [do |-> <<"purge">>] >>)
  /\ raced' = raced \cup UNION {Window(c) : c \in Callers \ {a}}
  /\ UNCHANGED <<stage, routing, alive, late, clashed>>

---------------------------------------------------------------------------
(* Stages                                                                  *)

(* Objects a request creates, replaces with a new template or deletes. *)
ChangePod(a) ==
  /\ On(a, "pod")
  /\ LET spec == Now(a).spec
     IN  pod' = [pod EXCEPT ![Now(a).p] =
           IF spec = Absent THEN Absent
           ELSE [label |-> spec.label, via |-> spec.via, live |-> TRUE]]
  /\ Proceed(a)
  /\ UNCHANGED <<stage, svc, route, conf, alive, late, raced, clashed>>

Unpost(a) ==
  /\ On(a, "unpost")
  /\ svc' = [svc EXCEPT ![Now(a).s] = Absent]
  /\ late' = Stored
  /\ Proceed(a)
  /\ UNCHANGED <<stage, pod, route, conf, alive, raced, clashed>>

(* ... and store it in a later step, when the name may be taken or gone. *)
StoreTcpRoute(a) ==
  /\ On(a, "store")
  /\ LET t == Now(a).t
     IN  IF Now(a).new = (route[t] = Absent)
           THEN StoreAndGenerate(a, t, Now(a).b)
           ELSE Abandon(a) /\ UNCHANGED <<route, raced>>
  /\ UNCHANGED <<stage, pod, svc, conf, alive, late, clashed>>

ListRoutes(a) ==
  /\ On(a, "list")
  /\ LET R == Now(a).of \cap Stored
         rs == SetToSeq(R)
     IN  /\ Finish(a, <<>>, [j \in 1..Len(rs) |->
                IF Now(a).then = "remove" THEN Unroute(rs[j]) ELSE Generate(rs[j], route[rs[j]])])
         /\ raced' = Opened(a, R)
  /\ UNCHANGED <<stage, routing, alive, late, clashed>>

(* GetService and Store.Pods *)
Resolve(a) ==
  /\ On(a, "resolve")
  /\ LET r == Now(a).r
     IN  /\ tasks' = [tasks EXCEPT ![a][1].do = Tail(@),
                                  ![a][1].made = Render(r, Now(a).b, svc[Now(a).b.svc], pod)]
         /\ late' = late \ {r}
  /\ UNCHANGED <<stage, routing, alive, raced, clashed>>

(* writeTraefikConfigFile; when it fails the file stays as it was. *)
WriteConfig(a) ==
  /\ On(a, "write")
  /\ \/ conf' = [conf EXCEPT ![Now(a).r] = Now(a).made] /\ late' = late
     \/ conf' = conf /\ late' = late \cup {Now(a).r}
  /\ Proceed(a)
  /\ UNCHANGED <<stage, pod, svc, route, alive, raced, clashed>>

RemoveConfig(a) ==
  /\ On(a, "remove")
  /\ conf' = [conf EXCEPT ![Now(a).r] = Absent]
  /\ Proceed(a)
  /\ UNCHANGED <<stage, pod, svc, route, alive, late, raced, clashed>>

PurgeRoutes(a) ==
  /\ On(a, "purge")
  /\ pod' = [p \in Members |-> Absent]
  /\ svc' = [s \in Services |-> Absent]
  /\ route' = [r \in Routes |-> Absent]
  /\ Proceed(a)
  /\ UNCHANGED <<stage, conf, alive, late, raced, clashed>>

---------------------------------------------------------------------------
(* The sync loop changes phases, imports and prunes pods; no route is      *)
(* regenerated.                                                            *)
ChangePhase(p) ==
  /\ alive /\ pod[p] # Absent
  /\ pod' = [pod EXCEPT ![p].live = ~@]
  /\ late' = Stored
  /\ UNCHANGED <<stage, svc, route, conf, tasks, alive, raced, clashed>>

(* A container is imported without its labels and ports. *)
ImportMember(p) ==
  /\ alive /\ pod[p] = Absent
  /\ \E live \in BOOLEAN :
       pod' = [pod EXCEPT ![p] = [label |-> Absent, via |-> Unreachable, live |-> live]]
  /\ UNCHANGED <<stage, svc, route, conf, tasks, alive, late, raced, clashed>>

PruneMember(p) ==
  /\ alive /\ pod[p] # Absent
  /\ pod' = [pod EXCEPT ![p] = Absent]
  /\ late' = Stored
  /\ UNCHANGED <<stage, svc, route, conf, tasks, alive, raced, clashed>>

(* q8s dies: the files stay.  What a request had deleted and not yet       *)
(* removed is never looked at again.                                       *)
DieRouting ==
  /\ alive
  /\ alive' = FALSE
  /\ Forget
  /\ raced' = raced \cup {r \in UNION {Window(a) : a \in Callers} : route[r] = Absent}
  /\ UNCHANGED <<stage, routing, late, clashed>>

(* ReconcileIngressConfigs *)
BootRouting ==
  /\ ~alive
  /\ alive' = TRUE
  /\ Begin(Main, Regenerate_)
  /\ UNCHANGED <<stage, routing, late, raced, clashed>>

TraefikInit ==
  /\ stage \in Stages
  /\ pod = [p \in Members |-> Absent]
  /\ svc = [s \in Services |-> Absent]
  /\ route = [r \in Routes |-> Absent]
  /\ conf = [r \in Routes |-> Absent]
  /\ tasks = [a \in Callers |-> <<>>]
  /\ alive = TRUE
  /\ late = {} /\ raced = {} /\ clashed = {}

RoutingCalls(a) ==
  \/ \E P \in SUBSET (Members \cap stage) \ {{}} : \E spec \in PodSpecs \cup {Absent} : ChangePods(a, P, spec)
  \/ \E p \in Members \cap stage : \E spec \in PodSpecs : PatchPod_(a, p, spec)
  \/ \E s \in Services \cap stage :
       \/ \E label \in Selected : PostService_(a, s, label) \/ PatchService_(a, s, label)
       \/ DeleteService_(a, s)
  \/ \E r \in Routes \cap stage : DeleteRoute(a, r) \/ \E b \in RouteBodies(r) : WriteIngress(a, r, b) \/ WriteMiddleware(a, r, b)
  \/ \E t \in TcpRoutes \cap stage : \E b \in RouteBodies(t) : CheckTcpRoute(a, t, b)
  \/ DeleteNamespace_(a)

RoutingStep(a) ==
  \/ ChangePod(a) \/ Unpost(a) \/ StoreTcpRoute(a) \/ ListRoutes(a) \/ Resolve(a)
  \/ WriteConfig(a) \/ RemoveConfig(a) \/ PurgeRoutes(a)

SyncMembers ==
  \E p \in Members \cap stage :
    ChangePhase(p) \/ PruneMember(p) \/ ImportMember(p)

TraefikNext ==
  \/ \E a \in Clients : RoutingCalls(a)
  \/ \E a \in Callers : RoutingStep(a)
  \/ SyncMembers \/ DieRouting \/ BootRouting

TraefikSpec == TraefikInit /\ [][TraefikNext]_traefikVars

---------------------------------------------------------------------------
(* A TCP route without a backend has no server, never localhost. *)
TraefikTypeOK ==
  /\ \A p \in Members : pod[p] \in [label : Labels \cup {Absent}, via : Addresses, live : BOOLEAN] \cup {Absent}
  /\ svc \in [Services -> Labels \cup {Absent}]
  /\ \A r \in Routes : route[r] \in RouteBodies(r) \cup {Absent}
  /\ \A r \in Routes : conf[r] # Absent =>
       /\ conf[r].b \in RouteBodies(r)
       /\ r \in Ingresses => conf[r].to \in (SUBSET Servers \ {{}}) \cup {{Localhost}}
       /\ r \in TcpRoutes => conf[r].to \subseteq Servers
  /\ late \subseteq Routes /\ raced \subseteq Routes /\ clashed \subseteq TcpRoutes

(* "Called whenever pod or Service churn can change the backend set ... so *)
(* the servers list tracks reality" (regenerateIngressConfigs): when no    *)
(* request is under way every stored route has its file, of its present    *)
(* body and the pods its Service reaches now, unless two writers of that   *)
(* file overlapped, or a change that does not regenerate came last.        *)
RoutesFollowBackends ==
  Settled => \A r \in Followed \ (late \cup raced) : route[r] # Absent => conf[r] = Current(r)

(* A deleted route is routed no more: "or the hostnames keep routing to    *)
(* backends in a namespace that no longer exists"                          *)
(* (purgeNamespaceResources).  Not so when its removal overlapped a        *)
(* regeneration, or q8s died between the store and the file.               *)
DeletedAreUnrouted ==
  Settled => \A r \in Followed \ raced : route[r] = Absent => conf[r] = Absent

(* "A catch-all HostSNI route occupies the whole entrypoint": no two       *)
(* stored TCP routes share one, whatever the requests, unless their checks *)
(* overlapped.                                                             *)
EntryPointsExclusive ==
  \A t, u \in TcpRoutes : t # u /\ route[t] # Absent /\ route[u] # Absent /\ {t, u} \cap clashed = {} =>
    route[t].entry # route[u].entry

---------------------------------------------------------------------------
(* The inductive invariant behind the theorem on TCP routes. *)

(* A list of tasks that stores no TCP route. *)
TaskStages ==
  {<<"resolve", "write">>, <<"write">>, <<"remove">>, <<"pod">>, <<"list">>, <<"unpost">>, <<"purge">>}
StoresNot(task) == "do" \in DOMAIN task /\ task.do \in TaskStages
StoresNone(todo) == todo \in Seq(Range(todo)) /\ \A task \in Range(todo) : StoresNot(task)

(* What a caller is about to store was compared with all that is stored,   *)
(* but for what was checked at the same time.                              *)
Free(t, b) ==
  t \notin clashed =>
    \A u \in TcpRoutes \ (clashed \cup {t}) : route[u] # Absent => route[u].entry # b.entry

StoresOne(a) ==
  \E t \in TcpRoutes : \E b \in RouteBodies(t) : \E new \in BOOLEAN :
    tasks[a] = << [do |-> <<"store">>, t |-> t, b |-> b, new |-> new] >> /\ Free(t, b)

TcpInv ==
  /\ tasks \in [Callers -> Range(tasks)] /\ route \in [Routes -> Range(route)]
  /\ \A a \in Callers : StoresNone(tasks[a]) \/ StoresOne(a)
  /\ \A a, c \in Callers : a # c /\ StoresOne(a) /\ StoresOne(c) =>
       tasks[a][1].t \in clashed /\ tasks[c][1].t \in clashed
  /\ EntryPointsExclusive
---------------------------------------------------------------------------
(* The inductive invariant behind the theorems on routed files. *)

(* What a list is made of, in the order of its tasks: files, then pods,    *)
(* then listings, then the purge.                                          *)
OnFile(task) == "r" \in DOMAIN task
Removes(task) == DOMAIN task = {"do", "r"} /\ task.do = <<"remove">>
Generates(task) ==
  /\ DOMAIN task = {"do", "r", "b", "made"}
  /\ task.do = <<"write">> \/ (task.do = <<"resolve", "write">> /\ task.r \notin Middlewares)
  /\ task.r \in Middlewares => task.made = [b |-> task.b]
ListsRoutes(task) == DOMAIN task = {"do", "of", "then"} /\ task.do = <<"list">>
Changes(task) ==
  ~OnFile(task) /\ task.do \in {<<"pod">>, <<"unpost">>, <<"purge">>, <<"store">>}
Rank(task) ==
  IF OnFile(task) THEN 0 ELSE IF ListsRoutes(task) THEN 2 ELSE IF task.do = <<"purge">> THEN 3 ELSE 1

Unmade(task) ==
  Generates(task) /\ task.r \notin Middlewares => task.do = <<"resolve", "write">>

Removal(task) ==
  Removes(task) \/ task.do = <<"purge">> \/ (ListsRoutes(task) /\ task.then = "remove")
Listings == {Listing(R, "generate") : R \in {Q \in {Ingresses, TcpRoutes, Middlewares} : Q \cap Followed # {}}}

InOrder(todo) ==
  /\ todo \in Seq(Range(todo))
  /\ \A j, k \in DOMAIN todo : j < k =>
       Rank(todo[j]) <= Rank(todo[k]) /\ Unmade(todo[k])

Coherent(S) ==
  /\ \A task \in S :
       /\ "do" \in DOMAIN task
       /\ Removes(task) \/ Generates(task) \/ ListsRoutes(task) \/ Changes(task)
       /\ OnFile(task) => task.r \in Routes
  /\ (\A task \in S : Removal(task)) \/ (\A task \in S : ~Removal(task))
  /\ (\E task \in S : ListsRoutes(task) /\ task.then = "remove") => \E task \in S : task.do = <<"purge">>
  /\ \A task \in S : task.do = <<"pod">> => Listings \subseteq S
  /\ \A task \in S : task.do = <<"store">> => S = {task} /\ task.t \in TcpRoutes

Remaining(a) == Range(tasks[a])
PurgeAhead(a) == \E task \in Remaining(a) : task.do = <<"purge">>
OnFileOf(a, r) == {task \in Remaining(a) : OnFile(task) /\ task.r = r}

(* The callers that have this file, or a purge, before them. *)
Holds(a, r) == PurgeAhead(a) \/ OnFileOf(a, r) # {}

(* Made, or to be made, of the stored object and its present backends. *)
Fresh(task, r) ==
  /\ Generates(task) /\ task.b = route[r]
  /\ task.do = <<"write">> => task.made = Current(r)

(* A file whose object is gone is going, and nobody writes it. *)
Leaving(r) ==
  route[r] = Absent =>
    /\ \A a \in Callers : \A task \in OnFileOf(a, r) : Removes(task)
    /\ conf[r] # Absent => \E a \in Callers : OnFileOf(a, r) # {}

(* A namespace delete takes the file before the object. *)
TakenFirst(r) ==
  \A a \in Callers : PurgeAhead(a) /\ conf[r] # Absent =>
    \/ OnFileOf(a, r) # {}
    \/ route[r] # Absent /\ \E task \in Remaining(a) : ListsRoutes(task) /\ r \in task.of

(* A file will be current: some list comes to it later, or it goes, or it  *)
(* is current by now and in every task on it.                              *)
KeepsUp(r) ==
  route[r] # Absent =>
    /\ \A a \in Callers : \A task \in OnFileOf(a, r) : Generates(task) => task.b = route[r]
    /\ alive /\ r \notin late =>
         \/ \E a \in Callers : PurgeAhead(a)
         \/ \E a \in Callers : \E task \in Remaining(a) \cap Listings : r \in task.of
         \/ /\ \A a \in Callers : \A task \in OnFileOf(a, r) : Fresh(task, r)
            /\ conf[r] = Current(r) \/ \E a \in Callers : OnFileOf(a, r) # {}

RoutingInv ==
  /\ tasks \in [Callers -> Range(tasks)] /\ route \in [Routes -> Range(route)]
  /\ pod \in [Members -> Range(pod)] /\ conf \in [Routes -> Range(conf)]
  /\ \A a \in Callers : InOrder(tasks[a]) /\ Coherent(Remaining(a))
  /\ alive \/ \A a \in Callers : tasks[a] = <<>>
  /\ \A r \in Routes \ raced : \A a, c \in Callers : a # c /\ Holds(a, r) => ~Holds(c, r)
  /\ \A r \in Followed \ raced : Leaving(r) /\ TakenFirst(r) /\ KeepsUp(r)
=============================================================================
