------------------------------ MODULE Networks ------------------------------
(***************************************************************************)
(* Namespace networks and the pods that are attached to all of them:       *)
(* internal/server/network.go, the handlers of namespaces and pods that    *)
(* call it, and startup.                                                   *)
(*                                                                         *)
(* A rendering lists the stored namespaces, looks the subnet of each up    *)
(* (cached, or podman is asked without the lock) and writes the quadlet    *)
(* file with a fixed address on each network.  Requests interleave at each *)
(* of these steps.                                                         *)
(*                                                                         *)
(* Spaces are the namespaces besides those of the attached pods.  A subnet *)
(* is its first address and its size.                                      *)
(***************************************************************************)
EXTENDS Requests

CONSTANTS
  Spaces, Guests,
  Subnets,    \* [base, size], as podman gives them out
  NoAddress   \* no fixed address: podman picks one

ASSUME NetworksAssumption ==
  /\ Subnets \subseteq [base : Nat, size : Nat \ {0}]
  /\ Absent \notin Subnets
  /\ Main \notin Clients

VARIABLES
  space,     \* stored namespaces
  netUnit,   \* namespaces with a .network file
  net,       \* the podman network of a namespace: its subnet, or Absent
  cache,     \* networkState.subnets, Absent where there is no entry
  guest,     \* stored attach-all pods
  gfile,     \* quadlet file of a pod: namespace -> address, or Absent
  joined,    \* the networks a pod's container is on, or Absent
  tangled,   \* history: pods last rendered while another request was under way
  refilled,  \* history: an outdated answer of podman was cached for the namespace
  down       \* history: the network could not be started when it was last needed

netVars == <<space, netUnit, net, cache, guest, gfile, joined, tasks, alive,
             tangled, refilled, down>>

---------------------------------------------------------------------------
(* Addresses                                                               *)

(* Mutation test: the broadcast address. *)
LastUsableFaulty(s) == IF s.size < 4 THEN NoAddress ELSE s.base + s.size - 1

(* LastUsableIPv4: broadcast minus one, of a /30 or larger. *)
LastUsable(s) == IF s.size < 4 THEN NoAddress ELSE s.base + s.size - 2

(* Addresses podman accepts for a container of the network. *)
Hosts(s) == (s.base + 1)..(s.base + s.size - 2)

Accepts(n, ip) == net[n] # Absent /\ (ip = NoAddress \/ ip \in Hosts(net[n]))

---------------------------------------------------------------------------
(* Tasks                                                                   *)

(* Of a pod: its stages, namespaces still to look up, addresses so far,    *)
(* the subnet podman answered, and the one network to connect to.          *)
Pod(do, p, n) ==
  [do |-> do, p |-> p, n |-> n, left |-> {}, at |-> [m \in {} |-> NoAddress], got |-> Absent]
Space(do, n) == [do |-> do, n |-> n]
Each(do, n) == [do |-> <<"guests">>, then |-> do, n |-> n]

(* Mutation test: pods join when they are restarted.                       *)
AttachTasksFaulty(n) ==
  << Space(<<"unit", "ensure">>, n), Each(<<"namespaces", "write">>, n) >>

(* attachNamespaceNetwork: every pod is rendered again before it is        *)
(* connected.                                                              *)
AttachTasks(n) ==
  << Space(<<"unit", "ensure">>, n), Each(<<"namespaces", "write", "namespaces", "connect">>, n) >>

(* Mutation test: the cached subnet is kept. *)
DetachTasksFaulty(n) ==
  << Each(<<"disconnect", "namespaces", "write">>, n), Space(<<"rmunit">>, n) >>

(* detachNamespaceNetwork, removeNamespaceNetwork *)
DetachTasks(n) ==
  << Each(<<"disconnect", "namespaces", "write">>, n), Space(<<"forget", "rmunit">>, n) >>

(* ensureNamespaceNetworks, ReconcileQuadlets for a pod without a file,    *)
(* ReconcileNetworkAttachments.                                            *)
BootTasks ==
  << [do |-> <<"spaces">>, then |-> <<"unit">>], Each(<<"namespaces", "heal">>, Absent),
     [do |-> <<"spaces">>, then |-> <<"ensure">>] >>

(* A request renders the pods in P anew, from a list of the namespaces that *)
(* is current as long as it is the only one under way.                     *)
Overlapped(a, P) == IF \E b \in Callers \ {a} : tasks[b] # <<>> THEN Guests ELSE tangled \ P

(* Bound: two callers are at work at a time. *)
AtOnce == 2
Admitted(a) == Idle(a) /\ Cardinality({b \in Callers : tasks[b] # <<>>}) < AtOnce

---------------------------------------------------------------------------
(* Requests                                                                *)

(* Of one namespace, requests come one at a time. *)
Untouched(n) ==
  \A b \in Clients : \A j \in DOMAIN tasks[b] : "n" \in DOMAIN tasks[b][j] => tasks[b][j].n # n

(* handleNamespaceCreate *)
CreateSpace(a, n) ==
  /\ Admitted(a) /\ n \notin space /\ Untouched(n)
  /\ space' = space \cup {n}
  /\ tasks' = [tasks EXCEPT ![a] = AttachTasks(n)]
  /\ tangled' = Overlapped(a, Guests)
  /\ UNCHANGED <<netUnit, net, cache, guest, gfile, joined, alive, refilled, down>>

(* handleNamespaceDelete *)
DeleteSpace(a, n) ==
  /\ Admitted(a) /\ n \in space /\ Untouched(n)
  /\ space' = space \ {n}
  /\ tasks' = [tasks EXCEPT ![a] = DetachTasks(n)]
  /\ tangled' = Overlapped(a, Guests)
  /\ UNCHANGED <<netUnit, net, cache, guest, gfile, joined, alive, refilled, down>>

(* POST of a pod: a rendering that only checks, the store, the file, the   *)
(* unit.                                                                   *)
PostGuest(a, p) ==
  /\ Admitted(a) /\ p \notin guest
  /\ tasks' = [tasks EXCEPT ![a] =
       << Pod(<<"namespaces", "store", "namespaces", "write", "run">>, p, Absent) >>]
  /\ tangled' = Overlapped(a, {p})
  /\ UNCHANGED <<space, netUnit, net, cache, guest, gfile, joined, alive, refilled, down>>

(* deletePodByName *)
DeleteGuest(a, p) ==
  /\ Admitted(a) /\ p \in guest
  /\ tasks' = [tasks EXCEPT ![a] = << Pod(<<"stop", "drop">>, p, Absent) >>]
  /\ tangled' = Overlapped(a, {p})
  /\ UNCHANGED <<space, netUnit, net, cache, guest, gfile, joined, alive, refilled, down>>

---------------------------------------------------------------------------
(* Stages                                                                  *)

(* AllPods *)
ListGuests(a) ==
  /\ On(a, "guests")
  /\ LET ps == SetToSeq(guest)
     IN  Finish(a, <<>>, [j \in 1..Len(ps) |-> Pod(Now(a).then, ps[j], Now(a).n)])
  /\ UNCHANGED <<space, netUnit, net, cache, guest, gfile, joined, alive, tangled, refilled, down>>

(* Namespaces, at startup: once all networks were started every pod is     *)
(* rendered again and connected to those listed here.                      *)
ListSpaces(a) ==
  /\ On(a, "spaces")
  /\ LET ns == SetToSeq(space)
     IN  Finish(a, <<>>, [j \in 1..Len(ns) |-> Space(Now(a).then, ns[j])] \o
           (IF Now(a).then = <<"ensure">>
              THEN << Each(<<"namespaces", "write", "again", "connectAll">>, space) >> ELSE <<>>))
  /\ UNCHANGED <<space, netUnit, net, cache, guest, gfile, joined, alive, tangled, refilled, down>>

WriteNetUnit(a) ==
  /\ On(a, "unit")
  /\ netUnit' = netUnit \cup {Now(a).n}
  /\ Proceed(a)
  /\ UNCHANGED <<space, net, cache, guest, gfile, joined, alive, tangled, refilled, down>>

(* ensureNetwork starts the unit; a network that exists is kept. *)
EnsureNetwork(a) ==
  /\ On(a, "ensure")
  /\ LET n == Now(a).n
     IN  \/ /\ n \in netUnit
            /\ \E s \in Subnets : net' = [net EXCEPT ![n] = IF @ = Absent THEN s ELSE @]
            /\ down' = down \ {n}
         \/ /\ net' = net
            /\ down' = down \cup {n}
  /\ Proceed(a)
  /\ UNCHANGED <<space, netUnit, cache, guest, gfile, joined, alive, tangled, refilled>>

LookUpAll(a, S) ==
  tasks' = [tasks EXCEPT ![a][1] =
    [Now(a) EXCEPT !.do = (IF S = {} THEN <<>> ELSE <<"lookup">>) \o Tail(Now(a).do),
                   !.left = S, !.at = [m \in {} |-> NoAddress]]]

(* networkAttachments: Namespaces, then namespaceAttachment of each. *)
ListNamespaces(a) ==
  /\ \/ On(a, "namespaces") /\ LookUpAll(a, space)
     \/ On(a, "again") /\ LookUpAll(a, Now(a).n)
  /\ UNCHANGED <<space, netUnit, net, cache, guest, gfile, joined, alive, tangled, refilled, down>>

(* The address of n is known, or known not to be: on to the next. *)
Resolved(a, n, ip) ==
  tasks' = [tasks EXCEPT ![a][1] =
    [Now(a) EXCEPT
       !.do = IF Now(a).left = {n} THEN Tail(Now(a).do) ELSE <<"lookup">> \o Tail(Now(a).do),
       !.left = Now(a).left \ {n},
       !.at = [m \in DOMAIN Now(a).at \cup {n} |-> IF m = n THEN ip ELSE Now(a).at[m]],
       !.got = Absent]]

(* subnetForNamespace: the cache, or podman once the lock is released ...  *)
Lookup(a) ==
  /\ On(a, "lookup")
  /\ LET n == CHOOSE m \in Now(a).left : TRUE
     IN  IF cache[n] # Absent THEN Resolved(a, n, LastUsable(cache[n]))
         ELSE IF net[n] = Absent THEN Resolved(a, n, NoAddress)
         ELSE tasks' = [tasks EXCEPT ![a][1].do = <<"fill">> \o Tail(Now(a).do), ![a][1].got = net[n]]
  /\ UNCHANGED <<space, netUnit, net, cache, guest, gfile, joined, alive, tangled, refilled, down>>

(* ... whose answer is cached whatever happened meanwhile. *)
Fill(a) ==
  /\ On(a, "fill")
  /\ LET n == CHOOSE m \in Now(a).left : TRUE
     IN  /\ cache' = [cache EXCEPT ![n] = Now(a).got]
         /\ Resolved(a, n, LastUsable(Now(a).got))
         /\ refilled' = IF n \in space /\ net[n] = Now(a).got THEN refilled ELSE refilled \cup {n}
  /\ UNCHANGED <<space, netUnit, net, guest, gfile, joined, alive, tangled, down>>

(* CreatePod fails when another request stored the name first. *)
StoreGuest(a) ==
  /\ On(a, "store")
  /\ IF Now(a).p \in guest THEN Abandon(a) ELSE Proceed(a)
  /\ guest' = guest \cup {Now(a).p}
  /\ UNCHANGED <<space, netUnit, net, cache, gfile, joined, alive, tangled, refilled, down>>

(* refreshPodQuadlets, or the first rendering *)
WriteGuest(a) ==
  /\ On(a, "write")
  /\ gfile' = [gfile EXCEPT ![Now(a).p] = Now(a).at]
  /\ Proceed(a)
  /\ UNCHANGED <<space, netUnit, net, cache, guest, joined, alive, tangled, refilled, down>>

(* ReconcileQuadlets writes and starts what has no file. *)
HealGuest(a) ==
  /\ On(a, "heal")
  /\ IF gfile[Now(a).p] = Absent
       THEN Finish(a, <<"write", "run">>, <<>>) ELSE Proceed(a)
  /\ UNCHANGED <<space, netUnit, net, cache, guest, gfile, joined, alive, tangled, refilled, down>>

(* systemd starts the unit, with the networks it names, unless one of them *)
(* has no .network file or does not take the address.                      *)
StartContainer(p) ==
  LET f == gfile[p]
  IN  IF f # Absent /\ DOMAIN f \subseteq netUnit
        THEN \E s \in Subnets :
               /\ net' = [n \in Spaces |-> IF n \in DOMAIN f /\ net[n] = Absent THEN s ELSE net[n]]
               /\ joined' = [joined EXCEPT ![p] =
                    IF \A n \in DOMAIN f : f[n] = NoAddress \/ f[n] \in Hosts(net'[n])
                      THEN DOMAIN f ELSE Absent]
        ELSE net' = net /\ joined' = [joined EXCEPT ![p] = Absent]

RunGuest(a) ==
  /\ On(a, "run")
  /\ StartContainer(Now(a).p)
  /\ Proceed(a)
  /\ UNCHANGED <<space, netUnit, cache, guest, gfile, alive, tangled, refilled, down>>

(* stopPodUnit, removePodQuadlet *)
StopGuest(a) ==
  /\ On(a, "stop")
  /\ gfile' = [gfile EXCEPT ![Now(a).p] = Absent]
  /\ joined' = [joined EXCEPT ![Now(a).p] = Absent]
  /\ Proceed(a)
  /\ UNCHANGED <<space, netUnit, net, cache, guest, alive, tangled, refilled, down>>

DropGuest(a) ==
  /\ On(a, "drop")
  /\ guest' = guest \ {Now(a).p}
  /\ Proceed(a)
  /\ UNCHANGED <<space, netUnit, net, cache, gfile, joined, alive, tangled, refilled, down>>

(* NetworkConnect, with the address where one is known. *)
Connect(a) ==
  /\ \/ On(a, "connect") \/ On(a, "connectAll")
  /\ LET p == Now(a).p
         wanted == IF On(a, "connect") THEN {Now(a).n} ELSE Spaces \ down
         ns == {n \in wanted \cap DOMAIN Now(a).at : Accepts(n, Now(a).at[n])}
     IN  joined' = [joined EXCEPT ![p] = IF @ = Absent THEN Absent ELSE @ \cup ns]
  /\ Proceed(a)
  /\ UNCHANGED <<space, netUnit, net, cache, guest, gfile, alive, tangled, refilled, down>>

Disconnect(a) ==
  /\ On(a, "disconnect")
  /\ joined' = [joined EXCEPT ![Now(a).p] = IF @ = Absent THEN Absent ELSE @ \ {Now(a).n}]
  /\ Proceed(a)
  /\ UNCHANGED <<space, netUnit, net, cache, guest, gfile, alive, tangled, refilled, down>>

(* dropSubnetCache *)
ForgetSubnet(a) ==
  /\ On(a, "forget")
  /\ cache' = [cache EXCEPT ![Now(a).n] = Absent]
  /\ refilled' = refilled \ {Now(a).n}
  /\ Proceed(a)
  /\ UNCHANGED <<space, netUnit, net, guest, gfile, joined, alive, tangled, down>>

RemoveNetUnit(a) ==
  /\ On(a, "rmunit")
  /\ netUnit' = netUnit \ {Now(a).n}
  /\ Proceed(a)
  /\ UNCHANGED <<space, net, cache, guest, gfile, joined, alive, tangled, refilled, down>>

---------------------------------------------------------------------------
JoinedBy(p) == IF joined[p] = Absent THEN {} ELSE joined[p]

(* q8s leaves the podman network of a deleted namespace; podman removes it *)
(* when asked to, if no container is on it.                                *)
RemoveNetwork(n) ==
  /\ n \notin space /\ net[n] # Absent
  /\ \A p \in Guests : n \notin JoinedBy(p)
  /\ net' = [net EXCEPT ![n] = Absent]
  /\ UNCHANGED <<space, netUnit, cache, guest, gfile, joined, tasks, alive, tangled, refilled, down>>

DieNetworks ==
  /\ alive
  /\ alive' = FALSE
  /\ Forget
  /\ cache' = [n \in Spaces |-> Absent]
  /\ refilled' = {}
  /\ UNCHANGED <<space, netUnit, net, guest, gfile, joined, tangled, down>>

BootNetworks ==
  /\ ~alive
  /\ alive' = TRUE
  /\ tasks' = [tasks EXCEPT ![Main] = BootTasks]
  /\ tangled' = {}
  /\ UNCHANGED <<space, netUnit, net, cache, guest, gfile, joined, refilled, down>>

NetworksInit ==
  /\ space = {} /\ netUnit = {}
  /\ net = [n \in Spaces |-> Absent]
  /\ cache = [n \in Spaces |-> Absent]
  /\ guest = {}
  /\ gfile = [p \in Guests |-> Absent]
  /\ joined = [p \in Guests |-> Absent]
  /\ tasks = [a \in Callers |-> <<>>]
  /\ alive = TRUE
  /\ tangled = {} /\ refilled = {} /\ down = {}

NetworksStep(a) ==
  \/ ListGuests(a) \/ ListSpaces(a) \/ WriteNetUnit(a) \/ EnsureNetwork(a)
  \/ ListNamespaces(a) \/ Lookup(a) \/ Fill(a) \/ StoreGuest(a) \/ WriteGuest(a)
  \/ HealGuest(a) \/ RunGuest(a) \/ StopGuest(a) \/ DropGuest(a) \/ Connect(a)
  \/ Disconnect(a) \/ ForgetSubnet(a) \/ RemoveNetUnit(a)

NetworksNext ==
  \/ \E a \in Clients :
       \/ \E n \in Spaces : CreateSpace(a, n) \/ DeleteSpace(a, n)
       \/ \E p \in Guests : PostGuest(a, p) \/ DeleteGuest(a, p)
  \/ \E a \in Callers : NetworksStep(a)
  \/ \E n \in Spaces : RemoveNetwork(n)
  \/ DieNetworks \/ BootNetworks

NetworksSpec == NetworksInit /\ [][NetworksNext]_netVars

---------------------------------------------------------------------------
NetworksTypeOK ==
  /\ space \subseteq Spaces /\ netUnit \subseteq Spaces /\ guest \subseteq Guests
  /\ net \in [Spaces -> Subnets \cup {Absent}] /\ cache \in [Spaces -> Subnets \cup {Absent}]
  /\ \A p \in Guests :
       /\ gfile[p] # Absent =>
            /\ DOMAIN gfile[p] \subseteq Spaces
            /\ \A n \in DOMAIN gfile[p] :
                 gfile[p][n] = NoAddress \/ \E s \in Subnets : gfile[p][n] \in Hosts(s)
       /\ joined[p] # Absent => joined[p] \subseteq Spaces
  /\ tangled \subseteq Guests /\ refilled \subseteq Spaces /\ down \subseteq Spaces

(* The quadlet file of an attach-all pod names every namespace, with an    *)
(* address its network takes: "a restart recovers the attachment"          *)
(* (networkAttachments).  Namespaces come and go and q8s dies at any       *)
(* point; left out is a pod whose last rendering overlapped another        *)
(* request, until a request of its own, a namespace or startup mends it.   *)
GuestsCanRestart ==
  Settled => \A p \in guest \ tangled :
    /\ gfile[p] # Absent
    /\ DOMAIN gfile[p] = space
    /\ \A n \in space :
         n \in netUnit /\ (n \in refilled \/ net[n] = Absent \/ Accepts(n, gfile[p][n]))

(* A running attach-all pod is on every network that could be started,     *)
(* without having been restarted for it (attachNamespaceNetwork).          *)
GuestsAreJoined ==
  Settled => \A p \in guest \ tangled : joined[p] # Absent =>
    space \ (refilled \cup down) \subseteq joined[p]

(* "A later namespace of the same name does not inherit the old subnet"    *)
(* (dropSubnetCache), unless a lookup of the old one ended after it.       *)
CacheFollowsNetworks ==
  \A n \in space \ refilled : net[n] # Absent /\ cache[n] # Absent => cache[n] = net[n]

---------------------------------------------------------------------------
(* The inductive invariant behind the theorem of NetworksProofs. *)

ForgetStages == <<"forget", "rmunit">>
PostStages == {"namespaces", "lookup", "fill", "store", "write", "run"}
OtherStages ==
  (PostStages \ {"store"}) \cup
  {"unit", "ensure", "again", "connect", "connectAll", "heal",
   "stop", "drop", "disconnect", "forget", "rmunit"}

(* Tasks none of which can make a caller give up: only CreatePod does.     *)
Lists(task) ==
  /\ task.do \in {<<"guests">>, <<"spaces">>}
  /\ "then" \in DOMAIN task /\ task.then \in Seq(OtherStages)
Steady(task) == "do" \in DOMAIN task /\ (task.do \in Seq(OtherStages) \/ Lists(task))
SteadyList(todo) == todo \in Seq(Range(todo)) /\ \A task \in Range(todo) : Steady(task)
Posting(todo) ==
  /\ todo \in Seq(Range(todo)) /\ Len(todo) = 1
  /\ "do" \in DOMAIN todo[1] /\ todo[1].do \in Seq(PostStages)

Forgets(task, n) == "n" \in DOMAIN task /\ task.n = n /\ task.do = ForgetStages
Forgetting(n) == \E b \in Clients : \E j \in DOMAIN tasks[b] : Forgets(tasks[b][j], n)

(* What is cached of a namespace that is gone is going to be forgotten,    *)
(* before another namespace can have its name.                             *)
CacheInv ==
  /\ tasks \in [Callers -> Range(tasks)]
  /\ \A a \in Callers : SteadyList(tasks[a]) \/ Posting(tasks[a])
  /\ net \in [Spaces -> Range(net)] /\ cache \in [Spaces -> Range(cache)]
  /\ space \subseteq Spaces /\ IsFiniteSet(space) /\ IsFiniteSet(guest)
  /\ \A n \in space \ refilled : cache[n] # Absent => net[n] = cache[n]
  /\ \A n \in Spaces \ (space \cup refilled) : cache[n] # Absent => Forgetting(n)
=============================================================================
