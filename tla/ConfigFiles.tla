---------------------------- MODULE ConfigFiles ----------------------------
(***************************************************************************)
(* ConfigMaps, Secrets, claims, Jobs, CronJobs and the env files of pods:  *)
(* the handlers of internal/server/handler.go that keep files beside the   *)
(* store, and the startup of cmd/q8s/main.go that puts them back.          *)
(*                                                                         *)
(* Directories of ConfigMaps and Secrets and env files live in /run/q8s    *)
(* and are gone when q8s starts again; quadlet files, timers and units     *)
(* stay.  As in Workloads a request, or startup, is the list of tasks left *)
(* to do, and one step does one stage of one task, so that startup and a   *)
(* request interleave.  Startup runs while the API already serves.         *)
(*                                                                         *)
(* One namespace.  File names are taken to be distinct (they are of the    *)
(* form {ns}-{name}); a Deployment is its only replica; what a workload    *)
(* mounts and the units' own behaviour are Workloads' subject.             *)
(***************************************************************************)
EXTENDS Requests

CONSTANTS
  ConfigMaps, Secrets, Claims, Pods, Replicas, Jobs, CronJobs,
  Keys, RefKey, Values, Unfit,  \* Unfit values hold control characters
  ConfigMapBodies,              \* [data, bin]: partial functions Keys -> Values
  SecretBodies,                 \* [data, str]
  Templates,                    \* of workloads: [secret, config, all, optional]
  ClaimSpecs, HostPath,         \* HostPath: the spec of class "hostpath"
  Namespace, Client,            \* the client of this namespace
  Casts                         \* sets of objects clients work with, one per behaviour

Workloads == Pods \cup Replicas \cup Jobs \cup CronJobs
Dirs == ConfigMaps \cup Secrets
Objects == Dirs \cup Claims \cup Workloads
Contents == UNION {[K -> Values] : K \in SUBSET Keys}
Nothing == [k \in {} |-> Absent]

ASSUME FilesAssumption ==
  /\ ConfigMaps \cap Secrets = {} /\ Claims \cap Workloads = {}
  /\ Dirs \cap (Claims \cup Workloads) = {} /\ CronJobs \cap (Pods \cup Replicas \cup Jobs) = {}
  /\ RefKey \in Keys /\ Unfit \subseteq Values
  /\ ConfigMapBodies \subseteq [data : Contents, bin : Contents]
  /\ SecretBodies \subseteq [data : Contents, str : Contents]
  /\ Templates \subseteq [secret : Secrets \cup {Absent}, config : ConfigMaps \cup {Absent},
                          all : BOOLEAN, optional : BOOLEAN]
  /\ \A C \in Casts : C \subseteq Objects /\ IsFiniteSet(C)
  /\ Client \in Clients /\ Main \notin Clients

VARIABLES
  cast,     \* the objects of this behaviour
  obj,      \* the stored object, or Absent
  dir,      \* the files of a ConfigMap or Secret: key -> content
  env,      \* the env file of a workload
  quad,     \* its quadlet file (a claim's .volume file)
  timer,    \* CronJobs that have a timer file
  running,  \* workloads whose unit (timer) q8s started
  blurred,  \* history: last request overlapped startup (directories: any since the
            \* last start), was cut by a death or could not be rendered
  lost,     \* history: secret env could not be rendered when last tried
  stale     \* history: a Secret or claim changed since its file was rendered

tmpfs == <<dir, env>>
units == <<quad, timer, running>>
notes == <<blurred, lost, stale>>
filesVars == <<cast, obj, tmpfs, units, tasks, alive, notes>>

Exists(o) == obj[o] # Absent

(* The later function wins. *)
Over(f, g) == [k \in DOMAIN f \cup DOMAIN g |-> IF k \in DOMAIN g THEN g[k] ELSE f[k]]

---------------------------------------------------------------------------
(* Rendering                                                               *)

(* normalizeSecret: stringData is folded into data and wins. *)
Normalize(b) == Over(b.data, b.str)

Referred(f, t) == [k \in DOMAIN f \cap (IF t.all THEN Keys ELSE {RefKey}) |-> f[k]]

Lacking(o, f, t) == o # Absent /\ (obj[o] = Absent \/ (~t.all /\ RefKey \notin DOMAIN f))
DataOf(o) == IF o = Absent \/ obj[o] = Absent THEN Nothing
             ELSE IF o \in ConfigMaps THEN obj[o].data ELSE obj[o]

(* resolveContainerEnv: a reference that is not optional must resolve, and *)
(* of a ConfigMap only Data counts.                                        *)
Resolvable(t) ==
  t.optional \/ (~Lacking(t.secret, DataOf(t.secret), t) /\ ~Lacking(t.config, DataOf(t.config), t))

(* What writeEnvFile writes, and refuses to write. *)
SecretEnv(t) == Referred(DataOf(t.secret), t)
Writable(t) == \A k \in DOMAIN SecretEnv(t) : SecretEnv(t)[k] \notin Unfit

(* The quadlet file names the env file if there is one. *)
Rendering(t) == [t |-> t, file |-> DOMAIN SecretEnv(t) # {}]
Volume(spec) == IF spec = HostPath THEN Absent ELSE spec

---------------------------------------------------------------------------
(* Tasks                                                                   *)

Todo(do, o, b) == [do |-> do, o |-> o, b |-> b]

(* Listings of kinds nobody uses in this behaviour would find nothing. *)
All(S, do) == IF S \cap cast = {} THEN <<>> ELSE << Listing(S, do) >>

(* PodsIn: Store.Pods compares the namespace with its argument. *)
PodsIn(n) == IF n = Namespace THEN Pods ELSE {}

(* Mutation test: RestoreEnvFiles passes over the Jobs. *)
RestoreFaulty ==
  All(ConfigMaps, <<"data">>) \o All(Secrets, <<"files">>) \o
  All(Replicas, <<"env">>) \o All(PodsIn(""), <<"env">>) \o All(CronJobs, <<"env">>)

(* cmdServe after Load: restoreConfigMapFiles, restoreSecretFiles,         *)
(* RestoreEnvFiles (with Store.Pods("")), ReconcileQuadlets.  Each lists   *)
(* what is stored when its turn comes.                                     *)
RestoreFiles ==
  All(ConfigMaps, <<"data">>) \o All(Secrets, <<"files">>) \o
  All(Replicas, <<"env">>) \o All(PodsIn(""), <<"env">>) \o All(Jobs, <<"env">>) \o
  All(CronJobs, <<"env">>)
ReconcileQuadlets ==
  All(Replicas, <<"heal">>) \o All(Pods, <<"heal">>) \o All(Claims, <<"bind">>) \o
  All(Jobs, <<"heal">>) \o All(CronJobs, <<"heal", "healTimer">>)
FilesBoot == RestoreFiles \o ReconcileQuadlets

---------------------------------------------------------------------------
(* Requests                                                                *)

Bodies(o) == IF o \in ConfigMaps THEN ConfigMapBodies
             ELSE IF o \in Secrets THEN {Normalize(b) : b \in SecretBodies}
             ELSE IF o \in Claims THEN ClaimSpecs ELSE Templates

ASSUME ContentsAssumption ==
  /\ \A o \in Objects : Absent \notin Bodies(o)
  /\ Absent \notin Contents /\ Absent \notin [t : Templates, file : BOOLEAN]

Refer(o) == {w \in Workloads : Exists(w) /\ o \in {obj[w].secret, obj[w].config}}

Call(todo, touched) ==
  /\ Idle(Client)
  /\ tasks' = [tasks EXCEPT ![Client] = todo]
  /\ blurred' = IF Starting THEN blurred \cup touched ELSE blurred \ (touched \ Dirs)

(* The object is stored, then its handler goes on with the stages in do.   *)
StoreThen(o, b, do) ==
  /\ Call(IF do = <<>> THEN <<>> ELSE <<Todo(do, o, b)>>, {o})
  /\ obj' = [obj EXCEPT ![o] = b]
  /\ UNCHANGED <<cast, tmpfs, units, alive, lost>>

(* A POST of a name in use and a PATCH of one that is not are refused.  No *)
(* workload is rendered again because what it refers to changed.           *)
CreateThen(o, b, do) ==
  ~Exists(o) /\ StoreThen(o, b, do) /\ stale' = (stale \ {o}) \cup Refer(o)
UpdateThen(o, b, do) ==
  Exists(o) /\ StoreThen(o, b, do) /\ stale' = stale \cup Refer(o) \cup ({o} \cap Claims)

PostConfigMap(o, b) == o \in ConfigMaps /\ CreateThen(o, b, <<"files">>)
PutConfigMap(o, b)  == o \in ConfigMaps /\ UpdateThen(o, b, <<"files">>)

PostSecret(o, b) == o \in Secrets /\ CreateThen(o, b, <<"files">>)

(* Mutation test: files of removed keys stay. *)
PatchSecretFaulty(o, b) == o \in Secrets /\ UpdateThen(o, b, <<"files">>)

(* A changed Secret loses the files of removed keys, a ConfigMap does not. *)
PatchSecret(o, b) == o \in Secrets /\ UpdateThen(o, b, <<"prune", "files">>)

PostClaim(o, b)  == o \in Claims /\ CreateThen(o, b, <<"volume">>)
PatchClaim(o, b) == o \in Claims /\ UpdateThen(o, b, <<>>)

(* A changed Job gets its file, but its unit is not started again. *)
PostJob(o, b)  == o \in Jobs /\ CreateThen(o, b, <<"env", "quad", "start">>)
PatchJob(o, b) == o \in Jobs /\ UpdateThen(o, b, <<"env", "quad">>)

PostCronJob(o, b)  == o \in CronJobs /\ CreateThen(o, b, <<"env", "quad", "timer", "start">>)
PatchCronJob(o, b) == o \in CronJobs /\ UpdateThen(o, b, <<"env", "quad", "timer", "start">>)

(* Pods and Deployments; Workloads has the rest of their handlers. *)
PostWorkload(o, b)  == o \in Pods \cup Replicas /\ CreateThen(o, b, <<"env", "quad", "start">>)
PatchWorkload(o, b) == o \in Pods \cup Replicas /\ UpdateThen(o, b, <<"env", "quad", "start">>)

(* Mutation test: only the container file of a CronJob is removed. *)
TeardownFaulty(o) ==
  IF o \in Dirs THEN <<"rmdir">> ELSE IF o \in Claims THEN <<"unlink">>
  ELSE <<"stop", "unlink">>

(* stopJobUnit and removeJobQuadlet, removeCronJobQuadlets, ... *)
Teardown(o) ==
  IF o \in Dirs THEN <<"rmdir">> ELSE IF o \in Claims THEN <<"unlink">>
  ELSE IF o \in CronJobs THEN <<"stop", "unlink", "unlinkTimer">>
  ELSE <<"stop", "unlink">>

(* ConfigMaps, Secrets and claims leave the store first, workloads last. *)
DeleteObject(o) ==
  /\ Exists(o)
  /\ IF o \in Workloads
       THEN /\ Call(<<Todo(Teardown(o) \o <<"drop">>, o, Absent)>>, {o})
            /\ UNCHANGED <<obj, stale>>
       ELSE /\ Call(<<Todo(Teardown(o), o, Absent)>>, {o})
            /\ obj' = [obj EXCEPT ![o] = Absent]
            /\ stale' = stale \cup Refer(o)
  /\ UNCHANGED <<cast, tmpfs, units, alive, lost>>

(* Mutation test: _env is not part of what is removed. *)
PurgeTasksFaulty(os) ==
  [j \in 1..Len(os) |-> Todo(Teardown(os[j]), os[j], Absent)]
    \o <<[do |-> <<"purge">>]>>

(* purgeNamespaceResources: object by object, then the tree of Secrets     *)
(* with its env files, then Store.PurgeNamespace.                          *)
PurgeTasks(os) ==
  [j \in 1..Len(os) |-> Todo(Teardown(os[j]), os[j], Absent)]
    \o <<[do |-> <<"rmtree", "purge">>]>>

DeleteAll ==
  /\ LET os == {o \in cast : Exists(o)}
     IN  Call(PurgeTasks(SetToSeq(os)), os)
  /\ UNCHANGED <<cast, obj, tmpfs, units, alive, lost, stale>>

---------------------------------------------------------------------------
(* Stages                                                                  *)

(* A Go map is listed in any order; the objects of a kind do not meet. *)
List_(a) ==
  /\ On(a, "list")
  /\ LET os == SetToSeq({o \in Now(a).of : Exists(o)})
     IN  Finish(a, <<>>, [j \in 1..Len(os) |-> Todo(Now(a).then, os[j], obj[os[j]])])
  /\ UNCHANGED <<cast, obj, tmpfs, units, alive, notes>>

(* writeConfigMapFiles and writeSecretFiles; restoreSecretFiles. *)
WriteFiles(a) ==
  /\ On(a, "files")
  /\ LET o == Now(a).o
         new == IF o \in ConfigMaps THEN Over(Now(a).b.data, Now(a).b.bin) ELSE Now(a).b
     IN  dir' = [dir EXCEPT ![o] = IF @ = Absent THEN new ELSE Over(@, new)]
  /\ Proceed(a)
  /\ UNCHANGED <<cast, obj, env, units, alive, notes>>

(* restoreConfigMapFiles: BinaryData is not restored. *)
RestoreData(a) ==
  /\ On(a, "data")
  /\ dir' = [dir EXCEPT ![Now(a).o] = IF @ = Absent THEN Now(a).b.data ELSE Over(@, Now(a).b.data)]
  /\ Proceed(a)
  /\ UNCHANGED <<cast, obj, env, units, alive, notes>>

(* removeStaleSecretFiles *)
PruneFiles(a) ==
  /\ On(a, "prune")
  /\ dir' = [dir EXCEPT ![Now(a).o] =
               IF @ = Absent THEN Absent ELSE [k \in DOMAIN @ \cap DOMAIN Now(a).b |-> @[k]]]
  /\ Proceed(a)
  /\ UNCHANGED <<cast, obj, env, units, alive, notes>>

RemoveDir(a) ==
  /\ On(a, "rmdir")
  /\ dir' = [dir EXCEPT ![Now(a).o] = Absent]
  /\ Proceed(a)
  /\ UNCHANGED <<cast, obj, env, units, alive, notes>>

RemoveTree(a) ==
  /\ On(a, "rmtree")
  /\ env' = [w \in Workloads |-> Absent]
  /\ dir' = [o \in Dirs |-> IF o \in Secrets THEN Absent ELSE dir[o]]
  /\ Proceed(a)
  /\ UNCHANGED <<cast, obj, units, alive, notes>>

(* resolveEnvFrom and writeEnvFile: on an error the workload is left as it *)
(* is; without secret values no env file is written, nor an old one taken  *)
(* away.  The rendering that follows is of what was resolved here.         *)
ResolveEnv(a) ==
  /\ On(a, "env")
  /\ LET w == Now(a).o
         t == Now(a).b
         some == DOMAIN SecretEnv(t) # {}
         ok == Resolvable(t) /\ Writable(t)
     IN  /\ IF ok THEN tasks' = [tasks EXCEPT ![a] =
                         (IF Len(Now(a).do) = 1 THEN <<>>
                          ELSE <<Todo(Tail(Now(a).do), w, Rendering(t))>>) \o Tail(@)]
                  ELSE Abandon(a)
         /\ env' = IF ok /\ some THEN [env EXCEPT ![w] = SecretEnv(t)] ELSE env
         /\ lost' = IF ok /\ (some \/ t.secret = Absent \/ Len(Now(a).do) > 1) THEN lost \ {w} ELSE lost \cup {w}
         /\ stale' = IF ok THEN stale \ {w} ELSE stale
         /\ blurred' = IF ok \/ a = Main THEN blurred ELSE blurred \cup {w}
  /\ UNCHANGED <<cast, obj, dir, units, alive>>

WriteQuadlet(a) ==
  /\ On(a, "quad")
  /\ quad' = [quad EXCEPT ![Now(a).o] = Now(a).b]
  /\ Proceed(a)
  /\ UNCHANGED <<cast, obj, tmpfs, timer, running, alive, notes>>

WriteTimer(a) ==
  /\ On(a, "timer")
  /\ timer' = timer \cup {Now(a).o}
  /\ Proceed(a)
  /\ UNCHANGED <<cast, obj, tmpfs, quad, running, alive, notes>>

(* StartUnit or RestartUnit. *)
Start(a) ==
  /\ On(a, "start")
  /\ running' = running \cup {Now(a).o}
  /\ Proceed(a)
  /\ UNCHANGED <<cast, obj, tmpfs, quad, timer, alive, notes>>

(* generatePVCVolume: no .volume file for the class hostpath. *)
WriteVolume(a) ==
  /\ On(a, "volume")
  /\ quad' = [quad EXCEPT ![Now(a).o] = IF Now(a).b = HostPath THEN @ ELSE Volume(Now(a).b)]
  /\ Proceed(a)
  /\ UNCHANGED <<cast, obj, tmpfs, timer, running, alive, notes>>

StopWorkload(a) ==
  /\ On(a, "stop")
  /\ running' = running \ {Now(a).o}
  /\ Proceed(a)
  /\ UNCHANGED <<cast, obj, tmpfs, quad, timer, alive, notes>>

UnlinkQuadlet(a) ==
  /\ On(a, "unlink")
  /\ quad' = [quad EXCEPT ![Now(a).o] = Absent]
  /\ Proceed(a)
  /\ UNCHANGED <<cast, obj, tmpfs, timer, running, alive, notes>>

UnlinkTimer(a) ==
  /\ On(a, "unlinkTimer")
  /\ timer' = timer \ {Now(a).o}
  /\ Proceed(a)
  /\ UNCHANGED <<cast, obj, tmpfs, quad, running, alive, notes>>

Drop(a) ==
  /\ On(a, "drop")
  /\ obj' = [obj EXCEPT ![Now(a).o] = Absent]
  /\ Proceed(a)
  /\ UNCHANGED <<cast, tmpfs, units, alive, notes>>

PurgeStore(a) ==
  /\ On(a, "purge")
  /\ obj' = [o \in Objects |-> Absent]
  /\ Proceed(a)
  /\ UNCHANGED <<cast, tmpfs, units, alive, notes>>

(* Mutation test: a CronJob whose container file exists is complete. *)
HealFaulty(a) ==
  /\ On(a, "heal")
  /\ LET w == Now(a).o
     IN  IF quad[w] # Absent THEN Abandon(a)
         ELSE tasks' = [tasks EXCEPT ![a] =
                <<Todo(<<"env", "quad">> \o (IF w \in CronJobs THEN <<"timer">> ELSE <<>>), w, Now(a).b)>>
                  \o Tail(@) \o <<Todo(<<"start">>, w, Absent)>>]
  /\ UNCHANGED <<cast, obj, tmpfs, units, alive, notes>>

(* ReconcileQuadlets: only a missing file is rendered, and its unit is     *)
(* started when all files are there.                                       *)
Heal(a) ==
  /\ On(a, "heal")
  /\ LET w == Now(a).o
     IN  IF quad[w] # Absent THEN Proceed(a)
         ELSE tasks' = [tasks EXCEPT ![a] =
                <<Todo(<<"env", "quad">> \o (IF w \in CronJobs THEN <<"timer">> ELSE <<>>), w, Now(a).b)>>
                  \o Tail(@) \o <<Todo(<<"start">>, w, Absent)>>]
  /\ UNCHANGED <<cast, obj, tmpfs, units, alive, notes>>

HealTimer(a) ==
  /\ On(a, "healTimer")
  /\ IF Now(a).o \in timer THEN Abandon(a)
     ELSE tasks' = [tasks EXCEPT ![a] = <<[Now(a) EXCEPT !.do = <<"timer">>]>>
                                          \o Tail(@) \o <<Todo(<<"start">>, Now(a).o, Absent)>>]
  /\ UNCHANGED <<cast, obj, tmpfs, units, alive, notes>>

(* A claim's .volume file is rewritten when its content differs. *)
Bind(a) ==
  /\ On(a, "bind")
  /\ LET v == Now(a).o
     IN  /\ quad' = IF Volume(Now(a).b) = Absent THEN quad ELSE [quad EXCEPT ![v] = Volume(Now(a).b)]
         /\ stale' = IF Now(a).b = obj[v] THEN stale \ {v} ELSE stale
  /\ Proceed(a)
  /\ UNCHANGED <<cast, obj, tmpfs, timer, running, alive, blurred, lost>>

---------------------------------------------------------------------------
(* q8s dies, or is stopped: its runtime directory goes with it. *)
Die ==
  /\ alive
  /\ alive' = FALSE
  /\ Forget
  /\ dir' = [o \in Dirs |-> Absent]
  /\ env' = [w \in Workloads |-> Absent]
  /\ blurred' = (blurred \ Dirs) \cup
       ({tasks[Client][j].o : j \in {i \in DOMAIN tasks[Client] : "o" \in DOMAIN tasks[Client][i]}} \ Dirs)
  /\ UNCHANGED <<cast, obj, units, lost, stale>>

Boot_ ==
  /\ ~alive
  /\ alive' = TRUE
  /\ tasks' = [tasks EXCEPT ![Main] = FilesBoot]
  /\ UNCHANGED <<cast, obj, tmpfs, units, notes>>

FilesInit ==
  /\ cast \in Casts
  /\ obj = [o \in Objects |-> Absent]
  /\ dir = [o \in Dirs |-> Absent]
  /\ env = [w \in Workloads |-> Absent]
  /\ quad = [o \in Claims \cup Workloads |-> Absent]
  /\ timer = {} /\ running = {}
  /\ tasks = [a \in Callers |-> <<>>]
  /\ alive = TRUE
  /\ blurred = {} /\ lost = {} /\ stale = {}

ClientCalls ==
  \/ \E o \in cast : \E b \in Bodies(o) :
       \/ PostConfigMap(o, b) \/ PutConfigMap(o, b) \/ PostSecret(o, b) \/ PatchSecret(o, b)
       \/ PostClaim(o, b) \/ PatchClaim(o, b) \/ PostJob(o, b) \/ PatchJob(o, b)
       \/ PostCronJob(o, b) \/ PatchCronJob(o, b) \/ PostWorkload(o, b) \/ PatchWorkload(o, b)
  \/ \E o \in cast : DeleteObject(o)
  \/ DeleteAll

FilesStep(a) ==
  \/ List_(a) \/ WriteFiles(a) \/ RestoreData(a) \/ PruneFiles(a) \/ RemoveDir(a) \/ RemoveTree(a)
  \/ ResolveEnv(a) \/ WriteQuadlet(a) \/ WriteTimer(a) \/ Start(a) \/ WriteVolume(a)
  \/ StopWorkload(a) \/ UnlinkQuadlet(a) \/ UnlinkTimer(a) \/ Drop(a) \/ PurgeStore(a)
  \/ Heal(a) \/ HealTimer(a) \/ Bind(a)

FilesNext == ClientCalls \/ (\E a \in Callers : FilesStep(a)) \/ Die \/ Boot_
FilesSpec == FilesInit /\ [][FilesNext]_filesVars

---------------------------------------------------------------------------
FilesTypeOK ==
  /\ DOMAIN obj = Objects /\ DOMAIN quad = Claims \cup Workloads
  /\ \A o \in Objects : Exists(o) => obj[o] \in Bodies(o)
  /\ dir \in [Dirs -> Contents \cup {Absent}]
  /\ env \in [Workloads -> Contents \cup {Absent}]
  /\ \A v \in Claims : quad[v] \in ClaimSpecs \cup {Absent}
  /\ \A w \in Workloads : quad[w] \in [t : Templates, file : BOOLEAN] \cup {Absent}
  /\ timer \subseteq CronJobs /\ running \subseteq Workloads
  /\ blurred \subseteq Objects /\ lost \subseteq Workloads /\ stale \subseteq Objects
  /\ \A a \in Callers : \A j \in DOMAIN tasks[a] : tasks[a][j].do # <<>>

(* Between requests the files of a Secret are its Data, no key more and    *)
(* none less ("so pods mounting the directory stop seeing the removed      *)
(* key", removeStaleSecretFiles), and those of a ConfigMap hold its Data,  *)
(* over any sequence of updates, deletes and starts of q8s.                *)
FilesFollowData ==
  Settled => \A o \in Dirs \ blurred : Exists(o) =>
    /\ dir[o] # Absent
    /\ o \in Secrets => dir[o] = obj[o]
    /\ o \in ConfigMaps => \A k \in DOMAIN obj[o].data \ DOMAIN obj[o].bin :
                             k \in DOMAIN dir[o] /\ dir[o][k] = obj[o].data[k]

(* What is not stored has no directory, quadlet file, timer or unit left,  *)
(* although claims leave the store before their file goes and workloads    *)
(* after, and q8s may die in between.                                      *)
NothingOrphaned ==
  Settled => \A o \in Objects \ blurred : ~Exists(o) =>
    /\ o \in Dirs => dir[o] = Absent
    /\ o \in Claims \cup Workloads => quad[o] = Absent
    /\ o \notin timer /\ o \notin running

(* What is stored is rendered, wherever q8s died: claims and workloads     *)
(* have their quadlet file, of their current body unless the request that  *)
(* brought it was cut short, and a CronJob has its timer too ("regenerates *)
(* missing quadlet/timer files", ReconcileQuadlets).                       *)
StoredAreRendered ==
  Settled =>
    /\ \A w \in Workloads \ lost : Exists(w) =>
         /\ quad[w] # Absent
         /\ w \notin blurred => quad[w].t = obj[w]
         /\ w \in CronJobs => w \in timer
    /\ \A v \in Claims \ (blurred \cup stale) :
         Exists(v) /\ obj[v] # HostPath => quad[v] = obj[v]

EnvFileOK(w) ==
  Exists(w) /\ quad[w] # Absent /\ quad[w].file =>
    env[w] # Absent /\ (w \in stale \/ env[w] = SecretEnv(obj[w]))

(* A quadlet file that names an env file finds it, with the values its     *)
(* Secret had when it was last rendered, after every start of q8s: "one    *)
(* unresolvable workload must not block the rest" (RestoreEnvFiles).       *)
(* Standalone pods are left to EnvFilesRestored.                           *)
EnvFilesRendered ==
  Settled => \A w \in Workloads \ (Pods \cup blurred \cup lost) : EnvFileOK(w)

(* The comment of RestoreEnvFiles: "for every stored workload". *)
EnvFilesRestored ==
  Settled => \A w \in Workloads \ (blurred \cup lost) : EnvFileOK(w)

(* When a namespace delete has purged the store, nothing of the namespace  *)
(* is left on disk: "removing the namespace parent now also clears _env".  *)
PurgeLeavesNothing ==
  [][On(Client, "purge") /\ alive' /\ tasks'[Client] = <<>> =>
       \A o \in Objects \ blurred :
         /\ o \in Dirs => dir'[o] = Absent
         /\ o \in Workloads => env'[o] = Absent /\ o \notin running'
         /\ o \in Claims \cup Workloads => quad'[o] = Absent
         /\ o \notin timer']_filesVars
---------------------------------------------------------------------------
(* The inductive invariant behind the theorems of ConfigFilesProofs.  It   *)
(* holds between any two steps, not only when all is settled: what is not  *)
(* right about an object is on some caller's list.                         *)

Renewing == {"files", "data", "volume", "bind", "env", "heal", "healTimer"}
Making == Renewing \cup {"prune", "quad", "timer", "start"}

(* The stages a task may have left. *)
Restores == { <<"data">>, <<"files">>, <<"env">>, <<"heal">>, <<"bind">>, <<"heal", "healTimer">> }
Shapes ==
  Restores \cup
  { <<"prune", "files">>, <<"volume">>, <<"healTimer">>,
    <<"env", "quad">>, <<"quad">>, <<"env", "quad", "start">>, <<"quad", "start">>, <<"start">>,
    <<"env", "quad", "timer">>, <<"quad", "timer">>, <<"timer">>,
    <<"env", "quad", "timer", "start">>, <<"quad", "timer", "start">>, <<"timer", "start">>,
    <<"rmdir">>, <<"unlink">>, <<"stop", "unlink">>,
    <<"stop", "unlink", "unlinkTimer">>, <<"unlink", "unlinkTimer">>, <<"unlinkTimer">>,
    <<"stop", "unlink", "drop">>, <<"unlink", "drop">>, <<"drop">>,
    <<"stop", "unlink", "unlinkTimer", "drop">>, <<"unlink", "unlinkTimer", "drop">>,
    <<"unlinkTimer", "drop">> }

(* ... of an object of this kind. *)
Fits(do, o) ==
  /\ Range(do) \cap {"files", "prune", "data", "rmdir"} # {} => o \in Dirs
  /\ "data" \in Range(do) => o \in ConfigMaps
  /\ "prune" \in Range(do) => o \in Secrets
  /\ Range(do) \cap {"volume", "bind"} # {} => o \in Claims
  /\ Range(do) \cap {"env", "quad", "start", "heal", "stop", "drop"} # {} => o \in Workloads
  /\ Range(do) \cap {"timer", "healTimer", "unlinkTimer"} # {} => o \in CronJobs
  /\ "unlink" \in Range(do) => o \in Claims \cup Workloads
  /\ {"env", "quad"} \subseteq Range(do) /\ o \in CronJobs => "timer" \in Range(do)

IsTodo(t) ==
  /\ "o" \in DOMAIN t /\ t = Todo(t.do, t.o, t.b) /\ t.do \in Shapes /\ Fits(t.do, t.o) /\ t.o \in cast
  /\ Range(t.do) \cap Renewing # {} => t.b \in Bodies(t.o)
  /\ "quad" \in Range(t.do) /\ "env" \notin Range(t.do) => t.b \in [t : Templates, file : BOOLEAN]
IsListing(t) ==
  /\ "of" \in DOMAIN t /\ t = Listing(t.of, t.then) /\ t.then \in Restores
  /\ \A o \in t.of : o \in Objects /\ Fits(t.then, o)
IsPurge(t) == t \in {[do |-> <<"rmtree", "purge">>], [do |-> <<"purge">>]}
Makes(t) == IsTodo(t) /\ Range(t.do) \subseteq Making

Todos(a) == {t \in Range(tasks[a]) : "o" \in DOMAIN t}
Pending(a, o, stage) == \E t \in Todos(a) : t.o = o /\ stage \in Range(t.do)
Listed(o, stage) ==
  \E t \in Range(tasks[Main]) : "of" \in DOMAIN t /\ o \in t.of /\ stage \in Range(t.then)
AtStart(o, stage) == ~alive \/ Listed(o, stage) \/ Pending(Main, o, stage)
Purging == \E t \in Range(tasks[Client]) : IsPurge(t)
Gone(o) == ~Exists(o) \/ Pending(Client, o, "drop") \/ Purging

TasksInv ==
  /\ tasks \in [Callers -> Range(tasks)] /\ \A a \in Callers : tasks[a] \in Seq(Range(tasks[a]))
  /\ \A a \in Clients \ {Client} : tasks[a] = <<>>
  /\ ~alive => \A a \in Callers : tasks[a] = <<>>
  /\ \A t \in Range(tasks[Main]) : IsListing(t) \/ Makes(t)
  /\ \A t \in Range(tasks[Client]) : IsTodo(t) \/ IsPurge(t)
  /\ \A t \in Todos(Client) :
       t.do # <<"env">> /\ Range(t.do) \cap {"data", "bind", "heal", "healTimer"} = {}
  /\ (\E t \in Range(tasks[Client]) : Makes(t)) => Len(tasks[Client]) = 1
  /\ \A j \in DOMAIN tasks[Client] : IsPurge(tasks[Client][j]) => j = Len(tasks[Client])
  /\ \A a \in Callers : \A j \in DOMAIN tasks[a] \ {1} :
       "quad" \in Range(tasks[a][j].do) => "env" \in Range(tasks[a][j].do)

(* RestoreEnvFiles comes before ReconcileQuadlets. *)
Restoring(t, w) ==
  \/ "of" \in DOMAIN t /\ w \in t.of /\ t.then = <<"env">>
  \/ "o" \in DOMAIN t /\ t.o = w /\ t.do = <<"env">>
Healing(t, w) ==
  /\ "of" \in DOMAIN t /\ w \in t.of /\ "heal" \in Range(t.then)
  /\ w \in CronJobs => "healTimer" \in Range(t.then)
OrderInv ==
  \A w \in cast : \A i \in DOMAIN tasks[Main] : Restoring(tasks[Main][i], w) =>
    \E k \in DOMAIN tasks[Main] : k > i /\ Healing(tasks[Main][k], w)

(* During startup requests blur what they touch; what a caller knows of    *)
(* any other object is what is stored.                                     *)
BlurInv ==
  /\ Starting => \A t \in Todos(Client) : t.o \in blurred
  /\ Starting /\ Purging => \A o \in Objects : Exists(o) => o \in blurred
  /\ \A o \in Objects : Exists(o) => o \in cast
  /\ \A t \in Todos(Client) : Makes(t) \/ Gone(t.o)
  /\ \A a \in Callers : \A t \in Todos(a) : t.o \notin blurred /\ Range(t.do) \subseteq Making =>
       /\ Exists(t.o)
       /\ Range(t.do) \cap Renewing # {} => t.b = obj[t.o]
       /\ "quad" \in Range(t.do) /\ "env" \notin Range(t.do) =>
            t.b.t = obj[t.o] /\ (t.b.file => t.b.t.secret # Absent)

(* A rendering is about to be written. *)
InHand(a) ==
  /\ tasks[a] # <<>> /\ "o" \in DOMAIN Now(a)
  /\ "quad" \in Range(Now(a).do) /\ "env" \notin Range(Now(a).do)

(* The values of w's env file. *)
EnvFits(w) == env[w] # Absent /\ (w \in stale \/ env[w] = SecretEnv(obj[w]))

MomentInv ==
  /\ ~alive => (\A o \in Dirs : dir[o] = Absent) /\ (\A w \in Workloads : env[w] = Absent)
  /\ \A a \in Callers : InHand(a) /\ Now(a).o \notin blurred /\ Now(a).b.file => EnvFits(Now(a).o)
  /\ (\E t \in Range(tasks[Client]) : t.do = <<"purge">>) =>
       \A w \in Workloads \ blurred : env[w] = Absent

Follows(o) ==
  /\ dir[o] # Absent
  /\ o \in Secrets => dir[o] = obj[o]
  /\ o \in ConfigMaps => \A k \in DOMAIN obj[o].data \ DOMAIN obj[o].bin :
                           k \in DOMAIN dir[o] /\ dir[o][k] = obj[o].data[k]
DirFine(o) ==
  o \in Dirs \ blurred /\ Exists(o) /\ ~Purging =>
    \/ Follows(o)
    \/ /\ Pending(Client, o, "files")
       /\ o \in Secrets => Pending(Client, o, "prune") \/ dir[o] = Absent
                           \/ DOMAIN dir[o] \subseteq DOMAIN obj[o]
    \/ /\ dir[o] = Absent
       /\ IF o \in ConfigMaps THEN AtStart(o, "data") ELSE AtStart(o, "files")

OrphanFine(o) ==
  o \notin blurred /\ Gone(o) =>
    /\ o \in Dirs /\ dir[o] # Absent => Pending(Client, o, "rmdir")
    /\ o \in Claims \cup Workloads /\ quad[o] # Absent => Pending(Client, o, "unlink")
    /\ o \in timer => Pending(Client, o, "unlinkTimer")
    /\ o \in running => Pending(Client, o, "stop")

RenderFine(o) ==
  /\ o \in Workloads \ lost /\ ~Gone(o) =>
       /\ quad[o] # Absent \/ Pending(Client, o, "quad") \/ AtStart(o, "heal") \/ AtStart(o, "quad")
       /\ o \in CronJobs =>
            o \in timer \/ Pending(Client, o, "timer") \/ AtStart(o, "healTimer") \/ AtStart(o, "timer")
  /\ o \in Workloads \ blurred /\ ~Gone(o) /\ quad[o] # Absent /\ ~Pending(Client, o, "quad") =>
       quad[o].t = obj[o] /\ (quad[o].file => obj[o].secret # Absent)
  /\ o \in Claims \ (blurred \cup stale) /\ ~Gone(o) /\ obj[o] # HostPath =>
       quad[o] = obj[o] \/ Pending(Client, o, "volume") \/ AtStart(o, "bind")

EnvFine(o) ==
  o \in Workloads \ (Pods \cup blurred \cup lost) /\ ~Gone(o) /\ quad[o] # Absent /\ quad[o].file =>
    EnvFits(o) \/ Pending(Client, o, "quad") \/ AtStart(o, "env") \/ AtStart(o, "quad")

Fine(o) == DirFine(o) /\ OrphanFine(o) /\ RenderFine(o) /\ EnvFine(o)

FilesInv ==
  /\ FilesTypeOK /\ cast \in Casts
  /\ TasksInv /\ OrderInv /\ BlurInv /\ MomentInv
  /\ \A o \in Objects : Fine(o)
=============================================================================
