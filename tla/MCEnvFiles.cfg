\* A Secret and a pod that takes its environment from it.
SPECIFICATION Spec
CONSTANTS
  c1 = c1
  c2 = c2
  standard = standard
  large = large
  hostpath = hostpath
  cm = cm
  sec = sec
  pvc = pvc
  solo = solo
  dep = dep
  job = job
  cron = cron
  ka = ka
  kb = kb
  vx = vx
  vy = vy
  p1 = p1
  s1 = s1
  i1 = i1
  t1 = t1
  t2 = t2
  t3 = t3
  mw = mw
  web = web
  db = db
  dns = dns
  none = none
  e1 = e1
  e2 = e2
  Main = Main
  Absent = Absent
  NoAddress = NoAddress
  None = None
  Parts = {"files"}
  Clients = {c1, c2}
  Client = c1
  ConfigMaps = {cm}
  Secrets = {sec}
  Claims = {pvc}
  Pods = {solo}
  Replicas = {dep}
  Jobs = {job}
  CronJobs = {cron}
  Keys = {ka, kb}
  RefKey = ka
  Values = {vx, vy}
  Unfit = {vy}
  ConfigMapBodies <- MCConfigMapBodies
  SecretBodies <- MCSecretBodies
  Templates <- MCTemplates
  ClaimSpecs = {standard, large, hostpath}
  HostPath = hostpath
  Namespace = ns
  Casts <- MCEnvCasts
  Members = {p1}
  Services = {s1}
  Ingresses = {i1}
  TcpRoutes = {t1, t2, t3}
  Middlewares = {mw}
  Labels = {web, db}
  Selected = {web}
  PodSpecs <- MCPodSpecs
  Addresses = {dns, none}
  Unreachable = none
  EntryPoints <- MCEntryPoints
  Rules = {vx}
  Stages <- MCStages
  Spaces = {blue}
  Guests = {solo}
  Subnets <- MCSubnets
  Watchdogged = {solo}
  Rollouts = {api}
  Batch = {once}
  Groups = {pair}
  Crew = {main, side}
  Scenes <- MCScenes
  UnitStates <- MCUnitStates
  MaxScale = 2
  MaxChanges = 3
  JsonPatches <- MCJsonPatches
  MergePatches <- MCMergePatches
  Applied <- MCApplied
  Statuses <- MCStatuses
  Digits <- MCDigits
  Fields = {"containers"}
  MaxStores = 2
INVARIANTS
  EnvFilesRestored
\* the bounds of some parts stop them
CHECK_DEADLOCK FALSE
