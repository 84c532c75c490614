\* One client and main; operations may fail at a pod beside a Deployment of one
\* replica.
SPECIFICATION Spec
CONSTANTS
  solo = solo
  web = web
  web0 = web0
  web1 = web1
  Clients = {c1}
  Main = main
  Standalone = {solo}
  Deps = {web}
  MaxReplicas = 1
  Inst <- MCInst
  Templates = {t1, t2}
  Stub = Stub
  Absent = Absent
  Flapping = {}
  Faulty = {solo}
  CanCrash = FALSE
INVARIANTS
  NothingUnaccounted
  StoreFileUnitAgree
\* a client may have nothing left to ask
CHECK_DEADLOCK FALSE
