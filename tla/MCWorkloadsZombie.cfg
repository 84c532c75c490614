\* One client and main, one Deployment of one replica and a pod beside it.
SPECIFICATION Spec
CONSTANTS
  solo = solo
  web = web
  web0 = web0
  web1 = web1
  Clients = {c1}
  Main = main
  Standalone = {solo}
  Deps = {web}
  MaxReplicas = 1
  Inst <- MCInst
  Templates = {t1}
  Stub = Stub
  Absent = Absent
  Flapping = {}
  Faulty = {}
  CanCrash = FALSE
INVARIANTS
  DeletedStaysDeleted
CHECK_DEADLOCK FALSE
