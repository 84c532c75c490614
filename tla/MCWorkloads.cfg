\* One client and the reconcile loop; q8s does not die; no operation fails.
SPECIFICATION FairSpec
CONSTANTS
  solo = solo
  web = web
  web0 = web0
  web1 = web1
  Clients = {c1}
  Main = main
  Standalone = {}
  Deps = {web}
  MaxReplicas = 2
  Inst <- MCInst
  Templates = {t1, t2}
  Stub = Stub
  Absent = Absent
  Flapping = {web0}
  Faulty = {}
  CanCrash = FALSE
INVARIANTS
  TypeOK
  NothingUnaccounted
  DesiredAreDeployed
  StoreFileUnitAgree
PROPERTIES
  RunningIsListed
CHECK_DEADLOCK FALSE
