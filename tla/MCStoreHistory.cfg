\* Two concurrent saves, two mutations, one file-system error, any number of exits.
SPECIFICATION FairHSpec
CONSTANTS
  pod = pod
  svc = svc
  default = default
  apps = apps
  Resources <- MCResources
  Recorded = {pod}
  Namespaces = {default, apps}
  NsOf <- MCNsOf
  Default = default
  Savers = {s1, s2}
  Persistent = TRUE
  Absent = Absent
  NoFile = NoFile
  Partial = Partial
  NoHolder = NoHolder
  MaxVer = 2
  MaxFaults = 1
INVARIANTS
  TypeOK
  StampsIdentify
  DiskIntact
  LagIsCovered
  FileMatchesMemory
PROPERTIES
  NoStaleOverwrite
  EventuallyDurable
  ImplementsDurable
\* the bounds on mutations stop the model, as clients may
CHECK_DEADLOCK FALSE
