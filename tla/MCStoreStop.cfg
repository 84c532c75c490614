\* Two concurrent saves, two mutations, no file-system error.
SPECIFICATION HSpec
CONSTANTS
  pod = pod
  svc = svc
  default = default
  apps = apps
  Resources <- MCResources
  Recorded = {pod}
  Namespaces = {default, apps}
  NsOf <- MCNsOf
  Default = default
  Savers = {s1, s2}
  Persistent = TRUE
  Absent = Absent
  NoFile = NoFile
  Partial = Partial
  NoHolder = NoHolder
  MaxVer = 2
  MaxFaults = 0
INVARIANTS
  OrderlyStopKeepsMutations
CHECK_DEADLOCK FALSE
