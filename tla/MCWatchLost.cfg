\* One watcher, two pods, two mutations, up to two notifications in flight.
SPECIFICATION WSpec
CONSTANTS
  pod1 = pod1
  pod2 = pod2
  default = default
  Resources <- MCResources
  Recorded = {pod1}
  Namespaces = {default}
  NsOf <- MCNsOf
  Default = default
  Watchers = {w1}
  Watched <- MCResources
  Savers = {s1, s2}
  Persistent = FALSE
  Absent = Absent
  NoFile = NoFile
  Partial = Partial
  NoHolder = NoHolder
  MaxVer = 2
  MaxFaults = 0
INVARIANTS
  SleepsOnlyWhenCurrent
CHECK_DEADLOCK FALSE
