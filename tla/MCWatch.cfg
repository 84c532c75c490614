\* One watcher, two pods, three mutations, up to two notifications in flight.
SPECIFICATION FairWSpec
CONSTANTS
  pod1 = pod1
  pod2 = pod2
  default = default
  Resources <- MCResources
  Recorded = {pod1}
  Namespaces = {default}
  NsOf <- MCNsOf
  Default = default
  Watchers = {w1}
  Watched <- MCResources
  Savers = {s1, s2}
  Persistent = FALSE
  Absent = Absent
  NoFile = NoFile
  Partial = Partial
  NoHolder = NoHolder
  MaxVer = 3
  MaxFaults = 0
INVARIANTS
  WTypeOK
  ViewFollowsSeen
PROPERTIES
  SeenAdvances
  AnnouncedIsDelivered
\* the bounds on mutations stop the model, as clients may
CHECK_DEADLOCK FALSE
