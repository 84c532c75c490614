\* One Service of one port, one pod.
SPECIFICATION Spec
CONSTANTS
  front = front
  Svcs = {front}
  Pods = {p}
  Selected <- MCSelected
  MaxPorts = 1
  NodePortMin = 1
  NodePortMax = 2
  Requested = {0, 1}
  HostPorts = {0, 2}
  MaxRequests = 2
  Absent = Absent
INVARIANTS
  AcceptedArePublished
\* clients may have nothing left to ask
CHECK_DEADLOCK FALSE
