\* Two Services of one port, two pods, a range of two numbers.
SPECIFICATION Spec
CONSTANTS
  front = front
  Svcs = {front, back}
  Pods = {p, q}
  Selected <- MCSelected
  MaxPorts = 1
  NodePortMin = 1
  NodePortMax = 2
  Requested = {0, 1}
  HostPorts = {0, 2}
  MaxRequests = 2
  Absent = Absent
INVARIANTS
  TypeOK
  NodePortsUnique
  HostPortsClear
  ExplicitArePublished
SYMMETRY Symmetry
\* clients may have nothing left to ask
CHECK_DEADLOCK FALSE
