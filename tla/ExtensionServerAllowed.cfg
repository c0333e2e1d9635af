\* Is a paired connection one the user allowed?
CONSTANTS
  Servers = {s1}
  Clients = {c1, c2}
  null = null
  MaxRequests = 2
SPECIFICATION Spec
CHECK_DEADLOCK FALSE
INVARIANT PairedIsAllowed
