\* A server, another one started in its place, and two connections that send
\* three requests between them: pair, pair again, ask.
CONSTANTS
  Servers = {s1, s2}
  Clients = {c1, c2}
  null = null
  MaxRequests = 3
SPECIFICATION Spec
SYMMETRY ServerSymmetry
\* The objects are used once: when all are used nothing is left to do.
CHECK_DEADLOCK FALSE
INVARIANTS TypeOK SlotExclusive ServedAreConfirmed OneAllowOnePairing
