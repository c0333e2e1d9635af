\* Two objects at a time, one handler of each kind.
CONSTANTS
  Sockets = {s1, s2}
  Confirms = {k1}
  Fetches = {f1}
  Pings = {p1}
  NoSocket = NoSocket
  MAX_RECONNECT_ATTEMPTS = 1
  MaxPending = 2
SPECIFICATION Spec
SYMMETRY SocketSymmetry
CHECK_DEADLOCK FALSE
INVARIANTS TypeOK ConnectingIsPending WaitsOnce CurrentNeverParks
