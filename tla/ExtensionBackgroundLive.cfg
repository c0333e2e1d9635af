\* Overlapping objects and retries with fairness and a desktop that goes away.
CONSTANTS
  Sockets = {s1, s2, s3}
  Confirms = {}
  Fetches = {}
  Pings = {}
  NoSocket = NoSocket
  MAX_RECONNECT_ATTEMPTS = 1
  MaxPending = 2
SPECIFICATION GoneSpec
PROPERTIES ConnectingEnds RetriesCease
