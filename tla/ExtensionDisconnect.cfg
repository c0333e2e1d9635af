\* What the settings page promises after 'disconnect'.
CONSTANTS
  Sockets = {s1, s2}
  Confirms = {k1}
  Fetches = {}
  Pings = {}
  NoSocket = NoSocket
  MAX_RECONNECT_ATTEMPTS = 1
  MaxPending = 2
SPECIFICATION Spec
PROPERTIES DisconnectIsFinal
