\* One server that may stop, with fairness of the server's own steps.
CONSTANTS
  Servers = {s1}
  Clients = {c1, c2}
  null = null
  MaxRequests = 2
SPECIFICATION FairSpec
CHECK_DEADLOCK FALSE
PROPERTIES AskedIsAnswered GoneFreesSlot StoppedEnds
