SPECIFICATION Spec
CONSTANTS
  C = C
  S = S
  Hosts <- MCHosts
  Clients <- MCClients
  MaxSockets = 2
  SynMax = 2
  FinMax = 1
  TimeoutCount = 1
  MaxConnects = 1
  MaxOut = 1
  MaxNet = 3
  MaxDups = 0
INVARIANT
  NoDuplicateConnection
CHECK_DEADLOCK FALSE
