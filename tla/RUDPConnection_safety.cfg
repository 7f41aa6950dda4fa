SPECIFICATION Spec
CONSTANTS
  C = C
  S = S
  Hosts <- MCHosts
  Clients <- MCClients
  MaxSockets = 2
  SynMax = 2
  FinMax = 2
  TimeoutCount = 0
  MaxConnects = 2
  MaxOut = 0
  MaxNet = 2
  MaxDups = 0
INVARIANTS
  TypeOK
  IndexIsLive
  SessionsAgree
CHECK_DEADLOCK FALSE
