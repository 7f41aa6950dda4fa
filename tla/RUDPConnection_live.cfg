SPECIFICATION FairSpec
CONSTANTS
  C = C
  S = S
  Hosts <- MCHosts
  Clients <- MCClients
  MaxSockets = 2
  SynMax = 2
  FinMax = 1
  TimeoutCount = 1
  MaxConnects = 1
  MaxOut = 1
  MaxNet = 2
  MaxDups = 0
PROPERTIES
  TransientStatesEnd
  OrphansAreNoticed
CHECK_DEADLOCK FALSE
