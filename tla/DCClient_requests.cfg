SPECIFICATION FairSpec
CONSTANTS
  P1 = P1
  P2 = P2
  C1 = C1
  C2 = C2
  NoConn = NoConn
  RingSize = 2
  Rings = 4
  HeapSize = 2
  ScanSteps = 16
  Params <- TwoParams
  Kind <- TwoKinds
  Conns = {C1, C2}
  FirstPool <- OneConn
  PoolStep = 1
  WriteDelay = 2
  ConnectDelay = 3
  ReadDelay = 5
  HeartbeatDelay = 6
  MaxLag = 2
  Uptime = 15
  LastPost = 17
  MaxNow = 24
INVARIANTS
  TypeOK
  TimersKept
  OneNumber
  OwnConnection
  PoolClean
PROPERTIES
  KeepsPromises
  EveryRequestEnds
CHECK_DEADLOCK FALSE
