SPECIFICATION FairSpec
CONSTANTS
  A = A
  B = B
  Servers = {A, B}
  NoServer = NoServer
  Objects = {c1, c2, c3}
  NoObject = NoObject
  Messages = {1, 2, 3}
  From <- FromAB
  To <- ToAB
  MaxLinks = 2
  MaxBeats = 1
  MaxFaults = 1
  MaxDels = 1
INVARIANTS
  TypeOK
  NodesSound
  PoolsSound
  DeliveredOnce
PROPERTIES
  QueuesResolved
  HalfOpenNoticed
  AllArrive
CHECK_DEADLOCK FALSE
