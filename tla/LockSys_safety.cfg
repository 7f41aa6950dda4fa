SPECIFICATION Spec
CONSTANTS
  Trx = {T1, T2, T3}
  NoTrx = NoTrx
  N = 2
  MaxLocks = 2
SYMMETRY Symmetry
INVARIANTS
  TypeOK
  NoConflictingGrants
  WaitersHaveReason
  NoWaitCycle
PROPERTIES
  CoveredStaysLocked
CHECK_DEADLOCK FALSE
