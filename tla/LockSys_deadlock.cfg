SPECIFICATION Spec
CONSTANTS
  Trx = {T1, T2, T3}
  NoTrx = NoTrx
  N = 1
  MaxLocks = 3
SYMMETRY Symmetry
PROPERTIES
  DeadlocksAreReal
CHECK_DEADLOCK FALSE
