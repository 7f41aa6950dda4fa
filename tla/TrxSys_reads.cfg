SPECIFICATION Spec
CONSTANTS
  Trx = {T1, T2}
  Rows = {R}
  MaxId = 7
  MaxVersions = 3
SYMMETRY Symmetry
INVARIANTS
  PurgeSeesLess
  ReadsAreConsistent
  HistoryInOrder
CHECK_DEADLOCK FALSE
