SPECIFICATION Spec
CONSTANTS
  A = A
  B = B
  Ends <- MCEnds
  Other <- MCOther
  MaxBytes <- MCMaxBytes
  MaxBytesA = 3
  MaxBytesB = 1
  SegSize = 2
  NagleSize = 2
  Nagle = TRUE
  MaxSeqInterval = 2
  IdRange = 3
  CwndSizes = {2}
  BufferSize = 4
  WriteSizes = {1, 3}
  ReadSizes = {1, 2}
  AnyAge = TRUE
  MaxNet = 2
  MaxLosses = 0
  MaxDups = 1
INVARIANTS
  AckedIsReceived
  WindowIsContiguous
  NoSpuriousException
  BufferAccounting
  SegmentsAreStable
PROPERTIES
  ImplementsByteStream
  AcksAreAnnounced
  GapsAreReported
CHECK_DEADLOCK FALSE
