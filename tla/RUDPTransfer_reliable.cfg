SPECIFICATION FairSpec
CONSTANTS
  A = A
  B = B
  Ends <- MCEnds
  Other <- MCOther
  MaxBytes <- MCMaxBytes
  MaxBytesA = 3
  MaxBytesB = 0
  SegSize = 1
  NagleSize = 1
  Nagle = FALSE
  MaxSeqInterval = 3
  IdRange = 4
  CwndSizes = {3}
  BufferSize = 4
  WriteSizes = {1}
  ReadSizes = {3}
  AnyAge = FALSE
  MaxNet = 7
  MaxLosses = 1
  MaxDups = 0
PROPERTIES
  EventuallyDelivered
CHECK_DEADLOCK FALSE
