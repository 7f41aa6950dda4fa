SPECIFICATION Spec
CONSTANTS
  MinCwnd = 10
  Tolerance = 1
  CapUnder10 = 12
  CapUnder50 = 18
  CapUnder100 = 20
  CapAbove = 24
  DefaultRtt = 11
  Rtts = {2, 12}
  MaxAck = 8
  MaxResend = 4
INVARIANTS
  CwndWithinBounds
  SlowStartBelowLimit
PROPERTY
  LossHoldsWindow
