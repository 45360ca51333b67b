SPECIFICATION Spec
CONSTANTS
  w1 = w1  w2 = w2  d1 = d1  d2 = d2  d3 = d3
  Windows = {w1, w2}
  Daemons = {d1, d2, d3}
  None = None
  MaxCrashes = 2
SYMMETRY Alike
CONSTRAINT Within
CHECK_DEADLOCK FALSE
INVARIANTS ElectionInv PinIsStable FailedHasReason
