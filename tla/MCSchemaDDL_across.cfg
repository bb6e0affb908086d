SPECIFICATION Spec
CONSTANTS
  c1 = c1
  k1 = k1
  Column = {c1}
  Row = {x1}
  x1 = x1
  x2 = x2
  x3 = x3
  Request <- Materializes
  None = None
  MaxOps = 2
  MaxLines = 2
  MaxRewrites = 0
  CanCrash = FALSE
  CanFail = FALSE
  CanTamper = FALSE
CHECK_DEADLOCK FALSE
INVARIANTS NoWriteAcrossSwitch
