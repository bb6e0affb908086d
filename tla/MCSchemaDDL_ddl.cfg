SPECIFICATION Spec
CONSTANTS
  c1 = c1
  k1 = k1
  Column = {c1}
  x1 = x1
  x2 = x2
  x3 = x3
  Row = {x1, x2}
  Request <- EveryOperation
  None = None
  MaxOps = 2
  MaxLines = 1
  MaxRewrites = 2
  CanCrash = TRUE
  CanFail = TRUE
  CanTamper = TRUE
CHECK_DEADLOCK FALSE
SYMMETRY Symmetry
INVARIANTS AcknowledgedIsReadable JournalTellsTheOutcome FailsClosedOnEvidence OncePerKey
