SPECIFICATION Spec
CONSTANTS
  key = key
  a = a
  b = b
  r1 = r1
  r2 = r2
  Key = {key}
  Image = {a, b}
  None = None
  Request = {r1}
  MaxMutations = 3
  MaxCommits = 2
  MaxEnvelope = 1
  MaxLost = 0
SYMMETRY Symmetry
CHECK_DEADLOCK FALSE
INVARIANT CopyConverges
