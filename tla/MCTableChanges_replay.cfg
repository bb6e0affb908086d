SPECIFICATION Spec
CONSTANTS
  key = key
  a = a
  b = b
  r1 = r1
  r2 = r2
  Key = {key}
  Image = {a, b}
  None = None
  Request = {r1, r2}
  MaxMutations = 4
  MaxCommits = 2
  MaxEnvelope = 2
  MaxLost = 1
SYMMETRY Symmetry
CHECK_DEADLOCK FALSE
INVARIANTS LiveRowsConverge CommittedOnly CalmWindowKeepsFeed
