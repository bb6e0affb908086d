CONSTANTS
  s1 = s1
  s2 = s2
  p1 = p1
  p2 = p2
  Scribe = {s1, s2}
  Partition = {p1, p2}
  NoScribe = NoScribe
  MaxBurst = 2
  MaxRecords = 4
  SegmentLines = 1
  CanBreak = TRUE
  CanTear = TRUE
  Layouts <- MCLayouts
  Bound = 2
  Huge = {2}
  MaxAppends = 1
  MaxPasses = 2
  Depth = 2
  LastFile = 1
  ChunkRows = 2
  LastLine = 3
  MaxFlush = 2
  MaxLosses = 2
  Server = {s1, s2}
  MaxRows = 2
  MaxCalls = 2
  NoList = NoList
  h1 = h1
  h2 = h2
  c1 = c1
  c2 = c2
  f1 = f1
  f2 = f2
  a1 = a1
  a2 = a2
  n1 = n1
  n2 = n2
  NoRecord = NoRecord
  DefaultNs = DefaultNs
  NoNs = NoNs
  SyncHost = {h1, h2}
  Origin = {h1, h2}
  SyncCall = {c1, c2}
  SyncFile = {f1, f2}
  MaxVersion = 2
  MaxSyncs = 3
  MaxMishaps = 1
  Admin = {a1, a2}
  NsName = {n1, n2}
  MaxOps = 2
SPECIFICATION SyncSpec
SYMMETRY Symmetric
CHECK_DEADLOCK FALSE
INVARIANT PullLosesOnlyRaced
