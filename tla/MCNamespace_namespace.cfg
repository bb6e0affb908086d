SPECIFICATION NamespaceSpec
CONSTANTS
  c1 = c1
  c2 = c2
  k1 = k1
  u1 = u1
  MemoryCall = {c1, c2}
  MemoryKey = {k1}
  Author = {u1}
  UnknownKey = UnknownKey
  SystemAuthor = SystemAuthor
  NoFilter = NoFilter
  MaxMemoryId = 2
  MaxMemoryRows = 3
  MaxMonth = 2
  Slack = 0
  MaxWindow = 2
  Searcher = {c1, c2}
  NoIndex = NoIndex
  MaxSourceRows = 3
  AutoBuildRows = 2
  MaxSearchFaults = 1
SYMMETRY Symmetric
CHECK_DEADLOCK FALSE
INVARIANTS BoundedIsExact ListIsLive ServedIsCurrent
