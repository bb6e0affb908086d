SPECIFICATION FairSpec
CONSTANTS
  Proc = {p1, p2}
  Write = {w1, w2, w3}
  Free = Free
  Unread = Unread
  MaxLines = 2
CHECK_DEADLOCK FALSE
INVARIANTS PairInOneCommit ExitCommits
PROPERTIES AcknowledgedIsCommitted
