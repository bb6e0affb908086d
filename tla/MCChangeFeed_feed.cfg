SPECIFICATION FairSpec
CONSTANTS
  steady = steady
  slow = slow
  Client = {steady, slow}
  Steady = {steady}
  NoCursor = NoCursor
  Ready = Ready
  MaxSubscribers = 2
  MaxQueueEvents = 1
  MaxReplayEvents = 2
  MaxReplayCommits = 2
  MaxChanges = 2
  MaxCommits = 3
CHECK_DEADLOCK FALSE
INVARIANTS NoGap SteadyNeverOverflows
PROPERTIES FeedCatchesUp
