SPECIFICATION FairSpec
CONSTANTS
  one = one
  two = two
  entry = entry
  r1 = r1
  r2 = r2
  r3 = r3
  Call = {one, two, entry}
  Row = {r1, r2, r3}
  RowsOf <- SingleAndBatch
  MaxPendingRows = 2
CHECK_DEADLOCK FALSE
INVARIANTS QueueAccounting RefusedIsNotWritten FileOrderIsSeqOrder AcknowledgedIsAudited DrainResolvesWaiters
PROPERTIES ImplementsService EveryCallReturns
