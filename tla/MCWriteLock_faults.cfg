SPECIFICATION FairSpec
CONSTANTS
  Proc = {p1, p2}
  Pid = {i1, i2, i3}
  Nonce = {n1, n2, n3}
  NoNonce = NoNonce
  NoLock = NoLock
  MaxAttempts = 4
  Batch = 2
  MaxKills = 1
  Stalls = TRUE
INVARIANTS AtMostOneLateRow AcknowledgedUnderLock
PROPERTIES LostForGood AbandonedLockIsBroken
