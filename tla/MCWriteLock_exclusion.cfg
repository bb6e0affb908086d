SPECIFICATION Spec
CONSTANTS
  Proc = {p1, p2}
  Pid = {i1, i2}
  Nonce = {n1, n2, n3}
  NoNonce = NoNonce
  NoLock = NoLock
  MaxAttempts = 4
  Batch = 1
  MaxKills = 0
  Stalls = FALSE
INVARIANT MutualExclusion
