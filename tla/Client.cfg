SPECIFICATION Spec
CONSTANTS
  Addrs = {1, 2, 3}
  Socks = {1, 2, 3}
  Bufs = {1, 2}
  LruSize = 2
  MaxSlab = 1
  MaxRecs = 4
INVARIANTS RefsExact PoolWhole
PROPERTY StopCompletes
CHECK_DEADLOCK FALSE
