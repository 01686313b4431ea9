CONSTANTS
  t1 = t1
  t2 = t2
  IPs <- MCIPs
  Threads <- MCThreads
  MaxSize = 2
  TTL = 1
  MaxClears = 1
  NoEntry = NoEntry
  Idle = Idle
SPECIFICATION CacheSpec
SYMMETRY Symmetry
INVARIANTS
  KeysInRing
  LenBounded
  ClearInvalidates
