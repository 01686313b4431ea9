CONSTANTS
  w1 = w1
  w2 = w2
  r1 = r1
  r2 = r2
  IPs <- MCIPs
  Threads <- MCThreads
  Reloaders <- MCReloaders
  Databases <- MCDatabases
  AllowSets <- MCAllowSets
  MaxSize = 1
  TTL = 1
  MaxClears = 2
  NoEntry = NoEntry
  Idle = Idle
SPECIFICATION FairSpec
INVARIANTS
  NoInventedDecision
  AllowlistWins
PROPERTIES
  StaleDecisionsHeal
  ImplementsFilter
