CONSTANTS
  a = a
  b = b
  ua = ua
  ub = ub
  uc = uc
  r1 = r1
  NoURL = NoURL
  Names <- MCNames
  URLs <- MCTwoURLs
  Rules <- MCRules
  FirstLists <- MCOneOff
  NewSources <- MCReAdd
  MaxSources = 2
  MaxSaves = 1
CHECK_DEADLOCK FALSE
SPECIFICATION FairSpec
INVARIANTS
  NoRequestLost
  DatabaseIsWhole
  FetchedIsBlocked
PROPERTIES
  DatabaseHeals
  SourcesTakeEffect
