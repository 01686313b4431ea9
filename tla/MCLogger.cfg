CONSTANTS
  e1 = e1
  e2 = e2
  e3 = e3
  s1 = s1
  Entries <- MCThree
  Size = 2
  Unused = Unused
  ChanCap = 2
  SubCap = 1
  Subs <- MCSubs
  RotateEvery = 1
CHECK_DEADLOCK FALSE
SPECIFICATION FairSpec
INVARIANTS
  EverywhereInOrder
  CloseDrains
PROPERTIES
  WrittenIsKept
  CloseReturns
  KeepsTheLatest
