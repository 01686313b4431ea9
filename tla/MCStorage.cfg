CONSTANTS
  L1 = L1
  L2 = L2
  Absent = Absent
  Broken = Broken
  Good = Good
  Useless = Useless
  Lists <- MCLists
  Retries = 2
  MayFail = TRUE
  MayBeUseless = FALSE
  SerialSaves = TRUE
  MaxSaves = 2
  MaxUpdates = 3
  MaxCrashes = 1
CHECK_DEADLOCK FALSE
SPECIFICATION Spec
INVARIANTS
  RestartKeepsConfig
  UpdatesAreSafe
  ListsSurviveOutages
