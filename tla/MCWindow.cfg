CONSTANTS
  c1 = c1
  c2 = c2
  t1 = t1
  Startup = Startup
  Refresh = Refresh
  Clicks <- MCClicks
  TrayToggles <- MCTrayToggles
  MayFail = TRUE
  StartConfigs <- MCStartConfigs
  ToggleConfigs <- MCSwitching
  MaxActs <- MCMaxActs
  MaxRounds <- MCMaxRounds
CHECK_DEADLOCK FALSE
SPECIFICATION FairSpec
INVARIANTS
  IndicatorIsRight
  ToastsAreDue
PROPERTIES
  ButtonComesBack
  QuitQuits
