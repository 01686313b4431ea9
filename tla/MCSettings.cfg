CONSTANTS
  A = A
  B = B
  C = C
  dns = dns
  hash = hash
  Names <- MCNames
  StartSources <- MCSources
  Lines = {dns}
  Comment = hash
  DefaultLines = {dns}
  Languages <- MCLanguages
  StartLanguages = {"pl"}
  Minutes = {0, 2}
  StartTtl = 2
  MayFail = TRUE
  Calm = TRUE
  MaxActs = 4
  MaxCalls = 2
  MaxViews = 3
CHECK_DEADLOCK FALSE
SPECIFICATION FairSpec
INVARIANTS
  NoLostEdit
PROPERTIES
  ViewsSettle
