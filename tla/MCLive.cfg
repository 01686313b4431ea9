CONSTANTS
  ip1 = ip1
  ip2 = ip2
  Nobody = Nobody
  IPs <- MCIPs
  Limit = 2
  BlockLimit = 3
  Protocols <- MCKnown
  MaxEvents = 5
CHECK_DEADLOCK FALSE
SPECIFICATION LiveSpec
SYMMETRY MCSymmetry
INVARIANTS
  SamplesAreReal
  LogsHeal
  DialogSettles
