CONSTANTS
  main = main
  window = window
  tray = tray
  emitter = emitter
  h1 = h1
  h2 = h2
  Nil = Nil
  Threads <- MCThreads
  Handles <- MCHandles
  Ops <- MCOps
  SerialCalls = TRUE
  MaxOpens = 3
  MaxOthers = 1
CHECK_DEADLOCK FALSE
SPECIFICATION Spec
INVARIANTS
  HandlesAccountedFor
  ProtectionIsReal
