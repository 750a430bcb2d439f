SPECIFICATION Spec
CONSTANTS
  NCalls = 3
  DebugEnabled = FALSE
  HardclockPings = TRUE
  DebugMayDie = FALSE
  ServerPauses = FALSE
PROPERTY CallReturns
\* The board makes a bounded number of calls.
CHECK_DEADLOCK FALSE
