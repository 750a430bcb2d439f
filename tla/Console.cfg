SPECIFICATION Spec
CONSTANTS
  NCalls = 3
  DebugEnabled = TRUE
  HardclockPings = TRUE
  DebugMayDie = TRUE
  ServerPauses = TRUE
INVARIANTS PutsReported GetsOwnAnswer
PROPERTY UndisturbedReturns
\* The board makes a bounded number of calls.
CHECK_DEADLOCK FALSE
