SPECIFICATION HostSpec
CONSTANTS
  Procs = {0, 1}
  DpsProcs = {0}
  MAX_LOCK_NUM = 6
INVARIANTS MutualExclusion
PROPERTY ProgressOrSelfWait
CHECK_DEADLOCK FALSE
