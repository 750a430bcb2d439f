SPECIFICATION LockSpec
CONSTANTS
  Procs = {0, 1, 2}
  DpsProcs = {}
  MAX_LOCK_NUM = 3
INVARIANTS MutualExclusion HeldIsVisible
PROPERTY LockProgress
