SPECIFICATION Spec
CONSTANTS
  t1 = t1
  t2 = t2
  Proc = {t1, t2}
  Daemon = daemon
  NPages = 3
  NFrames = 2
  MinFreePages = 1
  Batch = 2
  MaxOps = 4
INVARIANTS PagesSound LatestKept SleeperIsOwed
PROPERTIES FaultReturns
CHECK_DEADLOCK FALSE
