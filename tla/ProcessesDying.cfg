SPECIFICATION Spec
\* The last process may end, and idle() then waits for ever.
CHECK_DEADLOCK FALSE
CONSTANTS
  NPROC = 3
  NPages = 4
  BlockSizes = {2}
  Priorities = {1, 2}
  MapSize = 4
INVARIANT DyingKeepsStack
