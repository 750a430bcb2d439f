SPECIFICATION Spec
CONSTANTS
  Groups <- MCGroups
  BufferSize = 16
  TypeSize = 3
  PtrSize = 1
  RequestSize = 3
  MaxArgs = 4
  MaxMarks = 2
INVARIANT NothingDropped
\* The window server makes MaxMarks marks.
CHECK_DEADLOCK FALSE
