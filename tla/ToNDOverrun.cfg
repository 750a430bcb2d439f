SPECIFICATION Spec
CONSTANTS
  MSGBUF_SIZE = 8
  HDR = 2
  INT_SIZE = 2
  DpsMsgs = {1, 2}
  MachMsgs = {11, 12}
  Complex = {}
  Size <- Aligned
INVARIANT NoOverrun
\* All messages are sent and delivered in the end.
CHECK_DEADLOCK FALSE
