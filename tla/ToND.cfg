SPECIFICATION Spec
CONSTANTS
  MSGBUF_SIZE = 8
  HDR = 2
  INT_SIZE = 2
  DpsMsgs = {1, 2, 3}
  MachMsgs = {11, 12, 13}
  Complex = {12}
  Size <- Aligned
INVARIANTS QueueSound NoOverrunAlone
PROPERTY EverythingDelivered
\* All messages are sent and delivered in the end.
CHECK_DEADLOCK FALSE
