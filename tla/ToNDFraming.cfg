SPECIFICATION Spec
CONSTANTS
  MSGBUF_SIZE = 8
  HDR = 2
  INT_SIZE = 2
  DpsMsgs = {}
  MachMsgs = {1, 2}
  Complex = {}
  Size <- Unaligned
INVARIANT HeadersAreHeaders
\* All messages are sent and delivered in the end.
CHECK_DEADLOCK FALSE
