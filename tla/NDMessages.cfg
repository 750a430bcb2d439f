SPECIFICATION Spec
CONSTANTS
  p1 = p1
  p2 = p2
  r1 = r1
  r2 = r2
  Ports = {p1, p2}
  Readers = {r1, r2}
  Deletable = {p1}
  NMsgs = 4
  PortOf <- Alternate
  Size <- OneLong
  Room <- SmallRoom
  MallocMaySleep = TRUE
INVARIANTS MessagesSound AwakePortsServed
PROPERTIES WaitingReaderServed QueuedReleasedByDeath
\* The host sends a bounded number of messages and then everybody may sleep.
CHECK_DEADLOCK FALSE
