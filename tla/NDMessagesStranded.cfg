SPECIFICATION Spec
CONSTANTS
  p1 = p1
  p2 = p2
  r1 = r1
  r2 = r2
  Ports = {p1, p2}
  Readers = {r1, r2}
  Deletable = {}
  NMsgs = 3
  PortOf <- Alternate
  Size <- AllShort
  Room <- SmallRoom
  MallocMaySleep = TRUE
INVARIANT NoStrandedReader
\* The host sends a bounded number of messages and then everybody may sleep.
CHECK_DEADLOCK FALSE
