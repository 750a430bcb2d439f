SPECIFICATION DriverSpec
CONSTANTS
  ToCap = 2
  FromCap = 3
  NIn = 2
  Senders = {s1, s2}
INVARIANTS DriverSound
PROPERTIES FromNDServed SenderResumes WaitingServerWoken
\* The host sends a bounded number of messages; the board need not send.
CHECK_DEADLOCK FALSE
