SPECIFICATION DriverSpec
CONSTANTS
  ToCap = 3
  FromCap = 3
  NIn = 3
  Senders = {}
PROPERTY ServerResumes
\* The host sends a bounded number of messages; the board need not send.
CHECK_DEADLOCK FALSE
