SPECIFICATION Spec
CONSTANTS
  MSGBUF_SIZE = 4
  Sizes = {1, 2, 3}
  MaxStream = 10
INVARIANTS OccupancyExact RawEqualMeansEmpty
PROPERTY ImplementsStream
\* The bound on the stream stops the writer, and then the reader.
CHECK_DEADLOCK FALSE
