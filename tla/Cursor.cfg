SPECIFICATION CursorSpec
CONSTANTS
  CEQSIZE = 3
  Frames = {0, 1}
  NPlaces = 2
  SyncFirst = TRUE
  SyncLast = TRUE
  MaxEvents = 4
  MaxDraws = 1
  MaxTurns = 1
INVARIANTS ScreenSound DrawingKept
PROPERTY EventsTaken
\* A bounded number of calls: the system comes to rest.
CHECK_DEADLOCK FALSE
