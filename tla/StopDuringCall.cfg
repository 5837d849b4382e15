SPECIFICATION FairSpec
CONSTANTS
  Rooms = {r1}
  Cap = 1
  Deadline = FALSE
  MaxTurns = 2
  MaxCalls = 1
  MaxStops = 1
PROPERTY CallsEnd
CHECK_DEADLOCK FALSE
