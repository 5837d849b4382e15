SPECIFICATION FairSpec
CONSTANTS
  Rooms = {r1, r2}
  Cap = 1
  Deadline = TRUE
  MaxTurns = 3
  MaxCalls = 1
  MaxStops = 2
INVARIANTS
  OpenTurnsAreHeardOf
  SlotsAndStops
PROPERTY SlotsComeFree
CHECK_DEADLOCK FALSE
