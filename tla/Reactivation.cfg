SPECIFICATION Spec
CONSTANTS
  Rooms = {r1}
  Beings = {b1}
  Segments = {s}
  Blank = {}
  NoSegment = none
  Grace = 1
  IdleCap = 1
  MaxTurns = 2
  MaxFrames = 1
  MaxNow = 3
  MaxCrashes = 1
INVARIANTS
  ReactivationBeginsATurn
