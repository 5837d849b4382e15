SPECIFICATION FairSpec
CONSTANTS
  Rooms = {r1}
  Beings = {b1}
  Segments = {s, blank}
  Blank = {blank}
  NoSegment = none
  Grace = 2
  IdleCap = 1
  MaxTurns = 2
  MaxFrames = 2
  MaxNow = 4
  MaxCrashes = 1
INVARIANTS
  PromisesMatchTurns
  WaitingTurnHasTimer
  RecordMatchesOutcome
  CallsAnsweredOnce
PROPERTIES
  SeatedTurnNotAborted
  LostSeatSettles
