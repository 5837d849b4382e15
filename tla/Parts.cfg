SPECIFICATION Spec
CONSTANTS
  Streams = {1, 2}
  MaxFaults = 2
  Beings = {1, 2}
  Budget = 1
  TurnMax = 2
  ToFlag = 2
  MaxPosts = 1
  MaxHuman = 1
  LifeRooms = {"den"}
  PublicRooms = {}
  People = {"ann", "bob"}
  Consenting = {"bob"}
  MaxFrames = 2
  MaxQueue = 1
  MaxLapses = 1
INVARIANTS ChildHostSound DispatchSound LivesSound
PROPERTIES ChildComesBack LoopsEnd StaleEnds
CHECK_DEADLOCK FALSE
