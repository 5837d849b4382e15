SPECIFICATION MCSpec
CONSTANTS
  Beings = {b1, b2}
  Precision = 3
  MaxFrames = 6
  MaxCalls = 1
  Members = {"a", "b"}
  Threshold = 2
  MaxOpen = 1
  PerDay = 1
  Day = 0
  Words = 0
  Keep = 0
  Limit = 2
  MaxPosts = 3
  MaxActs = 5
  MaxTime = 2
  MaxOthers = 2
  Budget = 3
  SeenCap = 1
  MaxSent = 2
  MaxSocks = 2
  Trials = 1
  MaxText = 6
  Limits = {4}
  MaxItems = 4
  MaxPictures = 3
  DreamMax = 1
  DreamQueue = 1
  LocalMax = 1
  LocalQueue = 1
  FailureThreshold = 1
  Entries = 1
  MaxAsks = 4
  MaxPlan = 2
  MAX_STROKES = 2
  Samples = {4}
  Pauses = {0}
  Updates = {60}
  Calls = {"c", "d"}
  MaxSessions = 3
  MaxDrops = 1
  MaxRefusals = 1
  Seats = {s1, s2}
  Authors = {"ann"}
  Being = "b"
  OwnWords = {"w"}
  WordsSaid = {"v", "w"}
  Hiders = {"h"}
  MaxEvents = 3
  MaxBare = 1
  MaxScans = 1
SYMMETRY Symmetry
INVARIANTS NumbersAscend ConversationRunsOn CounterIsFree WordsSound BoardSound ServersSound
CHECK_DEADLOCK FALSE
