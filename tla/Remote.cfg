SPECIFICATION MCSpec
CONSTANTS
  Cap = 2
  MaxCalls = 1
  MaxOpens = 1
  MaxIncoming = 1
  MaxFaults = 2
  MaxRecordings = 3
  GpuMax = 1
  GpuQueue = 1
  CacheMax = 1
  MaxTries = 3
  MaxAtOnce = 2
  MaxLives = 2
  Beings = {"a", "b"}
  Human = "h"
  Speakers = {"b"}
  Fragile = {"a"}
  Files = {"f"}
  Albums <- OnceOrTwice
  MAX_ATTACHMENTS = 1
  MaxPosts = 2
  MaxTold = 1
  MaxShown = 3
  MaxAnew = 1
INVARIANTS  FilesSound
PROPERTY CallsSettle
CHECK_DEADLOCK FALSE
