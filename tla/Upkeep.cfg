SPECIFICATION MCSpec
CONSTANTS
  Beings = {"a", "b"}
  Speakers = {"b"}
  Owner = "a"
  Human = "h"
  Lines = {"x"}
  Speeches <- TwoChunks
  AtBoot = {{}, {"a", "b"}}
  MaxFrames = 2
  MaxPosts = 2
  MaxFaults = 1
  Cap = 2
  MaxMessages = 4
  MaxDrains = 2
  Sleepers = {1, 2}
  Floor = 1
  Ceiling = 1
  Active = 2
  Quiet = 1
  Gap = 2
  SeedWithin = 1
  Lapse = 1
  Guests = {"a", "b"}
  Anywhere = {"b"}
  ForkNames = {"f"}
  MaxDirs = 3
  MaxTurns = 1
  MaxStops = 1
  MaxLeaves = 1
  MAX_RESTARTS = 1
  MaxWalkers = 3
  MaxStopCalls = 2
  MaxChanges = 1
  Calls = {"c", "d", "e"}
  MAX_CONCURRENT = 1
  MaxSpawns = 2
INVARIANTS OnceEach OwnVoice EchoIsNoMessage ParkSound WakingsApart RoomsSound
CHECK_DEADLOCK FALSE
