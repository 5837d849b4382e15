SPECIFICATION MCSpec
CONSTANTS
  Accounts = {"x", "y"}
  Owners = {"ann", "bob"}
  Rooted = {"ann"}
  Attempts = 2
  LimitMax = 1
  MaxCodes = 2
  MaxChanges = 3
  Importers = {"p", "q"}
  Unit = 4
  MaxArchive = 2
  MaxSweeps = 2
  MaxLive = 2
  MaxEnds = 1
  Beings = {"a", "b"}
  MaxLines = 2
  MaxTicks = 2
  MaxStops = 1
  MaxStarts = 1
  Minutes = 2
  LifeBudgets = {6, 10, 16}
  LineLengths = {9}
  EXCERPT = 3
  FullLengths = {7, 15}
  TAIL = 4
  MaxStored = 4
  MaxCovenants = 1
  Rooms = {"den", "hall"}
  Public = {"hall"}
  People = {"ann", "bob"}
  Being = "b"
  Reader = "ann"
  Words = {"v", "w"}
  LONG = {"w"}
  READ_CAP = 2
  SEARCH_MAX_RECORDS = 1
  MaxRecord = 3
  MaxReads = 3
  Private = {"den"}
  MaxWrites = 3
  MaxSwitches = 2
INVARIANTS LinksSound RecordsSound CommandsSound
CHECK_DEADLOCK FALSE
