------------------------------ MODULE MCUpkeep ------------------------------
(* A room of a platform, which this module extends, and five more parts     *)
(* of the house that share no state with it, checked in one run as in       *)
(* MCParts: each behaviour is one of one part, the others stay at rest.     *)
EXTENDS PlatformRoom
CONSTANTS
  Cap, MaxMessages, MaxDrains,                          \* Park
  Sleepers, Floor, Ceiling, Active, Quiet, Gap, SeedWithin, Lapse, \* Wakings
  Guests, Anywhere, ForkNames, MaxDirs, MaxTurns, MaxStops, MaxLeaves, \* Rooms
  MAX_RESTARTS, MaxWalkers, MaxStopCalls, MaxChanges,   \* Walkers
  Calls, MAX_CONCURRENT, MaxSpawns                      \* ToolSessions
ASSUME PartsAssumption ==
  /\ Cap \in Nat \ {0} /\ MaxMessages \in Nat /\ MaxDrains \in Nat
  /\ Gap \in Nat
  /\ MAX_RESTARTS \in Nat /\ MaxWalkers \in Nat
  /\ MaxSpawns \in Nat /\ MAX_CONCURRENT \in Nat
  /\ MaxDirs \in Nat /\ Anywhere \subseteq Guests /\ "stream" \notin ForkNames /\ "none" \notin ForkNames
VARIABLES part,
  arrived, chain, heap, queue, drains, fate, replayed, overlaps, pushes,
  alarm, seeded, history, lastHuman, lastAny, live, away, inTurn, sinceWoken, chose,
  dirs, opened, rested, opening, tailed, seated, seats, turns, lost, walks, forks, entered, forking, twice, forkedOver, stops, leaves,
  walkers, seat, process, row, spawning, stopping, anyOpen, leaving, changes, stopCalls,
  revivals, crossed, unasked, unrevived,
  proc, listed, old, sent, grace, call, crashed

TwoChunks == {<<"x", "y">>}
K == INSTANCE Park
W == INSTANCE Wakings
SeatsItself == [b \in Guests |-> IF b \in Anywhere THEN {b} ELSE {}]
M == INSTANCE Rooms WITH Rosters <- SeatsItself
A == INSTANCE Walkers
T == INSTANCE ToolSessions

parkVars == <<arrived, chain, heap, queue, drains, fate, replayed, overlaps, pushes>>
wakeVars == <<alarm, seeded, history, lastHuman, lastAny, live, away, inTurn, sinceWoken, chose>>
roomsVars == <<dirs, opened, rested, opening, tailed, seated, seats, turns, lost, walks, forks, entered, forking, twice, forkedOver, stops, leaves>>
walkersVars == <<walkers, seat, process, row, spawning, stopping, anyOpen, leaving, changes, stopCalls,
                 revivals, crossed, unasked, unrevived>>
sessionsVars == <<proc, listed, old, sent, grace, call, crashed>>
upkeepVars == <<part, vars, parkVars, wakeVars, roomsVars, walkersVars, sessionsVars>>
MCInit ==
  /\ part \in {"platform", "park", "wake", "rooms", "walkers", "sessions"}
  /\ Init /\ K!Init /\ W!Init /\ M!Init /\ A!Init /\ T!Init
  /\ part # "platform" => tails = {}
MCNext ==
  /\ UNCHANGED part
  /\ \/ part = "platform" /\ Next /\ UNCHANGED <<parkVars, wakeVars, roomsVars, walkersVars, sessionsVars>>
     \/ part = "park" /\ K!Next /\ UNCHANGED <<vars, wakeVars, roomsVars, walkersVars, sessionsVars>>
     \/ part = "wake" /\ W!Next /\ UNCHANGED <<vars, parkVars, roomsVars, walkersVars, sessionsVars>>
     \/ part = "rooms" /\ M!Next /\ UNCHANGED <<vars, parkVars, wakeVars, walkersVars, sessionsVars>>
     \/ part = "walkers" /\ A!Next /\ UNCHANGED <<vars, parkVars, wakeVars, roomsVars, sessionsVars>>
     \/ part = "sessions" /\ T!Next /\ UNCHANGED <<vars, parkVars, wakeVars, roomsVars, walkersVars>>
MCSpec == MCInit /\ [][MCNext]_upkeepVars

ParkSound == part = "park" => K!Sound
WakingsApart == part = "wake" => W!WakingsApart
(* A stream has its one room and its seats, a being has its one walker,    *)
(* and that the shell sessions it is told of.                              *)
RoomsSound ==
  /\ part = "rooms" => M!Sound
  /\ part = "walkers" => A!WalkersSound
  /\ part = "sessions" => T!SessionsSound
=============================================================================
