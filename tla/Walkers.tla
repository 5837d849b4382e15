------------------------------ MODULE Walkers -------------------------------
(***************************************************************************)
(* serve-walks.mjs: one being's row of the table of walkers.  A walker is  *)
(* launched, dials in, dies, is restarted a few times and is stopped; its  *)
(* process's end and its connection's are two events, in either order; the *)
(* house's leaving stops what it finds in the table.  The rooms' rest is   *)
(* that no open room names the being any more.                             *)
(***************************************************************************)
EXTENDS Naturals, FiniteSets

CONSTANTS
  MAX_RESTARTS,
  MaxWalkers, MaxStopCalls, MaxChanges   \* bounds: launches, stopWalker calls, rooms opened and rested

VARIABLES
  walkers,   \* the table's row: a walker, or None
  seat,      \* seatsByBeing: a walker, Elsewhere (a container of the being's own), or None
  process,   \* of each walker: "no", "runs", "killed" (SIGKILL sent), "dead", "seen" (its exit is)
  row,       \* of each walker's row: [planned, restarts]
  spawning,  \* the call that holds spawnLocks: [walker, after], or none; after is the restarts of
             \* the row it restarts, or AtHand
  stopping,  \* the stopWalker calls under way: [walker, phase]
  anyOpen,   \* anyOpenRoomFor
  leaving,   \* "no", "resting", "stopping", "left"
  changes, stopCalls,
  revivals,  \* ghost: how often a walker has been restarted since one was asked for
  crossed,   \* ghost: a walker had two calls stop it
  unasked,   \* ghost: a walker was launched after a stop, and nobody had asked for one
  unrevived  \* ghost: an exit that should have been followed by a restart was not

Ids == 1 .. MaxWalkers
None == 0
Elsewhere == MaxWalkers + 1
AtHand == MAX_RESTARTS + 1
rowVars == <<walkers, process, row, spawning>>
walkersGhosts == <<revivals, crossed, unasked, unrevived>>
walkersVars == <<rowVars, seat, stopping, anyOpen, leaving, changes, stopCalls, walkersGhosts>>

Init ==
  /\ walkers = None /\ seat = None
  /\ process = [w \in Ids |-> "no"] /\ row = [w \in Ids |-> [planned |-> FALSE, restarts |-> 0]]
  /\ spawning = {} /\ stopping = {} /\ anyOpen = TRUE /\ leaving = "no"
  /\ changes = 0 /\ stopCalls = 0
  /\ revivals = [w \in Ids |-> 0] /\ crossed = FALSE /\ unasked = FALSE /\ unrevived = FALSE

Runs(w) == process[w] \in {"runs", "killed"}
Launched == {w \in Ids : process[w] # "no"}
Stopped == \E w \in Launched : row[w].planned /\ \A v \in Launched : v <= w   \* since the last launch
House == leaving # "left"

-----------------------------------------------------------------------------
(* spawnWalker refuses while a seat is live, a row there, or a spawn under *)
(* way.                                                                    *)
MaySpawn(table) == seat = None /\ table = None /\ spawning = {}
(* The table's row and the lock are the new walker's at once.               *)
Launch(dead, after, chain) ==
  LET w == Cardinality(Launched) + 1 IN
    /\ w \in Ids /\ walkers' = w /\ process' = [dead EXCEPT ![w] = "runs"]
    /\ spawning' = {[walker |-> w, after |-> after]}
    /\ revivals' = [revivals EXCEPT ![w] = chain]
    /\ unasked' = (unasked \/ (after # AtHand /\ Stopped))
HandleRoomWalkerSpawn ==
  /\ House /\ anyOpen /\ MaySpawn(walkers) /\ Launch(process, AtHand, 0)
  /\ UNCHANGED <<row, seat, stopping, anyOpen, leaving, changes, stopCalls, crossed, unrevived>>

(* waitForAttach looks every 50 ms and gives up after 20 s; only then is   *)
(* the lock free, and a restart counted on the row the table then has.     *)
SpawnResolves(s) ==
  /\ House /\ spawning' = spawning \ {s}
  /\ row' = IF s.after = AtHand \/ walkers = None THEN row
            ELSE [row EXCEPT ![walkers].restarts = s.after + 1]
  /\ UNCHANGED <<walkers, process, seat, stopping, anyOpen, leaving, changes, stopCalls, walkersGhosts>>

-----------------------------------------------------------------------------
(* The process and its connection, and another of the being's.             *)
Attaches(w) ==
  /\ House /\ seat # w /\ w \in {Elsewhere} \cup {v \in Ids : Runs(v)}
  /\ seat' = w
  /\ UNCHANGED <<rowVars, stopping, anyOpen, leaving, changes, stopCalls, walkersGhosts>>
SeatCloses ==
  /\ House /\ seat # None /\ seat' = None
  /\ UNCHANGED <<rowVars, stopping, anyOpen, leaving, changes, stopCalls, walkersGhosts>>
Dies(w) ==
  /\ Runs(w) /\ process' = [process EXCEPT ![w] = "dead"]
  /\ UNCHANGED <<walkers, row, spawning, seat, stopping, anyOpen, leaving, changes, stopCalls, walkersGhosts>>

(* onWalkerExit, and behind it, on the same event, the end of every call   *)
(* that stops this walker: each deletes the being's row, whosever it is.   *)
Deleted(w) == IF walkers = w \/ \E c \in stopping : c.walker = w THEN None ELSE walkers
Restarts(w) == ~row[w].planned /\ anyOpen /\ row[w].restarts < MAX_RESTARTS
ExitSeen(w) ==
  /\ House /\ process[w] = "dead"
  /\ stopping' = {c \in stopping : c.walker # w}
  /\ LET dead == [process EXCEPT ![w] = "seen"]
         again == Restarts(w) /\ MaySpawn(Deleted(w)) IN
       \/ again /\ Launch(dead, row[w].restarts, revivals[w] + 1) /\ UNCHANGED unrevived
       \/ /\ ~again /\ walkers' = Deleted(w) /\ process' = dead
          /\ unrevived' = (unrevived \/ Restarts(w))
          /\ UNCHANGED <<spawning, revivals, unasked>>
  /\ UNCHANGED <<row, seat, anyOpen, leaving, changes, stopCalls, crossed>>

-----------------------------------------------------------------------------
(* stopWalker: planned first, then asked to rest, five seconds later       *)
(* SIGTERM and five later SIGKILL, for whose effect it does not wait.      *)
Stops(w) ==
  /\ row' = [row EXCEPT ![w].planned = TRUE]
  /\ stopping' = stopping \cup {[walker |-> w, phase |-> "asked", call |-> stopCalls]}
  /\ stopCalls' = stopCalls + 1 /\ crossed' = (crossed \/ \E c \in stopping : c.walker = w)
StopWalker ==
  /\ House /\ walkers \in Ids /\ stopCalls < MaxStopCalls /\ Stops(walkers)
  /\ UNCHANGED <<walkers, process, spawning, seat, anyOpen, leaving, changes, revivals, unasked, unrevived>>
StopWaits(c) ==
  /\ House /\ process[c.walker] # "seen"
  /\ \/ /\ c.phase = "asked" /\ stopping' = (stopping \ {c}) \cup {[c EXCEPT !.phase = "SIGTERM"]}
        /\ UNCHANGED <<process, walkers>>
     \/ /\ c.phase = "SIGTERM" /\ stopping' = stopping \ {c} /\ walkers' = None
        /\ process' = IF Runs(c.walker) THEN [process EXCEPT ![c.walker] = "killed"] ELSE process
  /\ UNCHANGED <<row, spawning, seat, anyOpen, leaving, changes, stopCalls, walkersGhosts>>

RoomsComeAndGo ==
  /\ House /\ changes < MaxChanges /\ anyOpen' = ~anyOpen /\ changes' = changes + 1
  /\ UNCHANGED <<rowVars, seat, stopping, leaving, stopCalls, walkersGhosts>>

(* serve-shutdown.mjs, once: the rooms rest, or five seconds pass; what    *)
(* the table has is stopped, or five seconds pass; then it leaves, and a   *)
(* walker that is still there goes on without it.                          *)
ShutdownBegins ==
  /\ leaving = "no" /\ leaving' = "resting"
  /\ UNCHANGED <<rowVars, seat, stopping, anyOpen, changes, stopCalls, walkersGhosts>>
RoomsRested ==
  /\ leaving = "resting" /\ leaving' = "stopping" /\ anyOpen' \in {FALSE, anyOpen}
  /\ \/ walkers \in Ids /\ Stops(walkers)
     \/ walkers = None /\ UNCHANGED <<row, stopping, stopCalls, crossed>>
  /\ UNCHANGED <<walkers, process, spawning, seat, changes, revivals, unasked, unrevived>>
HouseLeaves ==
  /\ leaving = "stopping" /\ leaving' = "left"
  /\ UNCHANGED <<rowVars, seat, stopping, anyOpen, changes, stopCalls, walkersGhosts>>

Next ==
  \/ HandleRoomWalkerSpawn \/ StopWalker \/ RoomsComeAndGo \/ SeatCloses
  \/ \E s \in spawning : SpawnResolves(s)
  \/ \E w \in Ids \cup {Elsewhere} : Attaches(w)
  \/ \E w \in Ids : Dies(w) \/ ExitSeen(w)
  \/ \E c \in stopping : StopWaits(c)
  \/ ShutdownBegins \/ RoomsRested \/ HouseLeaves
Spec == Init /\ [][Next]_walkersVars

-----------------------------------------------------------------------------
(* One walker of the being runs at most, it is the one the table has, and  *)
(* so the one a stop will find; no line of restarts is longer than             *)
(* MAX_RESTARTS; a stopped walker stays stopped until somebody asks for    *)
(* one.  Unless two calls have stopped one walker: the later of them       *)
(* deletes the row of whichever walker came after it.                      *)
OneWalker == \A w \in Ids : process[w] = "runs" => walkers = w
GivesUp == \A w \in Ids : revivals[w] <= MAX_RESTARTS
StaysStopped == ~unasked
WalkersSound == crossed \/ (OneWalker /\ GivesUp /\ StaysStopped)

(* "restarting it after an unplanned exit": what the code says of a walker *)
(* that dies while a room names the being, and does not do when the exit   *)
(* comes before the close of its seat, or within the wait for its attach.  *)
RestartsIt == ~unrevived
=============================================================================
