-------------------------------- MODULE Rooms --------------------------------
(***************************************************************************)
(* How the room of one stream is opened by the platform seats of several   *)
(* beings (serve-rooms.mjs, room-index.mjs, mcpl/room-tails.mjs,           *)
(* mcpl/seat-registry.mjs), and how it is forked (room-fork.mjs) while     *)
(* turns run in it (seat/socket-seat.mjs).  A directory of a run counts as *)
(* a room when its class.json is there.  Directories outlive the process.  *)
(***************************************************************************)
EXTENDS Naturals, Sequences, FiniteSets, SequencesExt, Functions

CONSTANTS
  Guests,       \* the beings, each with a platform seat and a walker
  Rosters,      \* [Guests -> SUBSET Guests]: whom a seat's own configuration seats here
  Anywhere,     \* the beings of a server with rooms_policy "any"
  ForkNames, MaxDirs, MaxTurns, MaxStops, MaxLeaves   \* names of forks, bounds

VARIABLES
  dirs,         \* the runs: [place, written, roster]; place is Stream or a fork's name
  opened, rested,   \* the registry `open`, and those of it that rest
  opening,      \* the opens in flight: [id, waiting]
  tailed,       \* per seat, the rooms it tails
  seated,       \* the beings with a live seat
  seats,        \* per run, rec.seats
  turns,        \* <<being, id>>: the turns the house holds
  lost,         \* of those, the ones whose grace timer runs
  walks,        \* the turns the walkers are at
  forks, entered,   \* stream.forks (name -> id) and stream.active
  forking,      \* per seat, the fork it mints: [id, name, known]
  twice,        \* two forks were being minted at once, or a restart forgot one
  forkedOver,   \* the turns during which a fork of their room was active
  stops, leaves

roomsVars == <<dirs, opened, rested, opening, tailed, seated, seats, turns, lost, walks,
               forks, entered, forking, twice, forkedOver, stops, leaves>>
Registry == <<opened, rested, seats>>
Turning  == <<turns, lost, walks, forkedOver>>
Forking  == <<forks, entered, forking, twice>>
Bounds   == <<stops, leaves>>

Stream  == "stream"
Outside == "none"
NoFork  == [id |-> 0, name |-> Outside, known |-> <<>>]
Ids == 1 .. MaxDirs

Init ==
  /\ dirs = <<>> /\ opened = {} /\ rested = {} /\ opening = {}
  /\ tailed = [b \in Guests |-> {}] /\ seated = Guests /\ seats = [i \in Ids |-> {}]
  /\ turns = {} /\ lost = {} /\ walks = {} /\ forkedOver = {}
  /\ forks = <<>> /\ entered = Outside /\ forking = [b \in Guests |-> NoFork] /\ twice = FALSE
  /\ stops = 0 /\ leaves = 0

-----------------------------------------------------------------------------
(* findRoom: what the index says is read again, and when it says nothing   *)
(* every run is scanned.                                                   *)
Found == {i \in DOMAIN dirs : dirs[i].written /\ dirs[i].place = Stream}
Room == CHOOSE i \in Found : TRUE

Dir(place, roster) == [place |-> place, written |-> FALSE, roster |-> roster]
Joined(d, i, bs) == [d EXCEPT ![i].roster = @ \cup bs]

(* attachRegisteredSeat, to the run as d has it.                           *)
Attached(s, d, i) == [s EXCEPT ![i] = @ \cup (d[i].roster \cap seated)]

(* trackRoomOnAllSeats, for every seat whose ensureLive came to room i: a  *)
(* sibling in the roster tails it, one that goes anywhere joins it.        *)
Comers(d, i, by) == by \cup {b \in Guests \ by : b \in d[i].roster \/ b \in Anywhere}
Tracked(d, i, by) == [b \in Guests |-> IF b \in Comers(d, i, by) THEN tailed[b] \cup {i} ELSE tailed[b]]
Entered(d, i, by) == Joined(d, i, {b \in Anywhere : by \ {b} # {}})

(* ensureLive's roster: the configuration's, else the room's, else its own. *)
Roster(b) ==
  LET own == IF Rosters[b] # {} THEN Rosters[b] ELSE IF Found # {} THEN dirs[Room].roster ELSE {b}
  IN own \cup ({b} \cap Anywhere)

Registers(d, i) ==
  /\ dirs' = d /\ opened' = opened \cup {i} /\ rested' = rested \ {i} /\ seats' = Attached(seats, d, i)

(* openRoom: one open of a stream at a time, the others wait for its end   *)
(* with the first one's roster.                                            *)
(* Mutation of MayOpen: nobody waits.                                      *)
OpensAnyway(b) == \A o \in opening : b \notin o.waiting
MayOpen(b) == opening = {}

JoinsOpen(b) ==
  \E o \in opening :
    /\ ~MayOpen(b) /\ b \notin o.waiting
    /\ opening' = (opening \ {o}) \cup {[o EXCEPT !.waiting = @ \cup {b}]}
    /\ UNCHANGED <<dirs, Registry, tailed, seated, Turning, Forking, Bounds>>

(* The room is there, live or rested: the beings it lacks join.            *)
OpensAgain(b) ==
  /\ MayOpen(b) /\ Found # {}
  /\ LET merged == Joined(dirs, Room, Roster(b)) IN
       /\ Registers(Entered(merged, Room, {b}), Room)
       /\ tailed' = Tracked(merged, Room, {b})
  /\ UNCHANGED <<opening, seated, Turning, Forking, Bounds>>

(* No room: a directory, then the wait for its trace.                      *)
StartsOpening(b) ==
  /\ MayOpen(b) /\ Found = {} /\ Len(dirs) < MaxDirs
  /\ dirs' = Append(dirs, Dir(Stream, Roster(b)))
  /\ opening' = opening \cup {[id |-> Len(dirs) + 1, waiting |-> {b}]}
  /\ UNCHANGED <<Registry, tailed, seated, Turning, Forking, Bounds>>

Opens(o) ==
  /\ o \in opening /\ opening' = opening \ {o}
  /\ LET written == [dirs EXCEPT ![o.id].written = TRUE] IN
       /\ Registers(Entered(written, o.id, o.waiting), o.id)
       /\ tailed' = Tracked(written, o.id, o.waiting)
  /\ UNCHANGED <<seated, Turning, Forking, Bounds>>

(* POST /api/rooms/:id/rest.                                               *)
Rests(i) ==
  /\ i \in opened \ rested /\ dirs[i].place = Stream /\ rested' = rested \cup {i}
  /\ UNCHANGED <<dirs, opened, opening, tailed, seated, seats, Turning, Forking, Bounds>>

-----------------------------------------------------------------------------
(* A message that names b is applied: to the fork that is entered, if one  *)
(* is (applyInputAction).  No seat in that run: b is unseated; a turn      *)
(* under way: b has none of its own for it.                                *)
ActiveFork == IF entered \in DOMAIN forks THEN forks[entered] ELSE 0
Target == IF ActiveFork # 0 THEN ActiveFork ELSE Room
Says(b) ==
  /\ opening = {} /\ Found # {} /\ Room \notin rested /\ Cardinality(turns \cup walks) < MaxTurns
  /\ LET i == Target
         held == IF i \in opened THEN seats ELSE Attached(seats, dirs, i) IN
       /\ opened' = opened \cup {i} /\ seats' = held
       /\ b \in held[i] /\ <<b, i>> \notin turns
       /\ turns' = turns \cup {<<b, i>>} /\ walks' = walks \cup {<<b, i>>}
       /\ forkedOver' = forkedOver \ {<<b, i>>}
  /\ UNCHANGED <<dirs, rested, opening, tailed, seated, lost, Forking, Bounds>>

(* turnRecFor: what a being sends for run i.                               *)
RoutedTo(i) == IF dirs[i].place = Stream /\ ActiveFork # 0 /\ ActiveFork \in opened THEN ActiveFork ELSE i

(* A walker ends its turn: heard where that turn is held, or not at all.   *)
Ends(b, i) ==
  /\ <<b, i>> \in walks /\ b \in seated
  /\ walks' = walks \ {<<b, i>>}
  /\ IF RoutedTo(i) = i THEN turns' = turns \ {<<b, i>>} /\ lost' = lost \ {<<b, i>>}
                        ELSE UNCHANGED <<turns, lost>>
  /\ UNCHANGED <<dirs, Registry, opening, tailed, seated, Forking, forkedOver, Bounds>>

(* A being's connection goes, in every run that holds its seat, and comes  *)
(* back; its walker goes on.                                               *)
Leaves(b) ==
  /\ b \in seated /\ leaves < MaxLeaves /\ leaves' = leaves + 1
  /\ seated' = seated \ {b} /\ seats' = [i \in Ids |-> seats[i] \ {b}]
  /\ lost' = lost \cup {t \in turns : t[1] = b /\ \E i \in opened : b \in seats[i] /\ t[2] = RoutedTo(i)}
  /\ UNCHANGED <<dirs, opened, rested, opening, tailed, turns, walks, forkedOver, Forking, stops>>

Returns(b) ==
  /\ b \notin seated /\ seated' = seated \cup {b}
  /\ LET at == {i \in opened : b \in dirs[i].roster} IN
       /\ seats' = [i \in Ids |-> IF i \in at THEN seats[i] \cup {b} ELSE seats[i]]
       /\ lost' = lost \ {<<b, RoutedTo(i)>> : i \in at}
  /\ UNCHANGED <<dirs, opened, rested, opening, tailed, turns, walks, forkedOver, Forking, Bounds>>

GraceExpires(t) ==
  /\ t \in lost /\ lost' = lost \ {t} /\ turns' = turns \ {t}
  /\ UNCHANGED <<dirs, Registry, opening, tailed, seated, walks, forkedOver, Forking, Bounds>>

-----------------------------------------------------------------------------
(* !stream in, applied by the seat that recorded it.                       *)
Crossed == forkedOver \cup {t \in turns : t[2] \in Found}
Rides(i) == [seats EXCEPT ![i] = @ \cup seats[Room]]

EntersKnown(b, name) ==
  /\ forking[b].id = 0 /\ opening = {} /\ Found \cap opened # {} /\ name \in DOMAIN forks
  /\ entered' = name /\ forkedOver' = Crossed
  /\ seats' = (IF forks[name] \in opened THEN Rides(forks[name]) ELSE seats)
  /\ tailed' = [tailed EXCEPT ![b] = @ \cup {forks[name]}]
  /\ UNCHANGED <<dirs, opened, rested, opening, seated, turns, lost, walks, forks, forking, twice, Bounds>>

(* forkRoom reads the list of forks, then waits for the trace.             *)
StartsFork(b, name) ==
  /\ forking[b].id = 0 /\ opening = {} /\ Found \cap opened # {} /\ name \notin DOMAIN forks
  /\ Len(dirs) < MaxDirs
  /\ dirs' = Append(dirs, Dir(name, dirs[Room].roster))
  /\ forking' = [forking EXCEPT ![b] = [id |-> Len(dirs) + 1, name |-> name, known |-> forks]]
  /\ twice' = (twice \/ \E c \in Guests : forking[c].id # 0)
  /\ UNCHANGED <<Registry, opening, tailed, seated, Turning, forks, entered, Bounds>>

Listed(known, name, id) == [n \in DOMAIN known \cup {name} |-> IF n = name THEN id ELSE known[n]]

Forks(b) ==
  /\ forking[b].id # 0
  /\ LET f == forking[b] IN
       /\ dirs' = [dirs EXCEPT ![f.id].written = TRUE]
       /\ opened' = opened \cup {f.id}
       /\ seats' = Rides(f.id) /\ tailed' = [tailed EXCEPT ![b] = @ \cup {f.id}]
       /\ forks' = Listed(f.known, f.name, f.id) /\ entered' = f.name
  /\ forking' = [forking EXCEPT ![b] = NoFork]
  /\ forkedOver' = Crossed
  /\ UNCHANGED <<rested, opening, seated, turns, lost, walks, twice, Bounds>>

(* !stream out.                                                            *)
LeavesFork(b) ==
  /\ forking[b].id = 0 /\ ActiveFork # 0 /\ entered' = Outside
  /\ tailed' = [tailed EXCEPT ![b] = @ \ {ActiveFork}]
  /\ UNCHANGED <<dirs, Registry, opening, seated, Turning, forks, forking, twice, Bounds>>

(* !stop: a turn is closed where it is held.                               *)
Stops(t) ==
  /\ t \in turns /\ turns' = turns \ {t} /\ lost' = lost \ {t} /\ walks' = walks \ {t}
  /\ UNCHANGED <<dirs, Registry, opening, tailed, seated, forkedOver, Forking, Bounds>>

(* The house ends, in the midst of anything, and starts: the directories   *)
(* are what is left, one without its class.json among them.                *)
Restarts ==
  /\ stops < MaxStops /\ stops' = stops + 1
  /\ opened' = {} /\ rested' = {} /\ opening' = {} /\ tailed' = [b \in Guests |-> {}]
  /\ seated' = {} /\ seats' = [i \in Ids |-> {}]
  /\ turns' = {} /\ lost' = {} /\ walks' = {} /\ forkedOver' = {}
  /\ forks' = <<>> /\ entered' = Outside /\ forking' = [b \in Guests |-> NoFork]
  /\ twice' = (twice \/ forks # <<>>)
  /\ UNCHANGED <<dirs, leaves>>

Next ==
  \/ Restarts \/ \E o \in opening : Opens(o)
  \/ \E i \in opened : Rests(i)
  \/ \E b \in Guests :
       \/ JoinsOpen(b) \/ OpensAgain(b) \/ StartsOpening(b) \/ Says(b) \/ Leaves(b) \/ Returns(b)
       \/ Forks(b) \/ LeavesFork(b) \/ \E n \in ForkNames : EntersKnown(b, n) \/ StartsFork(b, n)
  \/ \E t \in walks : Ends(t[1], t[2])
  \/ \E t \in turns : GraceExpires(t) \/ Stops(t)
Spec == Init /\ [][Next]_roomsVars

-----------------------------------------------------------------------------
(* However many seats, restarts and half-made directories: one stream has  *)
(* one room (room-index.mjs: the one failure a room-centric house must     *)
(* never have).                                                            *)
OneRoom == Cardinality(Found) <= 1

(* A seat that has come to know the room is heard in it: its being is in   *)
(* the roster, if its server goes anywhere or its configuration seats it   *)
(* and it opened the room itself, and a being of the roster that has a     *)
(* live seat holds it in every room that is open.                          *)
RosterSeated ==
  /\ \A i \in opened \cap Found : dirs[i].roster \cap seated \subseteq seats[i]
  /\ \A b \in Anywhere, i \in opened \cap Found : i \in tailed[b] => b \in dirs[i].roster

(* A turn the house holds is one its walker is at, whosever connection is  *)
(* lost, or a fork of its room was entered during it.                      *)
TurnsAreHeard == turns \subseteq walks \cup forkedOver

(* A fork's name keeps its one child, until two are minted at once or a    *)
(* restart forgets them.                                                   *)
NamesKeepTheirChild ==
  ~twice => \A i \in DOMAIN dirs : dirs[i].written /\ dirs[i].place # Stream =>
              dirs[i].place \in DOMAIN forks /\ forks[dirs[i].place] = i

Sound == OneRoom /\ RosterSeated /\ TurnsAreHeard /\ NamesKeepTheirChild

(* Violated.  socket-seat.mjs:120-127: a turn's traffic is resolved to the *)
(* parent or to the fork; it is resolved by what is entered when it comes, *)
(* and the turn is where it was begun.                                     *)
ForkOrNot == turns \subseteq walks \cup lost

(* Violated.  room-fork.mjs:25-26: a name's child is "kept forever".       *)
KeptForever == \A i, j \in DOMAIN dirs :
  dirs[i].written /\ dirs[j].written /\ dirs[i].place = dirs[j].place => i = j

(* Violated.  room-tails.mjs:160-162: a fork is tailed "so its speech      *)
(* relays back through this same seat"; a being whose own seat did not     *)
(* record the command has no tail there, and each seat relays its own.     *)
ForkIsTailed == \A t \in walks : dirs[t[2]].place # Stream => t[2] \in tailed[t[1]]
=============================================================================
