------------------------------ MODULE RoomTurns ------------------------------
(***************************************************************************)
(* One house process and the turns it holds open: `rec.seats` and          *)
(* `rec.turns` of every room, the grace window of a lost seat, the held    *)
(* final segment of a turn, its tool calls, the record's turn frames, the  *)
(* promise each turn resolves, and the self-reactivation of !autotrigger.  *)
(*                                                                         *)
(* Every handler of the house runs to completion on one thread, so each is *)
(* one action; what a handler awaits (a tool), and what it leaves to a     *)
(* timer (the grace window, a reactivation), completes in an action of its *)
(* own.  Messages from a being are arbitrary here: any turn id ever        *)
(* issued, in any order, any number of times, which takes in whatever a    *)
(* walker sends over connections that break.                               *)
(***************************************************************************)
EXTENDS Naturals, Sequences, FiniteSets

CONSTANTS
  Rooms,       \* the open rooms; every being below is on every roster
  Beings,
  Segments,    \* texts of a turn's `final` events
  Blank,       \* the whitespace-only ones
  NoSegment,   \* nothing held in turn.pendingFinal
  Grace,       \* HOUSE_SEAT_GRACE_MS, in ticks of `now`
  IdleCap,     \* autotrigger.max_speech_only
  MaxTurns, MaxFrames, MaxNow, MaxCrashes   \* bounds of the instance

ASSUME RoomTurnsAssumption ==
  /\ Rooms # {} /\ Beings # {}
  /\ Blank \subseteq Segments
  /\ NoSegment \notin Segments
  /\ Grace \in Nat \ {0} /\ IdleCap \in Nat \ {0}
  /\ MaxTurns \in Nat /\ MaxFrames \in Nat /\ MaxNow \in Nat \ {0}
  /\ MaxCrashes \in Nat

VARIABLES
  process,     \* "up", or how it ended: "killed", or an uncaught throw
  seats,       \* rec.seats: the beings seated; one entry for all rooms, since
               \* every roster names every being
  turns,       \* rec.turns: the being's open turn in the room, id 0 = none
  outcome,     \* what each turn's promise resolved to
  issued,      \* turn ids handed out
  graceTimers, \* armed timers of handleSeatExit
  running,     \* tool calls handleToolExec is awaiting
  record,      \* the turn frames of frames.jsonl, per room
  armed, idle, \* autotrigger.on, autotrigger.idle_cycles
  wakes,       \* armed reactivation timers
  now,         \* the clock; starts at 1, as Date.now() is never 0
  crashes

house == <<seats, turns, outcome, issued, graceTimers, running, armed, idle, wakes>>
vars == <<process, house, record, now, crashes>>

TurnIds == 1 .. MaxTurns

Turn == [id : 0 .. MaxTurns, pending : Segments \cup {NoSegment},
         lost : 0 .. MaxNow, spoke : BOOLEAN, asked : BOOLEAN]

NewTurn(t) == [id |-> t, pending |-> NoSegment, lost |-> 0,
               spoke |-> FALSE, asked |-> FALSE]

NoTurn == NewTurn(0)

FrameTypes == {"interim", "final", "reach", "result", "aborted", "notice", "message"}

(* `turn` is not in the file (a frame names its being): it is the history  *)
(* by which the properties below tell one turn's frames from another's.    *)
(* `of` stands for the callId: the place in the record of the reach a tool *)
(* call wrote, carried by that frame and by its result; 0 on every other.  *)
Frame == [type : FrameTypes, by : Beings, turn : 0 .. MaxTurns,
          what : Segments \cup {NoSegment}, of : Nat]

Outcomes == {"unborn", "open", "done", "error", "aborted", "gone"}

Open(r, b) == turns[r][b].id # 0
Holds(r, b, t) == t # 0 /\ turns[r][b].id = t
Seated(b) == b \in seats

FrameOf(type, b, t, what, of) ==
  [type |-> type, by |-> b, turn |-> t, what |-> what, of |-> of]
Plain(type, b, t) == FrameOf(type, b, t, NoSegment, 0)

(* What flushPendingFinal writes, and the turn it leaves.                  *)
Flushed(b, turn, type) ==
  IF turn.pending = NoSegment THEN <<>>
  ELSE << FrameOf(type, b, turn.id, turn.pending, 0) >>

AfterFlush(turn) ==
  [turn EXCEPT !.pending = NoSegment,
               !.spoke = @ \/ turn.pending \in Segments \ Blank]

AfterAsk(turn, asks) ==
  [AfterFlush(turn) EXCEPT !.asked = turn.asked \/ asks]

(* Mutation of Abandoned: the held segment is salvaged as a last word.     *)
SalvagedThenAbandoned(r, b) ==
  Flushed(b, turns[r][b], "final") \o << Plain("aborted", b, turns[r][b].id) >>

(* closeTurn with kind "error" or "aborted": the held segment is dropped,  *)
(* never spoken; `more` is what the caller writes after the aborted frame. *)
Abandoned(r, b) == << Plain("aborted", b, turns[r][b].id) >>

CloseTurn(r, b, kind, more) ==
  /\ turns' = [turns EXCEPT ![r][b] = NoTurn]
  /\ outcome' = [outcome EXCEPT ![turns[r][b].id] = kind]
  /\ record' = [record EXCEPT ![r] = @ \o Abandoned(r, b) \o more]

(* decideAutotriggerReactivation, for a room where autotrigger is armed.   *)
Decide(prior, asked, spoke) ==
  LET cycles == IF ~asked \/ spoke THEN 0 ELSE prior + 1
  IN  [cycles |-> cycles,
       ejected |-> asked /\ cycles >= IdleCap,
       reactivate |-> asked /\ cycles < IdleCap]

-----------------------------------------------------------------------------
Init ==
  /\ process = "up"
  /\ seats = {}
  /\ turns = [r \in Rooms |-> [b \in Beings |-> NoTurn]]
  /\ outcome = [t \in TurnIds |-> "unborn"]
  /\ issued = 0
  /\ graceTimers = {} /\ running = {} /\ wakes = {}
  /\ record = [r \in Rooms |-> <<>>]
  /\ armed = [r \in Rooms |-> FALSE]
  /\ idle = [r \in Rooms |-> 0]
  /\ now = 1 /\ crashes = 0

MayRecord(r) == Len(record[r]) < MaxFrames    \* bound: what may still be recorded

(* Mutation of MayBegin: a turn in flight does not stop another.           *)
BeginsAnyway(r, b) == Seated(b)

(* beginTurn refuses (throws) without a seat or with a turn in flight.     *)
MayBegin(r, b) == Seated(b) /\ ~Open(r, b)

BeginTurn(r, b) ==
  /\ MayBegin(r, b)
  /\ issued < MaxTurns /\ MayRecord(r)
  /\ issued' = issued + 1
  /\ turns' = [turns EXCEPT ![r][b] = NewTurn(issued + 1)]
  /\ outcome' = [outcome EXCEPT ![issued + 1] = "open"]
  /\ UNCHANGED <<process, seats, graceTimers, running, record, armed, idle, wakes,
                 now, crashes>>

(* A throw between marking the turn in flight and sending turn.begin: the  *)
(* handler closes the turn it has just opened.                             *)
BeginTurnFails(r, b) ==
  /\ MayBegin(r, b)
  /\ issued < MaxTurns /\ MayRecord(r)
  /\ issued' = issued + 1
  /\ outcome' = [outcome EXCEPT ![issued + 1] = "error"]
  /\ record' = [record EXCEPT ![r] = Append(@, Plain("aborted", b, issued + 1))]
  /\ UNCHANGED <<process, seats, turns, graceTimers, running, armed, idle, wakes,
                 now, crashes>>

-----------------------------------------------------------------------------
(* Mutation of Hears: the turn a message names is not looked at.           *)
HearsAnyTurn(r, b, t) == Seated(b) /\ Open(r, b)

(* handleSeatMessage: only what names the being's open turn is acted on.   *)
Hears(r, b, t) == Seated(b) /\ Holds(r, b, t)

FoldFinal(r, b, t, text) ==
  /\ Hears(r, b, t) /\ MayRecord(r)
  /\ record' = [record EXCEPT ![r] = @ \o Flushed(b, turns[r][b], "interim")]
  /\ turns' = [turns EXCEPT ![r][b] = [AfterFlush(@) EXCEPT !.pending = text]]
  /\ UNCHANGED <<process, seats, outcome, issued, graceTimers, running, armed, idle,
                 wakes, now, crashes>>

FoldReach(r, b, t) ==
  /\ Hears(r, b, t) /\ MayRecord(r)
  /\ record' = [record EXCEPT ![r] =
       @ \o Flushed(b, turns[r][b], "interim") \o << Plain("reach", b, t) >>]
  /\ turns' = [turns EXCEPT ![r][b] = AfterFlush(@)]
  /\ UNCHANGED <<process, seats, outcome, issued, graceTimers, running, armed, idle,
                 wakes, now, crashes>>

(* Where the reach frame of the turn's next tool call will stand.          *)
NextReach(r, b) == Len(record[r]) + Len(Flushed(b, turns[r][b], "interim")) + 1

(* A tool the house awaits.                                                *)
ToolExec(r, b, t) ==
  /\ Hears(r, b, t) /\ MayRecord(r)
  /\ LET at == NextReach(r, b)
     IN  /\ record' = [record EXCEPT ![r] =
              @ \o Flushed(b, turns[r][b], "interim")
                \o << FrameOf("reach", b, t, NoSegment, at) >>]
         /\ running' = running \cup
              {[room |-> r, being |-> b, turn |-> t, reach |-> at]}
  /\ turns' = [turns EXCEPT ![r][b] = AfterFlush(@)]
  /\ UNCHANGED <<process, seats, outcome, issued, graceTimers, armed, idle, wakes, now,
                 crashes>>

(* A call answered within the handler: continue_substream (asks), a tool   *)
(* the being ran itself, a tool not offered here.                          *)
ToolExecAtOnce(r, b, t, asks) ==
  /\ Hears(r, b, t) /\ MayRecord(r)
  /\ LET at == NextReach(r, b)
     IN  record' = [record EXCEPT ![r] =
           @ \o Flushed(b, turns[r][b], "interim")
             \o << FrameOf("reach", b, t, NoSegment, at),
                   FrameOf("result", b, t, NoSegment, at) >>]
  /\ turns' = [turns EXCEPT ![r][b] = AfterAsk(@, asks)]
  /\ UNCHANGED <<process, seats, outcome, issued, graceTimers, running, armed, idle,
                 wakes, now, crashes>>

(* Mutation of ResultOf: an answer that comes after its turn is dropped.   *)
ResultOfOpenTurn(x) ==
  IF Holds(x.room, x.being, x.turn)
  THEN << FrameOf("result", x.being, x.turn, NoSegment, x.reach) >>
  ELSE <<>>

(* The awaited tool returns, whatever has become of its turn meanwhile.    *)
ResultOf(x) == << FrameOf("result", x.being, x.turn, NoSegment, x.reach) >>

ToolReturns(x) ==
  /\ x \in running
  /\ running' = running \ {x}
  /\ record' = [record EXCEPT ![x.room] = @ \o ResultOf(x)]
  /\ UNCHANGED <<process, seats, turns, outcome, issued, graceTimers, armed, idle,
                 wakes, now, crashes>>

(* closeTurn "done": the held segment is the turn's last word, then        *)
(* applyAutotriggerOnTurnClose.                                            *)
TurnDone(r, b, t) ==
  /\ Hears(r, b, t)
  /\ LET turn == turns[r][b]
         next == Decide(idle[r], turn.asked, AfterFlush(turn).spoke)
         said == Flushed(b, turn, "final")
     IN  /\ idle' = IF armed[r] THEN [idle EXCEPT ![r] = next.cycles] ELSE idle
         /\ wakes' = IF armed[r] /\ next.reactivate
                     THEN wakes \cup {[room |-> r, being |-> b, turn |-> t]} ELSE wakes
         /\ record' = [record EXCEPT ![r] =
              IF armed[r] /\ next.ejected
              THEN @ \o said \o << Plain("message", b, t) >> ELSE @ \o said]
  /\ turns' = [turns EXCEPT ![r][b] = NoTurn]
  /\ outcome' = [outcome EXCEPT ![t] = "done"]
  /\ UNCHANGED <<process, seats, issued, graceTimers, running, armed, now, crashes>>

TurnError(r, b, t) ==
  /\ Hears(r, b, t)
  /\ CloseTurn(r, b, "error", <<>>)
  /\ UNCHANGED <<process, seats, issued, graceTimers, running, armed, idle, wakes, now,
                 crashes>>

-----------------------------------------------------------------------------
(* !stop and !steer.                                                       *)
ApplyInterrupt(r, b) ==
  /\ Open(r, b)
  /\ CloseTurn(r, b, "aborted", << Plain("notice", b, turns[r][b].id) >>)
  /\ UNCHANGED <<process, seats, issued, graceTimers, running, armed, idle, wakes, now,
                 crashes>>

ApplySteer(r, b) ==
  /\ Seated(b) /\ Open(r, b) /\ MayRecord(r)
  /\ record' = [record EXCEPT ![r] = Append(@, Plain("message", b, turns[r][b].id))]
  /\ UNCHANGED <<process, house, now, crashes>>

-----------------------------------------------------------------------------
(* Mutation of TimersFor: a turn that has a timer is not given another.    *)
FirstTimersFor(b) ==
  {[room |-> r, being |-> b, turn |-> turns[r][b].id, due |-> now + Grace] :
     r \in {s \in Rooms : Open(s, b) /\ ~\E g \in graceTimers : g.turn = turns[s][b].id}}

(* The grace timers handleSeatExit arms, one for each turn it leaves.      *)
TimersFor(b) ==
  {[room |-> r, being |-> b, turn |-> turns[r][b].id, due |-> now + Grace] :
     r \in {s \in Rooms : Open(s, b)}}

(* Mutation of SeatsLeftBy: a room's one seat is dropped, whoever's it is. *)
NoSeatsLeftBy(b) == {}

(* The seats that stay when a being's connection closes.                   *)
SeatsLeftBy(b) == seats \ {b}

(* The being's connection closes, and the being's next one is seated.      *)
HandleSeatExit(b) ==
  /\ Seated(b)
  /\ now + Grace <= MaxNow
  /\ seats' = SeatsLeftBy(b)
  /\ turns' = [r \in Rooms |-> [turns[r] EXCEPT ![b].lost = IF Open(r, b) THEN now ELSE 0]]
  /\ graceTimers' = graceTimers \cup TimersFor(b)
  /\ UNCHANGED <<process, outcome, issued, running, record, armed, idle, wakes, now,
                 crashes>>

HandleSeatReturn(b) ==
  /\ ~Seated(b)
  /\ seats' = seats \cup {b}
  /\ turns' = [r \in Rooms |-> [turns[r] EXCEPT ![b].lost = 0]]
  /\ UNCHANGED <<process, outcome, issued, graceTimers, running, record, armed, idle, wakes,
                 now, crashes>>

(* Mutation of StillWaiting: the mark of a lost seat is not looked at.     *)
StillOpen(g) == Holds(g.room, g.being, g.turn)

(* Mutation of StillWaiting: the window must be exceeded when it ends.     *)
WaitingLonger(g) ==
  /\ Holds(g.room, g.being, g.turn)
  /\ turns[g.room][g.being].lost # 0
  /\ now > turns[g.room][g.being].lost + Grace

(* A grace timer goes off, at its time or later: it closes the turn it was *)
(* armed for if that turn is still open and still waiting.  No return of   *)
(* the seat clears it.                                                     *)
StillWaiting(g) ==
  Holds(g.room, g.being, g.turn) /\ turns[g.room][g.being].lost # 0

GraceExpires(g) ==
  /\ g \in graceTimers /\ g.due <= now
  /\ graceTimers' = graceTimers \ {g}
  /\ IF StillWaiting(g)
     THEN CloseTurn(g.room, g.being, "aborted", <<>>)
     ELSE UNCHANGED <<turns, outcome, record>>
  /\ UNCHANGED <<process, seats, issued, running, armed, idle, wakes, now, crashes>>

-----------------------------------------------------------------------------
(* !autotrigger on / off.                                                  *)
Autotrigger(r, on) ==
  /\ armed' = [armed EXCEPT ![r] = on]
  /\ idle' = IF on THEN [idle EXCEPT ![r] = 0] ELSE idle
  /\ UNCHANGED <<process, seats, turns, outcome, issued, graceTimers, running, record,
                 wakes, now, crashes>>

(* The process dies: all but the record goes with it.                      *)
ProcessExit(how) ==
  /\ crashes < MaxCrashes
  /\ crashes' = crashes + 1
  /\ process' = how
  /\ seats' = {}
  /\ turns' = [r \in Rooms |-> [b \in Beings |-> NoTurn]]
  /\ outcome' = [t \in TurnIds |-> IF outcome[t] = "open" THEN "gone" ELSE outcome[t]]
  /\ graceTimers' = {} /\ running' = {} /\ wakes' = {}
  /\ armed' = [r \in Rooms |-> FALSE]
  /\ idle' = [r \in Rooms |-> 0]
  /\ UNCHANGED <<issued, record, now>>

(* A reactivation timer goes off.  Where autotrigger has been turned off   *)
(* it does nothing; otherwise it calls beginTurn, which throws when the    *)
(* seat has gone or a turn is in flight, and nothing in the timer's        *)
(* callback catches it.                                                    *)
ReactivateIdle(w) ==
  /\ w \in wakes /\ ~armed[w.room]
  /\ wakes' = wakes \ {w}
  /\ UNCHANGED <<process, seats, turns, outcome, issued, graceTimers, running, record,
                 armed, idle, now, crashes>>

Reactivate(w) ==
  /\ w \in wakes /\ armed[w.room]
  /\ MayBegin(w.room, w.being)
  /\ issued < MaxTurns
  /\ wakes' = wakes \ {w}
  /\ issued' = issued + 1
  /\ turns' = [turns EXCEPT ![w.room][w.being] = NewTurn(issued + 1)]
  /\ outcome' = [outcome EXCEPT ![issued + 1] = "open"]
  /\ UNCHANGED <<process, seats, graceTimers, running, record, armed, idle, now, crashes>>

ReactivateThrows(w) ==
  /\ w \in wakes /\ armed[w.room]
  /\ ~MayBegin(w.room, w.being)
  /\ ProcessExit("threw")

Restart ==
  /\ process # "up"
  /\ process' = "up"
  /\ UNCHANGED <<house, record, now, crashes>>

Tick ==
  /\ now < MaxNow
  /\ now' = now + 1
  /\ UNCHANGED <<process, house, record, crashes>>

-----------------------------------------------------------------------------
FromBeing(r, b, t) ==
  \/ \E text \in Segments : FoldFinal(r, b, t, text)
  \/ FoldReach(r, b, t)
  \/ ToolExec(r, b, t)
  \/ \E asks \in BOOLEAN : ToolExecAtOnce(r, b, t, asks)
  \/ TurnDone(r, b, t)
  \/ TurnError(r, b, t)

FromHouse(r, b) ==
  \/ BeginTurn(r, b)
  \/ BeginTurnFails(r, b)
  \/ ApplyInterrupt(r, b)
  \/ ApplySteer(r, b)

Timer ==
  \/ \E g \in graceTimers : GraceExpires(g)
  \/ \E w \in wakes : ReactivateIdle(w) \/ Reactivate(w) \/ ReactivateThrows(w)

Running ==
  \/ \E r \in Rooms, b \in Beings : FromHouse(r, b)
  \/ \E r \in Rooms, b \in Beings, t \in TurnIds : FromBeing(r, b, t)
  \/ \E b \in Beings : HandleSeatExit(b) \/ HandleSeatReturn(b)
  \/ \E x \in running : ToolReturns(x)
  \/ \E r \in Rooms, on \in BOOLEAN : Autotrigger(r, on)
  \/ Timer
  \/ ProcessExit("killed")

Up == process = "up"

Next == (Up /\ Running) \/ Restart \/ Tick

Spec == Init /\ [][Next]_vars

(* setTimeout fires and time passes; nothing is asked of beings or people. *)
FairSpec == Spec /\ WF_vars(Tick) /\ WF_vars(Up /\ \E g \in graceTimers : GraceExpires(g))

-----------------------------------------------------------------------------
TypeOK ==
  /\ process \in {"up", "killed", "threw"}
  /\ seats \subseteq Beings
  /\ turns \in [Rooms -> [Beings -> Turn]]
  /\ outcome \in [TurnIds -> Outcomes]
  /\ issued \in 0 .. MaxTurns
  /\ graceTimers \subseteq [room : Rooms, being : Beings, turn : TurnIds, due : Nat]
  /\ running \subseteq [room : Rooms, being : Beings, turn : TurnIds, reach : Nat]
  /\ record \in [Rooms -> Seq(Frame)]
  /\ armed \in [Rooms -> BOOLEAN]
  /\ idle \in [Rooms -> Nat]
  /\ wakes \subseteq [room : Rooms, being : Beings, turn : TurnIds]
  /\ now \in 1 .. MaxNow
  /\ crashes \in Nat

(* A turn's promise is unresolved exactly while some room holds the turn   *)
(* in flight for one being, and no turn is in flight twice: nobody waits   *)
(* on a turn that is gone, and none resolves under a being still in it.    *)
(* (beginTurn's try, closeTurn's `rec.turns.get(being) !== turn`.)         *)
PromisesMatchTurns ==
  /\ \A t \in TurnIds :
       outcome[t] = "open" <=> \E r \in Rooms, b \in Beings : Holds(r, b, t)
  /\ \A r1, r2 \in Rooms, b1, b2 \in Beings :
       Open(r1, b1) /\ turns[r1][b1].id = turns[r2][b2].id => r1 = r2 /\ b1 = b2

(* A turn in flight whose being has no seat has a grace timer armed for it *)
(* that is due within the window of its present loss: it cannot be left    *)
(* open for good.  (handleSeatExit against handleSeatReturn, which clears  *)
(* the mark but no timer.)                                                 *)
WaitingTurnHasTimer ==
  \A r \in Rooms, b \in Beings :
    Open(r, b) =>
      /\ turns[r][b].lost # 0 <=> ~Seated(b)
      /\ ~Seated(b) =>
           \E g \in graceTimers :
             /\ g.room = r /\ g.being = b /\ g.turn = turns[r][b].id
             /\ g.due = turns[r][b].lost + Grace

Ending == {"final", "aborted"}
Speaking == {"interim", "final", "reach", "aborted"}

(* The record agrees with the promise: a final speech only of a turn that  *)
(* resolved "done", an aborted frame exactly when it resolved otherwise,   *)
(* and after either of them that turn writes no speech, no reach and no    *)
(* second ending, whatever arrives late.  (closeTurn, handleSeatMessage.)  *)
RecordMatchesOutcome ==
  \A r \in Rooms : \A i \in 1 .. Len(record[r]) :
    LET f == record[r][i]
    IN  /\ f.type = "final" => outcome[f.turn] = "done"
        /\ f.type = "aborted" => outcome[f.turn] \in {"error", "aborted"}
        /\ f.type \in Ending =>
             \A j \in i + 1 .. Len(record[r]) :
               record[r][j].turn = f.turn => record[r][j].type \notin Speaking

(* Every tool call the house framed is awaited or answered, never both,    *)
(* and never answered twice, for as long as the process lives; the answer  *)
(* stands after its reach.  (handleToolExec, whose result is written even  *)
(* when its turn has closed meanwhile.)                                    *)
Answered(r, i) == {j \in 1 .. Len(record[r]) :
                     record[r][j].type = "result" /\ record[r][j].of = i}
Awaited(r, i) == {x \in running : x.room = r /\ x.reach = i}

CallsAnsweredOnce ==
  \A r \in Rooms : \A i \in 1 .. Len(record[r]) :
    record[r][i].type = "reach" /\ record[r][i].of # 0 =>
      /\ Cardinality(Answered(r, i)) + Cardinality(Awaited(r, i)) <= 1
      /\ crashes = 0 => Answered(r, i) # {} \/ Awaited(r, i) # {}
      /\ \A j \in Answered(r, i) : j > i

(* The record and the promises implement TurnLife: read by turn, the       *)
(* frames of a turn are those of one open turn of one being, in order, and *)
(* its ending is the last of them.  (beginTurn, flushPendingFinal,         *)
(* closeTurn, handleSeatMessage, taken together.)                          *)
Spoken(r, t) ==
  SelectSeq(record[r], LAMBDA f : f.turn = t /\ f.type \in Speaking)

Said(t) ==
  LET rooms == {r \in Rooms : Spoken(r, t) # <<>>}
      frames == IF rooms = {} THEN <<>> ELSE Spoken(CHOOSE r \in rooms : TRUE, t)
  IN  [i \in 1 .. Len(frames) |-> frames[i].type]

HolderOf(t) ==
  LET holders == {h \in Rooms \X Beings : Holds(h[1], h[2], t)}
  IN  IF holders = {} THEN <<>> ELSE CHOOSE h \in holders : TRUE

Life == INSTANCE TurnLife WITH
          Turns <- TurnIds, Holders <- Rooms \X Beings, NoOne <- <<>>, state <- outcome,
          holder <- [t \in TurnIds |-> HolderOf(t)], said <- [t \in TurnIds |-> Said(t)]

TurnsHaveOneLife == Life!Spec

(* One being's step leaves every other being's turns and seat alone, in    *)
(* every room (room-seats.mjs's rule for several beings in a room).        *)
Disturbed == {b \in Beings : Seated(b) # Seated(b)'
                              \/ \E r \in Rooms : turns[r][b] # turns'[r][b]}
OthersUntouched == [][Up' => Cardinality(Disturbed) <= 1]_vars

(* While its being is seated, a turn is aborted only by !stop: a seat that *)
(* came back keeps its turn whatever timers its absences left armed.       *)
Last(s) == s[Len(s)]
SeatedTurnNotAborted ==
  [][\A r \in Rooms, b \in Beings :
       Open(r, b) /\ Seated(b) /\ outcome'[turns[r][b].id] = "aborted"
         => Last(record'[r]).type = "notice"]_vars

(* A turn whose seat is lost does not stay so: the seat comes back, or the *)
(* turn is closed.                                                         *)
LostSeatSettles ==
  \A r \in Rooms, b \in Beings, t \in TurnIds :
    (Holds(r, b, t) /\ ~Seated(b)) ~> (~Holds(r, b, t) \/ Seated(b))

(* autotrigger.mjs:87: "`reactivate` begins the being's next turn": what   *)
(* a reactivation timer starts is a turn, never the end of the house.      *)
ReactivationBeginsATurn == process # "threw"
=============================================================================
