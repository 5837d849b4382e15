# Connectome: a verification project

Models, model-checking runs and machine-checked proofs of the program in
`src/`: a *house* that keeps rooms and their records, and the *beings* that
speak in them from processes of their own. Sections 1 and 2 are the inventory
of the system and the plan; 3 says what each module models, 4 what each run
shows, 5 what is proved and how, 6 where the code does something else than
its own words say, 7 what is left out.

Paths such as `room-turn.mjs` are under `src/connectome-house/src/` unless
another package is named.

## 1. The system

### 1.1 Processes

- **The house** (`connectome-house`, `serve*.mjs`): one node process, one
  thread. It owns every room's directory and is the only writer of its record,
  `frames.jsonl`. People and platforms reach it over HTTP and through MCPL
  servers; beings over a socket.
- **A walker** (`walker.mjs`, `walk-*.mjs`), one process per being: it connects
  to the house with `connectome-seat-client`, is sent `turn.begin`s, runs the
  model, and sends back `turn.event`s, `tool.exec`s and a `turn.done` or
  `turn.error`.
- **Platform servers** (`mcpl-signal`, `mcpl-web`, a patched Discord one):
  child processes of the house (`mcpl/host.mjs`, `mcpl/child.mjs`) or of a
  walker (`platform-runner.mjs`, with `mcpl/remote-host.mjs` at the house).
- **The life job** (`life-job.mjs`), one at a time per being, that appends rooms
  to the being's store and compiles it.
- Beside them the web board, the render bridge with its remote worker, and the
  importers of an older system's history.

### 1.2 Components, their state and what must hold of them

| component | state | operations | what makes it correct | modules |
|---|---|---|---|---|
| a being's turns in a room (`room-turn*.mjs`, `room-seats.mjs`, `autotrigger.mjs`) | `rec.turns`, `rec.seats`, each turn's held segment and `seatLostAt`, grace timers, tool calls awaited, reactivation timers | `beginTurn`, `handleSeatMessage` (event, tool, done, error), `!stop`, `!steer`, seat exit and return | a turn has one life and resolves once; what arrives late touches nothing; a lost seat cannot leave a turn open; beings do not disturb one another | `RoomTurns`, `TurnLife` |
| the record (`frames-io.mjs`, `trace.mjs`, `room-turn.mjs`) | `frames.jsonl`, `rec._turnSeq` | house frames, turn frames, rests, joins, resync | one writer's numbers never meet the other's, restarts included; readers that come back by number miss nothing | `RecordSeq` |
| a being's seat (`seat/socket-seat.mjs`, `open-rooms.mjs`, `connectome-seat-protocol`, `connectome-seat-client`) | `seatsByBeing`, rooms' `seats`, resume rings; the client's outbox, `_holding`, `lastSeqSeen` | connect, handshake, refuse, replay, exit, reconnect | one live seat per being; order kept over reconnects; nothing skipped | `SeatLink` |
| a walker's turns (`walker.mjs`, `walk-turn.mjs`, `walk-frame.mjs`) | `queue`, `cancels`, pending tool calls, seen turns | begin, interrupt, tool results, watchdog, deadline | the cap; a stopped turn stops and no other does; slots come free | `WalkerTurns` |
| the table of walkers (`serve-walks.mjs`) | a row per being: process, restarts, stop | launch, dial, exit, restart, stop, shutdown | one process per being; a stop is not undone; the restarts are bounded | `Walkers` |
| parked messages (`mcpl/park.mjs`, `mcpl/seat.mjs`, `mcpl/room-tails.mjs`) | a queue per stream, the seat's promise chain | park, drain on a timer | an accepted message is applied, once, in order | `Park` |
| opening and forking of rooms (`serve-rooms.mjs`, `open-rooms.mjs`, `room-fork.mjs`, `turnRecFor`) | `open`, `lifecycleBusy`, the room index, `stream.forks` | open, mint, merge beings, rest, fork, enter, leave | one room per stream; a busy lock loses nobody's request; a turn's messages reach the room it was begun in | `Rooms` |
| input and dispatch (`serve-rooms.mjs`, `dispatch.mjs`, `room-chain.mjs`, `mentions.mjs`) | seen message ids, chains, caps, hushes | `roomInput` | a message is recorded once; who is activated; a loop of bots ends | `Dispatch` |
| outbound speech (`mcpl/speak.mjs`, `pending-outbound.mjs`, `redeliver.mjs`, `relay.mjs`, `outbound*.mjs`) | rows of pending sends, `external.jsonl`, relay claims | speak, match an echo, redeliver, claim | said once on the platform, in its own voice, never taken for someone else's line | `PlatformRoom` |
| edits, deletions, hides, the message index, the purge (`message-index.mjs`, `retention.mjs`) | the index, marks, scans | forward, find, scan, purge | what is taken back is not shown; a keeper removes what the scan showed and no more | `Words` |
| media (`blob-root.mjs`, `media-*.mjs`, `mcpl/media-in.mjs`) | the store of files, the rooms of each, marks | attach, view, post back | what is shown is kept; each file posted by its own; what is passed is recorded | `Media` |
| remote platform host (`mcpl/remote-host.mjs`, `platform-runner.mjs`) | parked calls, open calls by id, `state` | call, detach, reattach, retry, result | a call is settled, and carried out once but for the one retry | `RemoteHost` |
| child processes (`mcpl/host.mjs`, `child.mjs`, `link.mjs`) | state, backoff, calls | spawn, exit, restart, stop | no call hangs on a dead child; a stop is final | `ChildHost` |
| lives (`life-*.mjs`, `resident-life.mjs`) | a life's entries, partitions, jobs | catch up, compile, hydrate, fit | a job's outcome is of the record it read; what was private stays among those present; a turn is given what fits | `Lives`, `Memory` |
| wakings (`wakings.mjs`, `alarm-store.mjs`) | alarms, history | set, seed, tick | one waking a tick, in a lull, never sooner than its gap | `Wakings` |
| commands (`commands/`, `context-settings.mjs`) | settings, caps, hushes | a `!` line through every seat | a line acts once; a turn goes by what was set last | `Commands` |
| identity and links (`identity-map.mjs`, `link-codes.mjs`, `mcpl/link.mjs`) | the map, the codes | gate, mint, redeem, unlink | an account belongs to the owner who proved it | `Links` |
| records, notes (`record-tools.mjs`, `user-notes.mjs`, `self-notes`) | kept records, a note with its history | page, search, write, restore | a page repeats nothing unread; a note's switch is a person's | `Records`, `Notes` |
| a being's shell and MCP servers (`walker-local-tools.mjs`, `tools/mcp-tools.mjs`) | sessions | run, write, kill, prune; call, reconnect | the limit; a call is done once | `ToolSessions`, `McpServers` |
| the Signal server (`mcpl-signal`) | socket, privacy file, groups | envelopes, channels, send | an envelope is handed on once, if the keeper's file lets it | `Signal`, `SignalText` |
| the web board and a seat on it (`web-board`, `mcpl-web`) | posts, marks, rooms; a connection's grants | post, react, flag, hide, page; forward, decide | what is hidden is not shown; pages skip nothing; what is forwarded is granted | `Board`, `BoardSeat` |
| the render bridge (`inkfield-bridge`) | lanes, breaker, cache; a worker's queue | render, probe, drain; compose | shared, not rendered twice; what is composed can be played | `RenderBridge`, `Score`, `DreamWorker` |
| the importer (`connectome-history-import`) | an archive, rooms, marks | sweep, slice, stamp | history comes in once, in order, beside what is lived | `Import` |

### 1.3 How they interact

A line from a platform is accepted by its seat, applied on the seat's promise
chain (or parked), recorded by `roomInput`, and begins turns. `beginTurn` sends
`turn.begin` over the being's one socket; the walker runs or queues it. Each
`tool.exec` comes back to the house, which awaits the tool and answers. Speech
frames are written to the record and picked up from its tail by the platform
seats. Every handler of the house runs to completion on one thread; what
interleaves is what it awaits, its timers, and what other processes send.

### 1.4 What is hard in it

Sockets that break with messages in flight; a seat that is captured before an
`await` and used after; timers that outlive what they were armed for; one room
key under which two turns are found; numbers compared that were counted by
different counters; arrays replaced while another function holds the old one;
files read, thought about and written whole by two processes; a restart of
either process while the other goes on. `PROJECT.json` lists each under
`hazards`, at the line where it bites, with the properties that would catch it.

## 2. The plan

The inventory has a module for everything in it that keeps state. Proved are the modules
that say most about the house and those whose safety rests on several actors:
`RoomTurns`, `RecordSeq`, `SeatLink`, `WalkerTurns`, `PlatformRoom`, `RemoteHost`,
`Park`, `Wakings`, `Rooms`, `Walkers`, `ToolSessions`, `ChildHost`, `Dispatch`,
`Lives`, `Signal`, `RenderBridge`, `McpServers`, `DreamWorker`, `Media`, `Links`,
`Commands` and `Notes`. What is left, in this order:

1. `NothingSkipped` of `SeatLink` for beings of several rooms, with the gap
   that the source names as a condition of its own.
2. `Seated`: a composition of `RoomTurns`, `SeatLink` and `WalkerTurns`: a
   walker that restarts in the grace window, a lost `turn.begin`, redelivered
   turns (`createSeenTurns`), `!steer` lines; against `TurnLife` again.

The runs are few, a question each. Instances are kept to two or three of
everything, enough for two actors to meet over something each of them uses twice.

## 3. The modules

### RoomTurns

One house process, its rooms and beings. Each handler is one action, since the
house is single-threaded; what a handler awaits or leaves to a timer completes
in an action of its own (`ToolReturns`, `GraceExpires`, `Reactivate`).

| in the model | in the code |
|---|---|
| `seats`, `turns`, `graceTimers` | `rec.seats`, `rec.turns` with `pendingFinal` and `seatLostAt`, the `setTimeout`s of `handleSeatExit` |
| `running` | tool calls `handleToolExec` is awaiting |
| `record` | the turn frames of `frames.jsonl`; `turn` and `of` of a frame are history (see the module) |
| `outcome` | what each turn's promise resolved to |
| `armed`, `idle`, `wakes` | `autotrigger.on`, `autotrigger.idle_cycles`, reactivation timers |
| `BeginTurn`, `BeginTurnFails` | `beginTurn`, and its `catch` |
| `FoldFinal`, `FoldReach` | `foldTurnEvent` with `flushPendingFinal` |
| `ToolExec`, `ToolExecAtOnce`, `ToolReturns` | `handleToolExec` up to its await, without one, after it |
| `TurnDone`, `TurnError`, `ApplyInterrupt`, `ApplySteer` | `closeTurn` from each of its callers, `!stop`, `!steer` |
| `HandleSeatExit`, `HandleSeatReturn`, `GraceExpires` | the same names, and the timer |
| `ReactivateIdle`, `Reactivate`, `ReactivateThrows` | the timer of `scheduleReactivation`: disarmed, beginning a turn, throwing |
| `ProcessExit`, `Restart` | the process dies, by a signal or an uncaught throw, and starts again |

A being's messages are arbitrary: any turn id ever issued, at any time, any
number of times. That is more than a walker does and contains what it does over
connections that break, so what holds here does not rest on the walker.

`TurnLife` is the abstract specification: a turn is issued once, open for one
being, and the last thing it puts on the record is its ending. That `RoomTurns`
implements it, with the record read turn by turn as the mapping, is the property
`TurnsHaveOneLife` of the run `TwoBeings`.

### RecordSeq

How `frames.jsonl` is numbered. A number is an integer and a count of halvings,
`<<n, k>>` for `n + 1 - 2^-k`; a double's end is the constant `Precision`. The
frame's length matters only against the 8192 bytes of `lastFrameInfo`'s tail.
`base` is history: how long the file was when the turns' counter was set.
`Sound(n)` says what the numbering relies on, up to frame `n`; `NumbersAscend`
says it then holds up to there. What happens without each of its parts is in
section 4, under what the properties except.

### SeatLink

One being, its client and the house's server, over connections that break
(`Slots`, reused). A broken connection loses the unread rest when either end
sees the close, which each does at a time of its own. `HandshakeRoom` is the
room the handshake names: a room with `--room`, the being's own handle without.
The variable `was` is history: what the properties except, which is two seats at
once, a send through a seat that has gone (section 4) and, of a resume, the being
that was never sent anything on its first connection. `HouseSendsLate` is the
send of `handleToolExec` through a seat it took before its await.

### WalkerTurns

The walker's `queue` and `cancels`, and the house's side of the same turns,
over a seat that stays up (two FIFO channels). `Interrupts` finds the room's
cancel function, whichever turn's it is, as the code does. A turn that is
`calling` waits for its `tool.result`; cancelling its stream shows only once the
stream is read again. `Deadline` is whether the model is a local one, the only
kind given a deadline (`walk-args.mjs`, `turnDeadlineMs`). `turn.event`s are left out.

### PlatformRoom

One room that is also a channel of a platform, watched by the seats of several
beings. The record, the sidecar `external.jsonl` and the relay claims are files
and outlive the process; calls under way, pending sends and the tails' offsets do
not. A seat `Polls` the room's tail and makes calls, each of which `Lands` on the
platform and `Returns` or `Fails`, in either order; what was not sent is
redelivered when a host is up again (`HostUp`, `Redelivers`). What the platform
shows reaches each seat, which `Applies` it: an echo or a person's message. `CastAssumption` says that speakers are beings, that one of them owns
the room, and that the words of each chunk are known.

### Parts of the house

- `Park`: the queue of one stream as what it is, JavaScript arrays: `heap` holds
  every array made, `queue` the one the map holds, each drain the one it found.
- `Rooms`: `openRoom` under its named lock by several seats, the mint, the merge of the
  beings asked for, rests, restarts; forks, and turns routed to them by `turnRecFor`.
- `Dispatch`: a post is decided on as it arrives and applied later; the chain
  of bots, the lottery, the caps, the hush.
- `RemoteHost`: the stand-in at the house, the runner beside the being and its child, over one
  connection that breaks. `ChildHost`: a platform's server as the house's own child.
- `Walkers`: one being's row of `serve-walks.mjs`; a process's end and its connection's are
  two events in either order.
- `Wakings`: the alarms of one group room and the tick. `Lives`: the job that appends rooms
  to a being's store, the marker written at once and the store at its close.
  `Memory`: the store compiled to a budget, hydrated, and fitted to a turn's window.
- `Commands`: `!` lines through every seat of a room, settings in memory and in files.
- `Links`: whose an account is; two processes that read and write the same files.
- `Words`: edits, deletions, hides, the message index, the scan and the purge, and finding a
  message by its words. `Media`: the store of files and what is posted back. Both take what
  a platform shows as a log that each seat reads at its own pace.
- `Records`, `Notes`: a record paged while it goes on, the search; a note
  replaced by moving what stood and then writing.
- `ToolSessions`, `McpServers`: shell sessions of a being; the one session with a server
  of tools that is shared, lost and opened again.

### Services beside the house

`Board` and `BoardSeat` (the web board; a being's seat on it), `Signal` and `SignalText`
(a Signal account's server; its texts), `RenderBridge`, `Score` and `DreamWorker` (lanes,
breaker and cache; a performance composed and validated; the remote renderer), `Import`
(sweeps, slices and stamps beside a house that writes).

### MC modules

`MCRoomTurns` and `MCSeatLink` add the symmetry sets (beings, rooms,
connections), `MCServices` those of the beings of `RecordSeq` and the seats of `Words`; no
definition tells one of them from another. Runs with a
liveness property use none. `WalkerTurns` is numbered throughout and runs as it is.

`MCServices`, `MCUpkeep`, `MCHouse`, `MCRemote` and `MCParts` are sums: parts
that share no state, instantiated in one module with a variable `part` that
says which of them a behaviour is of; the others stay as they began. A property of a
sum says of each part what that part's module says of itself, behind
`part = "..."`. A sum has as many states as its parts have together, not the product.
`MCServices` extends `RecordSeq`, `MCUpkeep` extends `PlatformRoom` and `MCRemote`
extends `RemoteHost`, so that those modules' properties and assumptions are checked under
their own names, which are the names the proofs use.

## 4. The runs

Deadlock is checked in `TwoBeings` and `OneBeing`, where time passes; the other
instances end when their messages are used up (`CHECK_DEADLOCK FALSE`).

| run | instance | what it asks |
|---|---|---|
| `TwoBeings` | two beings, two turns, one room, a window of one tick, a crash | no step of one being touches the other, and `RoomTurns` implements `TurnLife` |
| `OneBeing` | two turns, two absences with a window of two ticks, blank segments, a crash | promises, timers, record and calls of one being's turns; under fair timers a lost seat comes back or its turn is closed |
| `Seat` | two messages each way, two breaks, a restart of the house, two connections | order, replay, the house's tables; liveness of the reconnection |
| `Walker` | cap one, three turns in two rooms, two stops, a deadline | no open turn is silenced; the cap and who can be stopped; every slot comes free |
| `Upkeep` | `PlatformRoom`, `Park`, `Wakings`, `Rooms`, `Walkers`, `ToolSessions` | messages recorded once and each in its own voice; parked ones kept in order; wakings apart; a stream's one room, a being's one walker, the shell sessions a being is told of |
| `House` | `Links`, `Import`, `Commands`, `Memory`, `Records`, `Notes` | accounts and owners; history brought in once; settings obeyed; what a turn is given |
| `Services` | `RecordSeq`, `Words`, `Board`, `BoardSeat`, `Signal`, `SignalText`, `RenderBridge`, `Score`, `McpServers` | numbers ascend and readers run on; a record that says what the platform says; what services promise |
| `Remote` | `RemoteHost`, `DreamWorker`, `Media` | no call done twice but by the one retry, every call settled; renders shared and answered; files kept, posted by their own and recorded with their message |
| `Parts` | `ChildHost`, `Dispatch`, `Lives` | a child comes back, a loop of bots ends, a stale life is caught up |

Type correctness is proved where there is a proof (section 5) and then not also a
property of a run.

Violation runs, each a claim of the repository that the code does not keep
(`PROJECT.json`, `findings`):

| run | what happens |
|---|---|
| `Reactivation` | an autotrigger timer calls `beginTurn` with no seat, or with a turn in flight, and the throw ends the house |
| `NotReplayed` | a message to a room, lost with its connection, is never replayed |
| `StopDuringCall` | `!stop` while a `tool.exec` is on its way: the walker waits for good |

### What the properties except

Where the code has a behaviour that breaks a stronger property, the property checked
excepts that behaviour and nothing else, by a condition with a name:

- `NumbersAscend`, by `Sound`: house frames in a row that use up the bits of a double
  (`frames-io.mjs:146`, some fifty of them) land on the number the next turn takes; a
  room rested while a turn is in flight (`serve-rooms.mjs:765`) gives its frame the number
  that turn takes next; after a frame longer than 8192 bytes numbers start over (`frames-io.mjs:110`).
- `NothingSkipped`, by `was.late`: a result sent through a seat that has gone
  (`socket-seat.mjs:112`) takes a number of the ring and none of the live
  connection, whose later messages carry the being's number past it. The run has
  the one room the handshake names; of a being's further rooms the source itself names
  the gap (`socket-seat.mjs:70`).
- `KeptUnlessCrossed` (Park), by `overlaps` and `pushes`: two drains of one array each shift
  a job off, one of them not applied; and of two messages parked during one drain the
  second is lost, since a push replaces the array (`park.mjs:49`).
- `SeatedTurnNotAborted` and `WaitingTurnHasTimer` say that a turn whose being
  is there is not aborted by a timer, and that one whose being is gone has a timer due
  within the window. They do not say that the window is a whole one: a timer left by an
  earlier absence is never cleared and aborts a turn early in a later one (`room-seats.mjs:147`).
- `Walker` has a cap of one, the fleet's default (`walker.mjs:28`). With a `Cap` of 2
  `SlotsAndStops` fails (`cancels.delete(room)`, `walker.mjs:268`, lets go of another turn's cancel
  function, and `cancels.size` counts rooms), and `OpenTurnsAreHeardOf` fails with a local
  model's deadline (which calls whatever cancel function its room holds by then).
- Nothing is said of a turn stopped while it is queued behind a stopped one of its room
  that is still ending: the interrupt finds the other's cancel function
  (`walker.mjs:286`), and the queued turn runs later though the house has closed it.
- `ghosts` (Links, Import, Commands, Lives: a job killed between the marker and the store), `crossed` (Walkers, Commands), `slipped` (Board),
  `twice` and `forkedOver` (Rooms) are history of the same kind, each with its cause in the
  module: two processes that wrote one file across one another, a process killed between
  two files, two `stopWalker` calls that overlap (`serve-walks.mjs:259`), a clock set back.

### Bounds

`MaxTurns`, `MaxFrames`, `MaxNow`, `MaxCrashes` (RoomTurns): two turns are what a
late timer, message or result needs to meet the wrong one; with a window of two, `MaxNow` 4
leaves room for two absences that overlap the same window. `MaxFrames` bounds when
something *may still be said*; endings are never cut off by it. `IdleCap`
stands for a room's `max_speech_only`, small. `MaxFrames`, `MaxCalls` (RecordSeq):
six frames are the first one, a run to `Precision`, and two more of any writers.
`MaxUp`, `MaxDown`, `MaxBreaks`, `MaxRestarts` (SeatLink): two breaks and a restart
give the two slots a second life, a slot being used again once both ends are done
with it. `RingCap` stands for 200 and is small so that the ring drops something.
`MaxTurns`, `MaxCalls`, `MaxStops` (WalkerTurns): a stopped turn, the next one of its
room and one elsewhere. `MaxMessages`, `MaxDrains` (Park): more messages than `Cap`, two drains.
PlatformRoom: two beings, one speech of two chunks, one line of a person's, two posts of
others' and one fault, so that a chunk may be lost, answered late or redelivered by either seat.

In the sums a constant stands for the code's own limit, made so small that it is met
(`Cap`, `MAX_RESTARTS`, `MAX_CONCURRENT`, `MAX_ATTACHMENTS`, `READ_CAP`, `Threshold`,
`DreamQueue`, `GpuQueue`, `EXCERPT`, `TAIL`), or, under a name that begins with `Max`,
bounds what comes from outside: two or three acts of people, one or two restarts, faults
or drops. Two of everything that can meet: two importers, two accounts and two owners, two
seats, two rooms, two callers of a session.

### Fairness

Only of what the programs do by themselves: the house's timers and the clock
(`RoomTurns!FairSpec`); both event loops, the sockets and the client's reconnect
timer (`SeatLink!FairSpec`; the timer is re-armed after every failed attempt and
never given up, `seat-client.mjs` `_maybeReconnect`); both event loops, a tool
that ends, a model stream that goes on or fails, and the deadline's timer
(`WalkerTurns!FairSpec`; streams end by the adapter's idle timeout or the
watchdog); the timers, the poll and the reconnection of `RemoteHost`; the restart timer,
the handshake's answer or timeout and the end of a child whose input is shut (`ChildHost`);
the turns of beings already woken, which end (`Dispatch`); the queue of jobs and the
hourly refresh (`Lives`, whose process is started again). In a sum each part keeps its own fairness, and no other is
asked of it. Never of people, of beings that speak, of breaks or of restarts.

## 5. The proofs

Eight modules, for every value of the constants that the modules' `ASSUME`s allow
(finite or not, no bound of a run among the assumptions beyond being a number).
Where a theorem needs more, it says so in its own `ASSUME`; those are `Cap = 1`,
`Cap = 1 \/ ~Deadline` and `Rooms = {HandshakeRoom}` below.

Each follows one plan: an inductive invariant that is the conjunction of the parts
named here, a lemma for each group of actions, a step for each action, and under it a step
for each part that the action can disturb.

### RoomTurnsProofs

- `TypeCorrect`: type correctness.
- `PromisesKept`: `PromisesMatchTurns` is not inductive alone: a
  new turn's id must not be known yet. The invariant proved is `Promises`:
  `TypeOK`, `PromisesMatchTurns` and `UnissuedUnborn` (an id past `issued` has
  no outcome). `TurnOpens`, `TurnCloses` and `TurnRefused` are the three ways a
  step changes turns and outcomes; every action is one of them or leaves ids alone.
- `LostTurnsHaveTimers`: `WaitingTurnHasTimer`, room by room and
  being by being, on top of `TypeOK`; the step that matters is `GraceWaits`: a timer that
  goes off either closes the turn or was not the one that the turn waits on.
- `SeatKeepsItsTurn`: the action property `SeatedTurnNotAborted`, from the same invariant:
  a timer closes only a turn marked lost, and such a turn's being has no seat.
- `RecordKeepsToOutcomes`: `RecordMatchesOutcome`, by `Agreement`: `Promises`, the
  property, and `TurnsNamed`, that frames name turns that were issued. What is over stays
  as it ended (`OverStays`), so a step has only to append frames that fit what the
  promises say after it; a turn that is open has neither a last speech nor an abortion on the record.
- `EveryCallAnsweredOnce`: `CallsAnsweredOnce`, by `CallsTracked`: room by room the calls
  framed, answered and awaited account for one another (`Tracked`), and calls that
  run are told apart by their room and reach. A result is framed for a call that is
  running and takes it out; a process that ends answers none.
- `StepsTouchOneBeing`: the action property `OthersUntouched`, from `TypeOK`. Only the loss and
  the return of a seat touch every room, and then one being's entry in each.

### ServicesProofs

Of the numbering of a room's record and of three of the services in `MCServices`.

- `TypeCorrect`, `RecordAscends` (`NumbersAscend`) and `CounterStaysFree` (`CounterIsFree`):
  together inductive, as `Numbering`: `TypeOK`, `NumbersAscend`, `CounterIsFree` and
  `base <= Len(file)`. A house frame's number lies between the last one and the next integer
  (`HouseKeepsNumbering`), a turn's comes from a counter above everything
  (`TurnKeepsNumbering`), and setting the counter puts it there (`ResyncedIsFree`).
- `ConversationRuns` (`ConversationRunsOn`): numbers that ascend are passed once, so the
  first frame past the number a life holds is the one behind its last line.
- `ServersAreSound` (`ServersSound`), assuming `ServicesAssumption`, that the limits are
  numbers. Three invariants, each inductive by itself:
  - `SignalKept`: one socket at most is live, the one in use, and none while another try is due
    (`SocketKept`); the keys held are the last `SeenCap` that were accepted, so that an envelope
    is taken again only after that many others (`SeenKept`); what is held of the privacy file is its last
    good reading, the verdict on the envelope being fetched fits the settings it was
    passed under, and whoever the host is given something of, it was told of (`AccountKept`).
  - `RenderKept`: a live job is in exactly one lane, waiting or active, and a lane keeps nobody
    waiting beside a free slot; a picture's in-flight entry is its live job; a breaker that
    is half open has a probe under way or was left so by a refused one. That no
    picture is rendered twice at once follows from the second and third.
  - `McpKept`: a call that rides a session does so on the last one opened, and how often the
    server has carried it out follows from how far the call is (`CallKept`): only the one
    retry does so a second time.

### SeatLinkProofs

- `TypeCorrect` and `TablesAgree`: type correctness, each action's lemma
  also saying what it makes of a connection's `house`; with that `SeatsAgree` is
  inductive, since a step that leaves the tables alone leaves the registered
  connection seated (`TablesStay`).
- `UpKeepsOrder` and `HeldStaysUnsent`: what the house was given is older
  than what is on its way on the one seated connection, and that is older than what
  the client holds. Inductive is `Order`: besides these, that a connection whose handshake is
  unread carries nothing else (`HandshakeFirst`), that a client which does not hold is on
  none such and has nothing held (`HoldsUntilRead`), and that two connections are
  seated only once `was.twice` says so (`OneSeated`). `OrderStays` covers the steps
  that move no message up; connecting, sending, receiving (the flush), seating
  and hearing have a lemma each.
- `NothingIsSkipped` (`NothingSkipped`), assuming `Rooms = {HandshakeRoom}`: the numbers a
  ring gave out are, from where the client last saw one, on their way on the live
  connection or still in the ring. With a further room the property is false, by the gap
  the source names.

### WalkerTurnsProofs

- `TypeCorrect`, and `Sound`, its strengthening: of the walker, that queue, runs and
  cancel functions are of turns it was sent and a turn is queued once (`WalkerSound`); of the house, that
  what is on its way names turns that were begun, a `turn.begin` once and of a turn not
  seen, and that a room's open turn is its own (`HouseSound`).
- `SlotsMatchStops` (`SlotsAndStops`), assuming `Cap = 1`: `OneHeld`, that with one
  slot one function at most is held, and by the turn that runs.
- `OpenTurnsHeard` (`OpenTurnsAreHeardOf`), assuming `Cap = 1 \/ ~Deadline`: what could silence an open turn is
  an interrupt meant for another, or another turn's deadline. `InterruptsAreOld`: an
  interrupt under way is of a turn earlier than the room's open one, whose
  `turn.begin` follows it in the channel; and with a deadline the one function held is
  the running turn's (`OneHeld`). Without either hypothesis TLC finds the violation (section 4).

### RemoteHostProofs

- `TypesKept`, `DoneTwice` (`DoneTwiceAtMost`), `OpenStaysTrue` (`OpenAfterReattach`) and
  `RemoteIsSound` (`RemoteSound`), from one invariant, `Inv`, in five parts. `Typed`;
  `PendingSound`: a request is in the house's map while its promise is open, and only the first try of
  a tool call waits there without a timer; `LinesSound`: a connection that is down carries no request,
  and once the house has seen its end too it believes nothing of the being;
  `SentSound`: what is on its way to the being is there once, and was given to the child as
  often as it was sent before, none of it parked (`Within` counts, `Once` marks the first
  try); `NewsSound`: what says that the room is open was said by the child that has it open, since
  the two were attached (`Opened`). None of the last three is inductive without the others: that a
  retried call is not still on its way is `LinesSound`'s, that a result is not
  taken for that of a later opening is `SentSound`'s and `NewsSound`'s.
- Two lemmas carry most actions: `BeingSpeaks` for what the child and its runner say
  (`Emits`, sent or buffered, `WhatIsEmitted`), `LineChanges` for the connection. At the house
  `LetGo` covers the steps that await less, `Sends` those that send, for the first time or
  again; `RetriesAre` says what a hello may retry.
- `FilesAreSound` (`FilesSound`), of the sum `MCRemote`, assuming `FilesAssumption`: the limits are
  numbers, the beings finitely many, none of them the `Human`, and what a message carries a list of
  files. Of the worker by `WorkerKept`: each call fits the renders (`CallsFit`), what is being
  rendered is one render a recording (`RendersFit`) and none of a picture that is kept (`KeptFit`), the lane
  holds the renders that are live and no others, each once (`LaneFit`: a render is
  taken from the queue by the step that frees its slot, `DrainedKept`), and no fewer are counted in flight
  than wait (`CountFit`). Of the files by `MediaKept`: what a seat stored of
  the post at hand is some of its files, in order (`GotFit`); what a seat is sending are
  frames it was given that are its own to post (`SendFit`), and one it has posted it is
  no longer to send (`OutFit`); the frames of a post stand as one block that ends in its
  message, and that block is whole when the first of them is there (`BlockFit`, kept by later steps
  since the record only grows, `BlockStands`); a post of a person that is not in the record was passed by no
  more seats than began anew (`PassedFit`).

### UpkeepProofs

The room that `MCUpkeep` extends, `PlatformRoom`, under its `CastAssumption`:

- `TypesKept`, `NothingIsDoubled` (`OnceEach`), `EachSpeaksForItself` (`OwnVoice`) and
  `EchoesAreNoMessages` (`EchoIsNoMessage`), all from one invariant, `Inv`: `TypeOK` and
  `PlatformSound`. `FramesSound`, `RowsSound`, `CallsSound` and `PostsSound` say where a
  frame, a row of the sidecar, a call and a post come from (the speech each stands for and
  how much of it is still to be sent); `EchoSound` that what a seat's account shows was sent by a call
  that is known or on its row; `RecordedOnce` and `EchoIsNoMessage` the rest.

And five parts of the sum, proved of the sum, whose other parts leave
their variables alone; assumed is `PartsAssumption` of `MCUpkeep`: the limits are numbers, and names
of forks are no stream's.

- `WakingsStayApart` (`WakingsApart`), by `Remembered`: what a tick goes by, the ages of
  the beings' latest entries, has one at least as young as the room's last waking, as long as
  that is within the gap. A tick that finds all of them old thus finds the waking old.
- `ParkedIsKept` (`ParkSound`), by `ParkKept`: types; `OneDrain`, that unless drains
  overlapped one runs at most; `DrainKept`, that until a second message is parked while it
  runs, the drain's array and the map's both hold every parked message; `InOrder`, that until one
  is, what was replayed, what is parked and what the chain holds ascend, each below the next.
  `DrainKept` is where the array's identity matters: a drain shifts the array it found, and that
  is the map's only until the first push. The lemmas on sequences (`EndKeeps`, `HeadAndTail`,
  `Appended`, `NewestIs`) say what a shift, a push and the cut at `CAP` keep of an order.
- `RoomsAreKept` (`RoomsSound`), by three invariants:
  - `WalkersKept`: unless an attach has crossed a restart (`crossed`), the table has the last walker
    launched and every other is gone or was stopped (`TableKept`), one stop and
    one spawn at most are under way, of that walker (`StopsKept`, `SpawnKept`), and the
    restarts counted are those of the chain, one behind while a spawn resolves (`ChainKept`).
  - `SessionsKept`: running sessions are listed and within the cap (`Within`), one sent TERM
    is in its grace (`InGrace`), the process ends only under a long call (`Ended`), a session
    not started is nowhere (`Fresh`), and a call waits on, or was told of, a session that was its own.
  - `RoomsKept`: one stream is opened once and while it has no room (`OneOpening`), who is of the
    roster and seated has a seat in it (`RosterKept`), a fork's name stands for the run made under
    it in the list and in every copy a mint still holds (`ForksTyped`), unless two minted at once
    (`OneFork`), and a turn that a fork crosses is known to be (`Heard`).

### PartsProofs

The three parts of `MCParts`, assuming that streams are numbered and the rooms a being lives in
finitely many (`PartsAssumption` of `MCParts`).

- `OneIsWoken` (`DispatchSound`), by `DispatchKept`: what a seat has decided of a post and whom
  the post has woken are each within what the post allows (`MayWake`), and until the one
  seat that records it has, it wakes nobody. That the lottery's draw is one of those in it
  needs `EveryRank`: a finite set of numbers has a k-th for each k up to its size.
- `OneChildAtATime` (`ChildHostSound`), by `ChildKept`: types, one child that talks
  (`OneChild`), and that what the house takes for open the child in use has
  opened. The loop of an older child goes on over its awaits; it ends when it finds that
  child gone (`Going`), and until then it says nothing of the new one.
- `LifeIsKept` (`LivesSound`), by `LivesKept`: `Chain`, that of the jobs only the first is under
  way and the store is open only for it; `Store`, that each entry, in the store and in the
  copy the job holds open, is of a frame the marker has passed, and that each frame it has passed is
  there unless a job was killed between marker and store (`ghosts`).

### HouseProofs

Three parts of `MCHouse`, under its `HouseAssumption`: the limits are numbers, no user's handle is
the pseudonym of an account (which has its platform's name in it, `identity-map.mjs:137`), and the
being is none of the people.

- `TurnsGoByWhatWasSet` (`CommandsSound`), by two invariants:
  - `CommandsKept`: types; `InForce`, that a setting no seat behind the others wrote last is,
    where a turn reads it, as it was last asked for, its temporary and kept values each; `Hushed`, that
    a hush is shorter than its keeper's order only where the being lifted its own.
  - `NotesKept`: `Numbered`, that the versions given out are those of the histories and of the notes that
    stand, each one person's or the being's; `OneStands`, that a note that stands is not in the history
    yet; `SwitchFit`, that a note is open to others only if its person wants it so, and is then, unless
    the process ended within a write; `HeardFit`, that who was there when the being wrote
    its own note still belongs to that room.
- `LinksGoBackToCodes` (`LinksSound`), by `LinksKept`, all of it until a write of the app crosses another:
  an account has one entry, linked only to a user's handle (`MapFit`); every marked entry of a
  handle is within the least limit set on it, so that it does not matter which one is read
  (`WordFit`, `LimitIs`); an open code was redeemed by nobody (`CodesFit`), and the codes revoked are not open and
  hold those there were when the owner disconnected (`RevokedFit`); a link goes back to a code of
  its handle that the account redeemed, minted since (`HoldFit`).

### What TLC alone checks

Liveness under fairness (`LostSeatSettles`, `ConnectionSettles`, `SlotsComeFree`,
`CallsSettle`, `ChildComesBack`, `LoopsEnd`, `StaleEnds`) is beyond the proof system, as
is `ENABLED`. That `RoomTurns` implements `TurnLife` (`TurnsHaveOneLife`) stays with TLC
too: the mapping reads the record with `SelectSeq`, a fold over the data whose
properties need induction with an operator for a parameter; the theorems on promises and
on the record say the same of each turn without it.

Of the sums' properties three have no proof. They read data by recursion
and need induction over it: `BoardSound` (the composed performance of `Score`, a seat's
replay in `BoardSeat`), `RecordsSound` (an archive grouped into slices, a life fitted to a
budget, a record paged) and `WordsSound` (a record replayed from a log). Their modules use folds or
`SelectSeq`, whose value for every input is what cannot be proved.

## 6. Where the code and its words part

Besides the three findings of section 4, modules end with claims that the
code's own comments make and that do not hold of it: each definition below is stated and
explained in its module, was put to TLC once on a small instance, and is a property
of no run.

| definition | the claim | what happens |
|---|---|---|
| `Park!ParkedIsReplayed` | `mcpl/park.mjs:2` | of two messages parked while a drain runs the second is dropped |
| `PlatformRoom!RetriedOnce`, `SentByOneSeat` | `mcpl/redeliver.mjs:2`, `mcpl/seat.mjs` | every host that comes up may redeliver a row, each through its own account |
| `RemoteHost!RefusedBetween` | `mcpl/remote-host.mjs:70` | a call between two attachments waits for a seat instead |
| `RemoteHost!NeverReorders` | `platform-runner.mjs:98` | what is sent once the wire is up passes what is still buffered |
| `RemoteHost!OpenIsOpen`, `ReadyIsKnown` | `mcpl/remote-host.mjs:176`, `:334` | a child that restarts under the same connection has opened nothing |
| `ChildHost!RestartRevives` | `mcpl/host.mjs:258` | a keeper's restart does not bring back a child whose grant was refused with "close" |
| `Dispatch!StopsAtCap` | `dispatch.mjs:150` | a decision waits for its seat's chain, and the being reaches its cap meanwhile |
| `Wakings!FirstIsFirst`, `LapseIsNoWaking` | `wakings.mjs:20`, `:23` | the house seeds a waking where the being has set its own; a lapsed alarm holds others off |
| `Lives!MarkedIsKept`, `CatchesUp` | `resident-life.mjs:1331`, `life-jobs.mjs:226` | the marker is on disk before the store is, and what a killed job lost is not looked for |
| `Lives!ClaimsWhatItHolds`, `OpenToThosePresent` | `resident-life.mjs:1078`, `:1055` | a life compiled for those who were there is read by those who are |
| `Memory!FitsLimit`, `NeverEmpty` | `life-fit.mjs:62`, `resident-life.mjs:680` | rounding each line; half a pair of tool calls is dropped, and was all there was |
| `Rooms!ForkOrNot` | `socket-seat.mjs:120` | a turn's traffic goes where the room is when it comes, not where the turn was begun |
| `Rooms!KeptForever`, `ForkIsTailed` | `room-fork.mjs:25`, `room-tails.mjs:160` | two mints of a name at once leave one; only the seat that recorded the command tails |
| `Commands!AppliedByOneSeat`, `RepliesTrue`, `KeepersHushHolds` | `room-tails.mjs:182`, `room-control-tools.mjs` | every seat runs a line as it routes it; the seat that answers need not be the one that found something; a being shortens a keeper's hush |
| `Links!SingleUse`, `RefusedKeepsCode`, `KeepersWord` | `link-codes.mjs:12`, `identity-map.mjs:200` | the app writes back an older file; a code is marked before the link is refused; linking again drops marks |
| `Words!IndexNeverGuesses`, `QuotesWhatIsShown` | `message-index.mjs:89`, `room-platform-tools.mjs:30` | rows without a text's hash take the next frame; a quote finds the words as posted |
| `Media!TextIsKept`, `PostedOnce`, `NotTakenAsAPersons` | `mcpl/media-in.mjs:22`, `mcpl/seat.mjs:442` | too many files refuse the text too; a person's file in the app is posted by every being's account; a being's own, seen through another's account before its call is answered, is recorded as a person's |
| `Walkers!RestartsIt` | `serve-walks.mjs` | no restart when the exit comes before the close of its seat, or within the wait for its attach |
| `ToolSessions!NeverCrashes`, `SubmittedIsTold` | `walker-local-tools.mjs:342` | a session pruned under its waiter ends the walker (pruning counts from the start, `:130`) |
| `McpServers!OneSession`, `SurvivesARestart`, `OfferedIsOpen` | `tools/mcp-tools.mjs:188`, `:204` | two calls reconnect across one another; definitions outlive a reconnect that fails |
| `Records!EveryPageIsNew`, `EndsWhole` | `record-tools.mjs:213` | more lines between two integers than a page holds; a frame without a number |
| `Notes!OpensWhereItWasWritten`, `SwitchSurvives` | `user-notes.mjs:345`, `:300` | membership is as it is now; the process ended between the move and the write |
| `Board!AlwaysAscend`, `ConfiguredIsOperators`, `HiddenIsLeftOut` | `store.mjs:14`, `board.mjs:19`, `:81` | a restart forgets how far ids ran ahead; a configured room keeps a being's row; a hidden one of a being's is put back |
| `BoardSeat!ForwardsEvery`, `VerdictReaches`, `Registers` | `mcpl-web` `server.mjs:19`, `:24`, `:9` | what happens while the seat is away never comes; a refused registration is not tried again |
| `Signal!AllowedOnly`, `GroupsTold` | `mcpl-signal` `privacy.mjs:16`, `server.mjs:7` | edits, deletions and reactions pass; a policy answered after the grace registers nothing |
| `SignalText!MentionsPoint` | `outbound.mjs:5` | a name replaced later moves the ones behind it |
| `RenderBridge!Readopts`, `OneProbe` | `service-core.js:25`, `:236` | a refused probe leaves the breaker half-open for good; an older failure opens it during a probe |
| `Score!AcceptedPlays`, `WorkerPlays` | `lib/score.js`, `render.js` | a text for `maxUpdates` passes the validator; the worker does not keep the pause ink needs |
| `DreamWorker!RejectsInput`, `CountComesDown` | `dream-worker` `server.js:74`, the bridge's `server.js:206` | a full queue answers 429, taken for a rejection; a connection that goes is never counted off |
| `Import!WrittenWhole`, `Idempotent`, `EveryFrameMarked`, `PredictedIsWritten`, `LivedNeverMarked` | `write.mjs:118`, `slice.mjs:41`, `write.mjs:135`, `slice.mjs:97`, `stamp-imported.mjs:28` | the importer ends between two files; a branch mark has no marker; a room the house rested ends with a fraction; an open room's new frames are stamped |

## 7. What is not modelled

What a model is told and says, its context and prompt; the schemas and framing
of messages; HTTP; the texts of commands, beyond which family they set. Platform
adapters, providers, addresses and testaments are tables and conversions without state of
their own; deployment, configuration and scripts hold no state of the running
program. `PROJECT.json` says of each component what of it is left out.

Of what is modelled: a being's rooms all name it in `RoomTurns` (a seat is one entry for
all rooms); `HOUSE_SEAT_GRACE_MS=0`, which closes a turn at once, is left out there, as is
routing to forks, which `Rooms` has. `ChildHost` and `RemoteHost` have one server. In
`Records` the house's frames have numbers as far as 3/4 between two integers. In `Notes` no two
notes are written in one millisecond. `McpServers` has one server. In `Media` a
message's files are fetched in one step, and what a platform's size limit or a guard
refuses is a call that never gets on. Appends of one line to a file are whole.
