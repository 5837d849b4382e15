----------------------------- MODULE MCServices -----------------------------
(* The numbering of a room's record and the words in it, and services      *)
(* beside the house: parts that share no state, checked in one run as in   *)
(* MCParts.  Each behaviour is one of one part, the variables of the       *)
(* others stay at rest.  The record's beings are interchangeable, and so   *)
(* are the seats that read a room's words.                                 *)
EXTENDS RecordSeq, TLC
CONSTANTS
  Seats, Authors, Being, WordsSaid, OwnWords, Hiders, MaxEvents, MaxBare, MaxScans, \* Words
  Members, Threshold, MaxOpen, PerDay, Day, Words, Keep, Limit, MaxPosts, MaxActs, MaxTime, \* Board
  MaxOthers, Budget,                                   \* BoardSeat
  SeenCap, MaxSent, MaxSocks, Trials,                  \* Signal
  MaxText, Limits, MaxItems,                           \* SignalText
  MaxPictures, DreamMax, DreamQueue, LocalMax, LocalQueue, FailureThreshold, Entries, MaxAsks, \* RenderBridge
  MaxPlan, MAX_STROKES, Samples, Pauses, Updates,       \* Score
  Calls, MaxSessions, MaxDrops, MaxRefusals            \* McpServers
ASSUME ServicesAssumption ==
  /\ SeenCap \in Nat /\ MaxSocks \in Nat \ {0}
  /\ DreamMax \in Nat /\ DreamQueue \in Nat /\ LocalMax \in Nat /\ LocalQueue \in Nat
  /\ FailureThreshold \in Nat /\ Entries \in Nat \ {0} /\ MaxPictures \in Nat
  /\ MaxSessions \in Nat /\ "tick" \notin Calls
VARIABLES part,
  log, at, wordFrames, wordRows, aged, removal, scans, made, unseen, shown,
  entries, hides, flags, rooms, config, clock, last, reader, acts, slipped,
  webRooms, posts, sock, toSeat, toBoard, speech, known, announced, opened, granted, chain, awaits, told, delivered, missed, spent,
  conf, sent, socks, current, retry, queue, step, seen, accepted, phase, uuid, grant, chans, openGroup, tellings, privacy, lists, given, tries,
  text, limit, rest, pieces, items, marks, pass,
  asks, jobs, inflight, cache, dream, local, breaker, browser, process,
  composer, stage, plan, wholeFlow, todo, events, t, mouseCountStart, door,
  client, offered, session, opener, call, ran, done, adopted, drops, refusals

(* A group the environment allows, in either mode, and one it does not.    *)
Configs == [mode : {"opt-out", "opt-in"}, allowed : {TRUE}]
           \cup [mode : {"opt-in"}, allowed : {FALSE}]

WD == INSTANCE Words WITH Own <- OwnWords, frames <- wordFrames, rows <- wordRows, pending <- removal, missed <- unseen
B == INSTANCE Board
BS == INSTANCE BoardSeat
SG == INSTANCE Signal WITH file <- privacy
ST == INSTANCE SignalText
RB == INSTANCE RenderBridge
SC == INSTANCE Score
MS == INSTANCE McpServers

wordsVars == <<log, at, wordFrames, wordRows, aged, removal, scans, made, unseen, shown>>
boardVars == <<entries, hides, flags, rooms, config, clock, last, reader, acts, slipped>>
seatVars == <<webRooms, posts, sock, toSeat, toBoard, speech, known, announced, opened, granted, chain, awaits, told, delivered, missed, spent>>
signalVars == <<conf, sent, socks, current, retry, queue, step, seen, accepted, phase, uuid, grant, chans, openGroup, tellings, privacy, lists, given, tries>>
textVars == <<text, limit, rest, pieces, items, marks, pass>>
renderVars == <<asks, jobs, inflight, cache, dream, local, breaker, browser, process>>
scoreVars == <<composer, stage, plan, wholeFlow, todo, events, t, mouseCountStart, door>>
mcpVars == <<client, offered, session, opener, call, ran, done, adopted, drops, refusals>>
toolVars == <<scoreVars, mcpVars>>
serviceVars == <<wordsVars, boardVars, seatVars, signalVars, textVars, renderVars, toolVars>>
MCInit ==
  /\ part \in {"record", "words", "board", "seat", "signal", "text", "render", "score", "mcp"}
  /\ \/ part = "signal"
     \/ part # "signal" /\ conf = (CHOOSE c \in Configs : TRUE) /\ privacy = [there |-> FALSE, text |-> "listed", read |-> FALSE]
  /\ \/ part = "score"
     \/ part # "score" /\ composer = "bridge" /\ wholeFlow = TRUE
  /\ \/ part = "text"
     \/ part # "text" /\ text = <<>> /\ items = <<"@Al">>
  /\ Init /\ WD!Init /\ B!Init /\ BS!Init /\ SG!Init /\ ST!Init /\ RB!Init /\ SC!Init /\ MS!Init
MCNext ==
  /\ UNCHANGED part
  /\ \/ part = "record" /\ Next /\ UNCHANGED serviceVars
     \/ part = "words" /\ WD!Next /\ UNCHANGED <<vars, boardVars, seatVars, signalVars, textVars, renderVars, toolVars>>
     \/ part = "board" /\ B!Next /\ UNCHANGED <<vars, wordsVars, seatVars, signalVars, textVars, renderVars, toolVars>>
     \/ part = "seat" /\ BS!Next /\ UNCHANGED <<vars, wordsVars, boardVars, signalVars, textVars, renderVars, toolVars>>
     \/ part = "signal" /\ SG!Next /\ UNCHANGED <<vars, wordsVars, boardVars, seatVars, textVars, renderVars, toolVars>>
     \/ part = "text" /\ ST!Next /\ UNCHANGED <<vars, wordsVars, boardVars, seatVars, signalVars, renderVars, toolVars>>
     \/ part = "render" /\ RB!Next /\ UNCHANGED <<vars, wordsVars, boardVars, seatVars, signalVars, textVars, toolVars>>
     \/ part = "score" /\ SC!Next /\ UNCHANGED <<vars, wordsVars, boardVars, seatVars, signalVars, textVars, renderVars, mcpVars>>
     \/ part = "mcp" /\ MS!Next /\ UNCHANGED <<vars, wordsVars, boardVars, seatVars, signalVars, textVars, renderVars, scoreVars>>
MCSpec == MCInit /\ [][MCNext]_<<part, vars, serviceVars>>
Symmetry == Permutations(Beings) \cup Permutations(Seats)

(* The room's record says of its messages what the platform says.          *)
WordsSound == part = "words" => WD!WordsSound
(* What is read: the board's pages, what a seat on it hears, a text sent   *)
(* to Signal with its mentions, and a picture's strokes.                   *)
BoardSound ==
  /\ part = "board" => B!Sound
  /\ part = "seat" => BS!Sound
  /\ part = "text" => ST!Sound
  /\ part = "score" => SC!ScoreSound
(* Who is served: by the Signal account's server, by the bridge to the     *)
(* renderer and by an MCP server over one session after another.           *)
ServersSound ==
  /\ part = "signal" => SG!Sound
  /\ part = "render" => RB!RenderSound
  /\ part = "mcp" => MS!McpSound
=============================================================================
