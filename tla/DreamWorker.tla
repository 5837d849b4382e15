---------------------------- MODULE DreamWorker ----------------------------
(***************************************************************************)
(* The remote renderer (inkfield-bridge/dream-worker) and the bridge's     *)
(* call of it: one POST under a deadline, tried again once when it breaks  *)
(* early; the worker limits, shares and queues what it is asked and        *)
(* renders it whether or not anyone still waits.  The rate limit is that a *)
(* request may meet an empty bucket.                                       *)
(***************************************************************************)
EXTENDS Integers, Sequences, FiniteSets, SequencesExt

CONSTANTS
  MaxRecordings,           \* bound: what is to be rendered; 0 is no recording
  GpuMax, GpuQueue,        \* the lane's concurrency and queue
  CacheMax,                \* pictures kept
  MaxTries, MaxAtOnce,     \* bounds: the bridge's requests, and calls at a time
  MaxLives                 \* bound: starts of the worker

VARIABLES
  calls,     \* the bridge's: [of, state, tries, render, how]
  renders,   \* begun: [of, end]; end is "none" while one is under way
  rendering, \* Coalescer's inflight: recording -> render, or 0
  kept,      \* its cache: renders in the order they were kept
  lane,      \* [active, queue]
  inFlightRequests, \* what the drain waits for
  worker,    \* "up", "draining", "down"
  lives

Recordings == 1 .. MaxRecordings
dreamVars == <<calls, renders, rendering, kept, lane, inFlightRequests, worker, lives>>

Init ==
  /\ calls = <<>> /\ renders = <<>>
  /\ rendering = [k \in Recordings |-> 0] /\ kept = <<>>
  /\ lane = [active |-> {}, queue |-> <<>>]
  /\ inFlightRequests = 0 /\ worker = "up" /\ lives = 1

-----------------------------------------------------------------------------
(* The bridge. A call ends with the picture; rejected, which the bridge    *)
(* hands to whoever asked; or failed, for which it renders itself.         *)
Tries == Len(calls) + Cardinality({c \in DOMAIN calls : calls[c].tries = 2})
Underway(c) == calls[c].state \in {"sending", "waiting"}

renderViaDream(k) ==
  /\ \A i \in 1 .. k - 1 : \E c \in DOMAIN calls : calls[c].of = i   \* they are named as they come
  /\ Tries < MaxTries /\ Cardinality({c \in DOMAIN calls : Underway(c)}) < MaxAtOnce
  /\ calls' = Append(calls, [of |-> k, state |-> "sending", tries |-> 1, render |-> 0, how |-> "none"])
  /\ UNCHANGED <<renders, rendering, kept, lane, inFlightRequests, worker, lives>>

(* fetchWithTimeout: what breaks within half a minute is tried once more.  *)
(* The worker is not told, and goes on with what it received.              *)
TriesAgain(c) ==
  /\ Underway(c) /\ calls[c].tries = 1 /\ Tries < MaxTries
  /\ calls' = [calls EXCEPT ![c] = [@ EXCEPT !.state = "sending", !.tries = 2, !.render = 0, !.how = "none"]]
  /\ UNCHANGED <<renders, rendering, kept, lane, inFlightRequests, worker, lives>>
(* It breaks later or again, or its time is up.                            *)
GivesUp(c) ==
  /\ Underway(c) /\ calls' = [calls EXCEPT ![c].state = "failed", ![c].render = 0, ![c].how = "none"]
  /\ UNCHANGED <<renders, rendering, kept, lane, inFlightRequests, worker, lives>>
Delivers(c) ==
  /\ calls[c].state = "waiting" /\ calls[c].how # "none" /\ calls' = [calls EXCEPT ![c].state = calls[c].how]
  /\ UNCHANGED <<renders, rendering, kept, lane, inFlightRequests, worker, lives>>

-----------------------------------------------------------------------------
(* Lane: refused by a full queue; _drain moves on what it can.             *)
Full == Len(lane.queue) >= GpuQueue
Drained(l) ==
  IF l.queue # <<>> /\ Cardinality(l.active) < GpuMax
  THEN [active |-> l.active \cup {Head(l.queue)}, queue |-> Tail(l.queue)] ELSE l
Joins(j) == Drained([lane EXCEPT !.queue = Append(@, j)])
Leaves(j) == Drained([lane EXCEPT !.active = @ \ {j}])

(* POST /render: limited, refused as no recording, answered from the cache *)
(* or by a render under way, refused by the lane, or rendered; a worker    *)
(* that drains refuses what reaches it by a connection kept open.          *)
Receives(c, how, j) ==
  /\ calls[c].state = "sending" /\ worker = "up"
  /\ calls' = [calls EXCEPT ![c] = [@ EXCEPT !.state = "waiting", !.render = j, !.how = how]]
  /\ inFlightRequests' = IF how = "none" THEN inFlightRequests + 1 ELSE inFlightRequests
  /\ UNCHANGED <<kept, worker, lives>>
Turned(c) == UNCHANGED <<renders, rendering, lane>> /\ Receives(c, "rejected", 0)
Limits(c) == Turned(c)
Refuses(c) == calls[c].of = 0 /\ Turned(c)
Cached(k) == {j \in Range(kept) : renders[j].of = k}
FromCache(c) ==
  /\ \E j \in Cached(calls[c].of) : Receives(c, "picture", j)
  /\ UNCHANGED <<renders, rendering, lane>>
Uncached(c) == calls[c].of # 0 /\ Cached(calls[c].of) = {}
Shares(c) ==
  /\ Uncached(c) /\ rendering[calls[c].of] # 0 /\ Receives(c, "none", rendering[calls[c].of])
  /\ UNCHANGED <<renders, rendering, lane>>
QueueFull(c) == Uncached(c) /\ rendering[calls[c].of] = 0 /\ Full /\ Turned(c)
Begins(c) ==
  LET j == Len(renders) + 1 IN
  /\ Uncached(c) /\ rendering[calls[c].of] = 0 /\ ~Full /\ Receives(c, "none", j)
  /\ renders' = Append(renders, [of |-> calls[c].of, end |-> "none"])
  /\ rendering' = [rendering EXCEPT ![calls[c].of] = j] /\ lane' = Joins(j)
ShuttingDown(c) ==
  /\ calls[c].state = "sending" /\ worker = "draining"
  /\ calls' = [calls EXCEPT ![c].state = "waiting", ![c].how = "failed"]
  /\ UNCHANGED <<renders, rendering, kept, lane, inFlightRequests, worker, lives>>

(* renderToPNG ends, with the picture or without; Coalescer.run keeps the  *)
(* picture and is done with the recording; whoever waits is answered, and  *)
(* only an answer that a connection still takes is counted off.            *)
Kept(j, how) ==
  IF how # "picture" THEN kept ELSE Append(IF Len(kept) >= CacheMax THEN Tail(kept) ELSE kept, j)
Waits(c, j) == calls[c].state = "waiting" /\ calls[c].render = j /\ calls[c].how = "none"
(* Mutation of Released: what failed stays in flight.                      *)
ReleasedIfPicture(k, how) == IF how = "picture" THEN [rendering EXCEPT ![k] = 0] ELSE rendering
Released(k, how) == [rendering EXCEPT ![k] = 0]
RenderEnds(j, how) ==
  /\ worker # "down" /\ j \in lane.active
  /\ renders' = [renders EXCEPT ![j].end = how]
  /\ rendering' = Released(renders[j].of, how) /\ kept' = Kept(j, how) /\ lane' = Leaves(j)
  /\ calls' = [c \in DOMAIN calls |-> IF Waits(c, j) THEN [calls[c] EXCEPT !.how = how] ELSE calls[c]]
  /\ inFlightRequests' = inFlightRequests - Cardinality({c \in DOMAIN calls : Waits(c, j)})
  /\ UNCHANGED <<worker, lives>>
Expires ==
  /\ kept # <<>> /\ kept' = Tail(kept)
  /\ UNCHANGED <<calls, renders, rendering, lane, inFlightRequests, worker, lives>>

(* SIGTERM: nothing new is taken; the process ends once nothing is in      *)
(* flight, or after a minute. The host may go at any time.                 *)
Drains ==
  /\ worker = "up" /\ worker' = "draining"
  /\ UNCHANGED <<calls, renders, rendering, kept, lane, inFlightRequests, lives>>
Idle == inFlightRequests = 0 /\ lane.active = {} /\ lane.queue = <<>>
Goes ==
  /\ worker' = "down" /\ lane' = [active |-> {}, queue |-> <<>>]
  /\ rendering' = [k \in Recordings |-> 0] /\ kept' = <<>> /\ inFlightRequests' = 0
  /\ renders' = [j \in DOMAIN renders |-> IF renders[j].end = "none" THEN [renders[j] EXCEPT !.end = "lost"] ELSE renders[j]]
  /\ UNCHANGED <<calls, lives>>
Exits == worker = "draining" /\ Idle /\ Goes
Dies == worker # "down" /\ Goes
Starts ==
  /\ worker = "down" /\ lives < MaxLives /\ worker' = "up" /\ lives' = lives + 1
  /\ UNCHANGED <<calls, renders, rendering, kept, lane, inFlightRequests>>

Next ==
  \/ \E k \in Recordings \cup {0} : renderViaDream(k)
  \/ \E c \in DOMAIN calls :
       \/ TriesAgain(c) \/ GivesUp(c) \/ Delivers(c) \/ ShuttingDown(c)
       \/ Limits(c) \/ Refuses(c) \/ FromCache(c) \/ Shares(c) \/ QueueFull(c) \/ Begins(c)
  \/ \E j \in DOMAIN renders : RenderEnds(j, "picture") \/ RenderEnds(j, "failed")
  \/ Expires \/ Drains \/ Exits \/ Dies \/ Starts

-----------------------------------------------------------------------------
(* A recording is rendered once at a time, and not while its picture is    *)
(* kept: a call that broke and is tried again shares the render it began.  *)
Live(j) == renders[j].end = "none"
RenderedOnce ==
  \A j \in DOMAIN renders : Live(j) =>
    /\ Cached(renders[j].of) = {}
    /\ \A i \in DOMAIN renders : Live(i) /\ renders[i].of = renders[j].of => i = j

(* Whoever waits, waits for a render of the lane, unless the worker has    *)
(* gone since; whoever has a picture has one of what was asked.            *)
InLane(j) == j \in lane.active \/ j \in Range(lane.queue)
NobodyForgotten ==
  /\ \A c \in DOMAIN calls : calls[c].state = "waiting" /\ calls[c].how = "none" =>
       InLane(calls[c].render) \/ renders[calls[c].render].end = "lost"
  /\ \A j \in DOMAIN renders : Live(j) <=> InLane(j)
OwnPicture ==
  \A c \in DOMAIN calls : calls[c].state = "picture" =>
    LET j == calls[c].render IN renders[j].of = calls[c].of /\ renders[j].end = "picture"

(* The drain waits for everyone who can still be answered: an exit that is *)
(* not forced cuts no call off.                                            *)
Counted == Cardinality({c \in DOMAIN calls : \E j \in DOMAIN renders : Live(j) /\ Waits(c, j)}) <= inFlightRequests
LaneMoves ==
  /\ Cardinality(lane.active) <= GpuMax /\ Len(lane.queue) <= GpuQueue
  /\ lane.queue # <<>> => Cardinality(lane.active) = GpuMax
WorkerSound == RenderedOnce /\ NobodyForgotten /\ OwnPicture /\ Counted /\ LaneMoves

(* Violated. server.js: "4xx from the worker is a considered rejection of  *)
(* THIS input"; a full queue and the rate limit answer 429.                *)
RejectsInput == \A c \in DOMAIN calls : calls[c].state = "rejected" => calls[c].of = 0

(* Violated. What is in flight is counted off when an answer has been sent *)
(* (res 'finish') and never for a connection that went: then no drain ends *)
(* before its minute is over.                                              *)
CountComesDown == lane.active = {} /\ lane.queue = <<>> => inFlightRequests = 0
=============================================================================
