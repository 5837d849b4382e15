----------------------------- MODULE RenderBridge -----------------------------
(* The bridge to the renderer (inkfield-bridge's server.js over its        *)
(* service-core.js): a request is shared with those that ask for the same, *)
(* goes to the remote worker's lane while the breaker lets it, and falls   *)
(* back to the local lane and its one browser.                             *)
EXTENDS Integers, Sequences, FiniteSets, SequencesExt

CONSTANTS
  DreamMax, DreamQueue,    \* the remote lane's concurrency and queue
  LocalMax, LocalQueue,
  FailureThreshold,        \* failures in a row that open the breaker
  Entries,                 \* of the cache
  MaxPictures, MaxAsks     \* bounds: what requests are keyed by, and requests

VARIABLES
  asks,      \* requests: [key, job, got]; got is "nothing" while they wait
  jobs,      \* renders begun: [key, probe, end]
  inflight,  \* Coalescer's: picture -> job, or 0
  cache,     \* entries in the order they were made: [key, job, fresh]
  dream, local,            \* lanes: [active, queue]
  breaker,   \* [state, fails, cooled]
  browser,   \* "none", "up", or "dead": a promise that is kept all the same
  process    \* "up", "draining", "gone"

renderVars == <<asks, jobs, inflight, cache, dream, local, breaker, browser, process>>

Pictures == 1 .. MaxPictures
Live(j) == jobs[j].end = "none"
NoLane == [active |-> {}, queue |-> <<>>]

Init ==
  /\ asks = <<>> /\ jobs = <<>>
  /\ inflight = [k \in Pictures |-> 0] /\ cache = <<>>
  /\ dream = NoLane /\ local = NoLane
  /\ breaker = [state |-> "closed", fails |-> 0, cooled |-> FALSE]
  /\ browser = "none" /\ process = "up"

-----------------------------------------------------------------------------
(* Lane: a job is refused by a full queue, and _drain moves on what it can *)
(* once a job has come or gone.                                            *)
Full(lane, room) == Len(lane.queue) >= room
Drained(lane, most) ==
  IF lane.queue # <<>> /\ Cardinality(lane.active) < most
  THEN [active |-> lane.active \cup {Head(lane.queue)}, queue |-> Tail(lane.queue)] ELSE lane
Joins(lane, most, j) == Drained([lane EXCEPT !.queue = Append(@, j)], most)
Leaves(lane, most, j) == Drained([lane EXCEPT !.active = @ \ {j}], most)

(* CircuitBreaker: allow, success, failure.                                *)
Probing == breaker.state = "open" /\ breaker.cooled
Allows == breaker.state = "closed" \/ Probing
Allowed == IF Probing THEN [breaker EXCEPT !.state = "half-open"] ELSE breaker
Succeeded == [breaker EXCEPT !.state = "closed", !.fails = 0]
Failed ==
  LET n == IF breaker.fails < FailureThreshold THEN breaker.fails + 1 ELSE FailureThreshold
  IN IF breaker.state = "half-open" \/ n = FailureThreshold
     THEN [state |-> "open", fails |-> n, cooled |-> FALSE] ELSE [breaker EXCEPT !.fails = n]

(* Coalescer.run's end: whoever waited is answered, a picture is kept, and *)
(* the oldest entry makes room for it.                                     *)
(* Mutation of Clears: only a picture ends what is in flight.              *)
ClearsPicture(how) == how = "picture"
Clears(how) == TRUE
Kept(k, j) ==
  LET room == IF Len(cache) >= Entries THEN Tail(cache) ELSE cache
  IN Append(room, [key |-> k, job |-> j, fresh |-> TRUE])
Answered(all, j, how) ==
  [n \in DOMAIN all |-> IF all[n].job = j /\ all[n].got = "nothing" THEN [all[n] EXCEPT !.got = how] ELSE all[n]]
Settles(j, how) ==
  LET k == jobs[j].key IN
  /\ jobs' = [jobs EXCEPT ![j].end = how]
  /\ asks' = Answered(asks, j, how)
  /\ inflight' = IF Clears(how) THEN [inflight EXCEPT ![k] = 0] ELSE inflight
  /\ cache' = IF how = "picture" THEN Kept(k, j) ELSE cache

-----------------------------------------------------------------------------
(* POST /render of what is in the cache, of what is in flight, and of what *)
(* is neither; that is rendered, or refused by the queue it comes to.      *)
Cached(k) == {i \in DOMAIN cache : cache[i].key = k}
Without(k) ==   \* a Map: a picture has one entry
  IF Cached(k) = {} THEN cache ELSE RemoveAt(cache, CHOOSE i \in Cached(k) : TRUE)
Asks(k) ==
  /\ process = "up" /\ Len(asks) < MaxAsks
  /\ \A i \in 1 .. k - 1 : \E n \in DOMAIN asks : asks[n].key = i   \* they are named as they come
Ask(k, j, got) == [key |-> k, job |-> j, got |-> got]

AsksAgain(k) ==
  /\ Asks(k)
  /\ \E i \in Cached(k) : cache[i].fresh /\ asks' = Append(asks, Ask(k, cache[i].job, "picture"))
  /\ UNCHANGED <<jobs, inflight, cache, dream, local, breaker, browser, process>>
Stale(k) == \A i \in Cached(k) : ~cache[i].fresh
Shares(k) ==
  /\ Asks(k) /\ Stale(k) /\ inflight[k] # 0
  /\ asks' = Append(asks, Ask(k, inflight[k], "nothing")) /\ cache' = Without(k)
  /\ UNCHANGED <<jobs, inflight, dream, local, breaker, browser, process>>
Begins(k) ==
  /\ Asks(k) /\ Stale(k) /\ inflight[k] = 0 /\ cache' = Without(k)
  /\ LET j == Len(jobs) + 1
         busy == IF Allows THEN Full(dream, DreamQueue) ELSE Full(local, LocalQueue)
         job == [key |-> k, probe |-> Probing, end |-> IF busy THEN "busy" ELSE "none"]
     IN /\ jobs' = Append(jobs, job)
        /\ breaker' = Allowed
        /\ asks' = Append(asks, Ask(k, j, IF busy THEN "busy" ELSE "nothing"))
        /\ inflight' = IF busy THEN inflight ELSE [inflight EXCEPT ![k] = j]
        /\ dream' = IF Allows /\ ~busy THEN Joins(dream, DreamMax, j) ELSE dream
        /\ local' = IF Allows \/ busy THEN local ELSE Joins(local, LocalMax, j)
  /\ UNCHANGED <<browser, process>>

(* The worker renders it, or rejects it; or it fails, is late, or cannot   *)
(* be reached, at the second attempt either.                               *)
DreamRenders(j) ==
  /\ j \in dream.active /\ dream' = Leaves(dream, DreamMax, j)
  /\ breaker' = Succeeded /\ Settles(j, "picture")
  /\ UNCHANGED <<local, browser, process>>
DreamRejects(j) ==
  /\ j \in dream.active /\ dream' = Leaves(dream, DreamMax, j)
  /\ Settles(j, "refused")
  /\ UNCHANGED <<local, breaker, browser, process>>
DreamFails(j) ==
  /\ j \in dream.active /\ dream' = Leaves(dream, DreamMax, j) /\ breaker' = Failed
  /\ IF Full(local, LocalQueue)
     THEN Settles(j, "busy") /\ UNCHANGED local
     ELSE local' = Joins(local, LocalMax, j) /\ UNCHANGED <<jobs, asks, inflight, cache>>
  /\ UNCHANGED <<browser, process>>

(* renderToPNG: the browser is launched once and its promise kept, though  *)
(* the launch failed or the browser is gone.                               *)
LocalEnds(j) ==
  /\ j \in local.active /\ local' = Leaves(local, LocalMax, j)
  /\ browser' \in IF browser = "none" THEN {"up", "dead"} ELSE {browser}
  /\ \/ browser' = "up" /\ Settles(j, "picture")
     \/ Settles(j, "failed")
  /\ UNCHANGED <<dream, breaker, process>>
BrowserGoes ==
  /\ browser = "up" /\ browser' = "dead"
  /\ UNCHANGED <<asks, jobs, inflight, cache, dream, local, breaker, process>>

(* The clock: the cache's and the breaker's.                               *)
Expires(i) ==
  /\ i \in DOMAIN cache /\ cache[i].fresh /\ cache' = [cache EXCEPT ![i].fresh = FALSE]
  /\ UNCHANGED <<asks, jobs, inflight, dream, local, breaker, browser, process>>
Cools ==
  /\ breaker.state = "open" /\ ~breaker.cooled /\ breaker' = [breaker EXCEPT !.cooled = TRUE]
  /\ UNCHANGED <<asks, jobs, inflight, cache, dream, local, browser, process>>

(* A signal: no request is taken any more; the process ends once nothing   *)
(* is in flight.  (Or after a minute, which ends what the model follows.)  *)
Drains ==
  /\ process = "up" /\ process' = "draining"
  /\ UNCHANGED <<asks, jobs, inflight, cache, dream, local, breaker, browser>>
Exits ==
  /\ process = "draining" /\ process' = "gone" /\ \A n \in DOMAIN asks : asks[n].got # "nothing"
  /\ dream = NoLane /\ local = NoLane
  /\ UNCHANGED <<asks, jobs, inflight, cache, dream, local, breaker, browser>>

Next ==
  \/ \E k \in Pictures : AsksAgain(k) \/ Shares(k) \/ Begins(k)
  \/ \E j \in DOMAIN jobs : DreamRenders(j) \/ DreamRejects(j) \/ DreamFails(j) \/ LocalEnds(j)
  \/ BrowserGoes \/ \E i \in 1 .. Entries : Expires(i)
  \/ Cools \/ Drains \/ Exits
Spec == Init /\ [][Next]_renderVars

-----------------------------------------------------------------------------
(* A request that waits is of a render still under way, which stands in    *)
(* one lane, once; and one picture is rendered once at a time.             *)
In(lane, j) == j \in lane.active \/ j \in Range(lane.queue)
NobodyForgotten ==
  /\ \A n \in DOMAIN asks : asks[n].got = "nothing" => Live(asks[n].job)
  /\ \A j \in DOMAIN jobs :
       Live(j) => inflight[jobs[j].key] = j /\ (In(dream, j) <=> ~In(local, j))

(* Nobody gets another's picture, and who gets one gets a rendered one.    *)
OwnPicture == \A n \in DOMAIN asks :
  LET j == jobs[asks[n].job] IN j.key = asks[n].key /\ (asks[n].got = "picture" => j.end = "picture")

(* A lane with someone in its queue has no slot free, and none too many.   *)
Lane(lane, most, room) ==
  /\ Cardinality(lane.active) <= most /\ Len(lane.queue) <= room /\ IsInjective(lane.queue)
  /\ lane.queue # <<>> => Cardinality(lane.active) = most
LanesMove == Lane(dream, DreamMax, DreamQueue) /\ Lane(local, LocalMax, LocalQueue)

(* Half-open, a probe is under way; or one was refused, by its worker or   *)
(* by the lane, and then nothing ends it (Readopts).                       *)
ProbeIn(j) == jobs[j].probe /\ In(dream, j)
HalfOpenIsProbed == breaker.state = "half-open" =>
  \E j \in DOMAIN jobs : ProbeIn(j) \/ (jobs[j].probe /\ jobs[j].end \in {"refused", "busy"})

RenderSound == NobodyForgotten /\ OwnPicture /\ LanesMove /\ HalfOpenIsProbed

(* Violated.  service-core.js:25-26: "a half-open probe re-adopts the      *)
(* worker automatically when it returns"; a probe that is refused leaves   *)
(* the breaker half-open, and it allows no other.                          *)
Readopts == breaker.state = "half-open" => \E j \in DOMAIN jobs : ProbeIn(j)

(* Violated.  service-core.js:236: "let exactly one probe through"; one    *)
(* let through before the breaker opened may fail and open it again.       *)
OneProbe == Cardinality({j \in DOMAIN jobs : ProbeIn(j)}) <= 1
=============================================================================
