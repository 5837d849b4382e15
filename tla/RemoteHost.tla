---------------------------- MODULE RemoteHost ----------------------------
(* A platform's server that runs beside a being (hosted_by: "being"): the   *)
(* house's stand-in for it (mcpl/remote-host.mjs), the being's runner       *)
(* (platform-runner.mjs) and the child process it keeps (mcpl/child.mjs),   *)
(* over a connection that breaks. One server with one standing room; the    *)
(* requests of the house are tool calls and the opening of that room.       *)
EXTENDS Naturals, Sequences, FiniteSets, SequencesExt

CONSTANTS
  Cap,          \* what the runner keeps while the house is away (500), above 0
  MaxCalls, MaxOpens, MaxIncoming, MaxFaults   \* bounds of the runs

ASSUME BoundsAreNumbers == Cap \in Nat /\ MaxCalls \in Nat /\ MaxOpens \in Nat

VARIABLES
  host,     \* the house's: [state, wire, known, open, opening]
  pending,  \* the requests that await a result: id -> [timer, retried]
  outcome,  \* what became of each request so far, in order of their ids
  link,     \* [up, closing, toHouse, toBeing]; closing until the house sees the end
  runner,   \* [wasLive, buffer]
  child,    \* [state, open, again]; again: restarted under this attachment
  running,  \* the requests the child is at work on
  runs,     \* how often the child was given each request
  said,     \* how many messages the platform has sent
  heard,    \* those the house was handed, in order
  faults

vars == <<host, pending, outcome, link, runner, child, running, runs, said, heard, faults>>

Ids   == 1..(MaxCalls + MaxOpens)
Opens == (MaxCalls + 1)..(MaxCalls + MaxOpens)   \* ids of platform.open
Settled == {"ok", "failed", "timeout", "detached", "not-ready", "no-seat"}

Msg(type, id, ok) == [type |-> type, id |-> id, ok |-> ok]

(* A connection begins; a runner begins with its walker attached. *)
Fresh(ms) == [up |-> TRUE, closing |-> FALSE, toHouse |-> ms, toBeing |-> <<>>]
Starting  == Msg("child", 0, "starting")

Init ==
  /\ host = [state |-> "waiting", wire |-> FALSE, known |-> FALSE, open |-> FALSE, opening |-> 0]
  /\ pending = <<>> /\ outcome = [id \in Ids |-> "new"]
  /\ link = Fresh(<<Starting>>)
  /\ runner = [wasLive |-> TRUE, buffer |-> <<>>]
  /\ child = [state |-> "starting", open |-> FALSE, again |-> FALSE]
  /\ running = <<>> /\ runs = [id \in Ids |-> 0]
  /\ said = 0 /\ heard = <<>> /\ faults = 0

Fault == faults < MaxFaults /\ faults' = faults + 1
Without(S) == [id \in DOMAIN pending \ S |-> pending[id]]

----------------------------------------------------------------------------
(* The being. sendOrBuffer: what cannot be sent waits, the oldest dropped. *)
Buffered(b, ms) == LET all == b \o ms IN
  IF Len(all) > Cap THEN SubSeq(all, Len(all) - Cap + 1, Len(all)) ELSE all
Emits(ms) ==
  IF link.up
  THEN link' = [link EXCEPT !.toHouse = @ \o ms] /\ UNCHANGED runner
  ELSE runner' = [runner EXCEPT !.buffer = Buffered(@, ms)] /\ UNCHANGED link

Hello == Msg("hello", 0, "ok")

(* onReady: of the first start and of every restart; the hello is never    *)
(* buffered.                                                               *)
ChildReady ==
  /\ child.state \in {"starting", "crashed"}
  /\ child' = [child EXCEPT !.state = "ready", !.open = FALSE]
  /\ IF link.up THEN Emits(<<Msg("child", 0, "ready"), Hello>>)
                ELSE Emits(<<Msg("child", 0, "ready")>>)
  /\ UNCHANGED <<host, pending, outcome, running, runs, said, heard, faults>>

(* The child exits, or fails before it was ready; its calls fail with it.  *)
ChildExits ==
  /\ child.state # "none" /\ Fault
  /\ child' = [state |-> "crashed", open |-> FALSE, again |-> TRUE]
  /\ LET how == IF child.state = "ready" THEN "exited" ELSE "failed"
     IN Emits(<<Msg("child", 0, how)>> \o
              [k \in DOMAIN running |-> Msg("result", running[k], "failed")])
  /\ running' = <<>>
  /\ UNCHANGED <<host, pending, outcome, runs, said, heard>>

Incoming ==
  /\ child.state = "ready" /\ said < MaxIncoming
  /\ said' = said + 1
  /\ Emits(<<Msg("incoming", said + 1, "ok")>>)
  /\ UNCHANGED <<host, pending, outcome, child, running, runs, heard, faults>>

(* platform.call and platform.open: the runner keeps no ids, a request that *)
(* comes twice is done twice; a child that is not ready refuses.            *)
BeingReads ==
  LET id == Head(link.toBeing)
      rest == Tail(link.toBeing)
  IN /\ link.up /\ link.toBeing # <<>>
     /\ IF child.state = "ready"
        THEN /\ running' = Append(running, id)
             /\ runs' = [runs EXCEPT ![id] = @ + 1]
             /\ link' = [link EXCEPT !.toBeing = rest]
        ELSE /\ link' = [link EXCEPT !.toBeing = rest,
                                     !.toHouse = Append(@, Msg("result", id, "failed"))]
             /\ UNCHANGED <<running, runs>>
     /\ UNCHANGED <<host, pending, outcome, runner, child, said, heard, faults>>

ChildAnswers(k) ==
  LET id == running[k] IN
  /\ running' = RemoveAt(running, k)
  /\ child' = IF id \in Opens THEN [child EXCEPT !.open = TRUE, !.again = FALSE] ELSE child
  /\ Emits(<<Msg("result", id, "ok")>>)
  /\ UNCHANGED <<host, pending, outcome, runs, said, heard, faults>>

(* The reseat poll: the connection is back, a hello for a ready child, then *)
(* the buffer.                                                              *)
Poll ==
  /\ child.state # "none" /\ link.up # runner.wasLive
  /\ IF link.up
     THEN /\ link' = [link EXCEPT !.toHouse =
                        @ \o (IF child.state = "ready" THEN <<Hello>> ELSE <<>>) \o runner.buffer]
          /\ runner' = [wasLive |-> TRUE, buffer |-> <<>>]
     ELSE runner' = [runner EXCEPT !.wasLive = FALSE] /\ UNCHANGED link
  /\ UNCHANGED <<host, pending, outcome, child, running, runs, said, heard, faults>>

----------------------------------------------------------------------------
(* The connection. Its end loses what is on its way, the last of what came *)
(* may still be read. The client waits out a backoff as long as the poll's *)
(* interval, so the poll sees the gap, and the house seats no second       *)
(* connection while it has one.                                            *)
Drop ==
  /\ link.up /\ Fault
  /\ \E kept \in {<<>>, link.toHouse} :
       link' = [up |-> FALSE, closing |-> TRUE, toHouse |-> kept, toBeing |-> <<>>]
  /\ UNCHANGED <<host, pending, outcome, runner, child, running, runs, said, heard>>
Connect ==
  /\ ~link.up /\ ~link.closing /\ ~runner.wasLive
  /\ IF child.state = "none"
     THEN /\ link' = Fresh(<<Starting>>)
          /\ runner' = [wasLive |-> TRUE, buffer |-> <<>>]
          /\ child' = [child EXCEPT !.state = "starting"]
     ELSE link' = Fresh(<<>>) /\ UNCHANGED <<runner, child>>
  /\ UNCHANGED <<host, pending, outcome, running, runs, said, heard, faults>>

(* The being's container restarts: runner and child begin anew with the     *)
(* next connection.                                                         *)
BeingRestarts ==
  /\ Fault
  /\ link' = [link EXCEPT !.up = FALSE, !.closing = link.up \/ @, !.toBeing = <<>>]
  /\ runner' = [wasLive |-> FALSE, buffer |-> <<>>]
  /\ child' = [state |-> "none", open |-> FALSE, again |-> FALSE]
  /\ running' = <<>>
  /\ UNCHANGED <<host, pending, outcome, runs, said, heard>>

----------------------------------------------------------------------------
(* The house. request() and callTool: a result is awaited under a timer.   *)
Callable == host.state = "ready"
NextCall == CHOOSE id \in 1..MaxCalls :
              outcome[id] = "new" /\ \A j \in 1..(id - 1) : outcome[j] # "new"

CallTool ==
  /\ \E id \in 1..MaxCalls : outcome[id] = "new"
  /\ \/ /\ ~Callable
        /\ outcome' = [outcome EXCEPT ![NextCall] = "not-ready"]
        /\ UNCHANGED <<pending, link>>
     \/ /\ Callable /\ ~host.wire
        /\ outcome' = [outcome EXCEPT ![NextCall] = "no-seat"]
        /\ UNCHANGED <<pending, link>>
     \/ /\ Callable /\ host.wire
        /\ outcome' = [outcome EXCEPT ![NextCall] = "pending"]
        /\ pending' = [id \in DOMAIN pending \cup {NextCall} |->
                        IF id = NextCall THEN [timer |-> TRUE, retried |-> FALSE] ELSE pending[id]]
        /\ link' = IF link.up THEN [link EXCEPT !.toBeing = Append(@, NextCall)] ELSE link
  /\ UNCHANGED <<host, runner, child, running, runs, said, heard, faults>>

TimesOut(id) ==
  /\ pending[id].timer
  /\ pending' = Without({id})
  /\ outcome' = [outcome EXCEPT ![id] = "timeout"]
  /\ host' = IF id = host.opening THEN [host EXCEPT !.opening = 0] ELSE host
  /\ UNCHANGED <<link, runner, child, running, runs, said, heard, faults>>

(* wireDetached: a call that was not retried is parked without its timer;  *)
(* the rest is rejected; the state stays; nothing is open or known any     *)
(* more.                                                                   *)
Parked(id) == id \in DOMAIN pending /\ ~pending[id].timer
(* Mutation of Parks: a call that was retried is parked too. *)
ParksAgain(id) == id \notin Opens
Parks(id) == id \notin Opens /\ ~pending[id].retried
Detached(h) == [h EXCEPT !.wire = FALSE, !.known = FALSE, !.open = FALSE, !.opening = 0]

HouseSeesClose ==
  LET over == {id \in DOMAIN pending : ~Parks(id)} IN
  /\ link.closing
  /\ link' = [link EXCEPT !.closing = FALSE, !.toHouse = <<>>]
  /\ pending' = [id \in DOMAIN pending \ over |-> [pending[id] EXCEPT !.timer = FALSE]]
  /\ outcome' = [id \in Ids |-> IF id \in over THEN "detached" ELSE outcome[id]]
  /\ host' = Detached(host)
  /\ child' = [child EXCEPT !.again = FALSE]
  /\ UNCHANGED <<runner, running, runs, said, heard, faults>>

(* receive: what each message of the being does. openStandingRooms asks    *)
(* for the room unless it is open or being opened.                         *)
(* retryParkedCalls goes through the map in the order of its requests: the *)
(* one ascending sequence of what is parked.                               *)
(* Mutation of Retried: a hello retries nothing. *)
NoneRetried == {<<>>}
Retried == LET P == {id \in DOMAIN pending : Parked(id)} IN
  {s \in [1 .. Cardinality(P) -> P] : \A i, j \in DOMAIN s : i < j => s[i] < s[j]}
MayOpen(h) == h.known /\ ~h.open /\ h.opening = 0 /\ \E id \in Opens : outcome[id] = "new"
NextOpen == CHOOSE id \in Opens :
              outcome[id] = "new" /\ \A j \in Opens : j < id => outcome[j] # "new"

(* A hello or a list of channels: retries first, then the standing room.   *)
Greeted(h, retries) ==
  LET opens == IF MayOpen(h) THEN <<NextOpen>> ELSE <<>>
      out == retries \o opens
  IN /\ host' = IF MayOpen(h) THEN [h EXCEPT !.opening = NextOpen] ELSE h
     /\ pending' = [id \in DOMAIN pending \cup ToSet(out) |->
                      IF id \in ToSet(retries) THEN [timer |-> TRUE, retried |-> TRUE]
                      ELSE IF id \in ToSet(opens) THEN [timer |-> TRUE, retried |-> FALSE]
                      ELSE pending[id]]
     /\ outcome' = [id \in Ids |-> IF id \in ToSet(opens) THEN "pending" ELSE outcome[id]]
     /\ link' = [link EXCEPT !.toHouse = Tail(@),
                             !.toBeing = IF link.up THEN @ \o out ELSE @]

ChildState(how) == IF how = "exited" THEN "stopped" ELSE IF how = "failed" THEN "crashed" ELSE how

HouseReads ==
  LET m == Head(link.toHouse)
      armed == [host EXCEPT !.wire = TRUE]
      rest == [link EXCEPT !.toHouse = Tail(@)]
  IN /\ link.toHouse # <<>>
     /\ \/ /\ m.type = "hello"
           /\ \E retries \in Retried : Greeted([armed EXCEPT !.state = "ready", !.known = TRUE], retries)
           /\ UNCHANGED heard
        \/ /\ m.type = "child"
           /\ host' = [armed EXCEPT !.state = ChildState(m.ok)] /\ link' = rest
           /\ UNCHANGED <<pending, outcome, heard>>
        \/ /\ m.type = "incoming"
           /\ heard' = Append(heard, m.id) /\ host' = armed /\ link' = rest
           /\ UNCHANGED <<pending, outcome>>
        \/ /\ m.type = "result" /\ m.id \in DOMAIN pending
           /\ pending' = Without({m.id})
           /\ outcome' = [outcome EXCEPT ![m.id] = m.ok]
           /\ host' = IF m.id = host.opening
                      THEN [armed EXCEPT !.opening = 0, !.open = m.ok = "ok"] ELSE armed
           /\ link' = rest /\ UNCHANGED heard
        \/ /\ m.type = "result" /\ m.id \notin DOMAIN pending
           /\ host' = armed /\ link' = rest
           /\ UNCHANGED <<pending, outcome, heard>>
     /\ UNCHANGED <<runner, child, running, runs, said, faults>>

Next ==
  \/ ChildReady \/ ChildExits \/ Incoming \/ BeingReads \/ Poll
  \/ \E k \in DOMAIN running : ChildAnswers(k)
  \/ Drop \/ Connect \/ BeingRestarts
  \/ CallTool \/ HouseSeesClose \/ HouseReads
  \/ \E id \in DOMAIN pending : TimesOut(id)

(* Both processes go on: what has arrived is read, timers fire, a client   *)
(* that lost its connection tries again, a child that exited is restarted. *)
Fairness ==
  /\ WF_vars(ChildReady) /\ WF_vars(BeingReads) /\ WF_vars(Poll) /\ WF_vars(Connect)
  /\ WF_vars(HouseSeesClose) /\ WF_vars(HouseReads)
  /\ \A id \in Ids : WF_vars(id \in DOMAIN pending /\ TimesOut(id))

Spec == Init /\ [][Next]_vars /\ Fairness
----------------------------------------------------------------------------
(* The state of both sides is what their handlers write, and a request is  *)
(* pending in the house's map exactly while its promise is open.           *)
TypeOK ==
  /\ host.state \in {"waiting", "starting", "ready", "stopped", "crashed"}
  /\ host.opening \in {0} \cup (Opens \cap DOMAIN pending)
  /\ \A id \in Ids : outcome[id] = "pending" <=> id \in DOMAIN pending
  /\ Len(runner.buffer) <= Cap
  /\ child.state \in {"none", "starting", "ready", "crashed"}

(* One retry: whatever breaks, and however late its first result, a tool   *)
(* call is done twice at most, and the opening of a room once              *)
(* (remote-host.mjs, retryParkedCalls and wireDetached).                   *)
DoneTwiceAtMost == \A id \in Ids : runs[id] <= IF id \in Opens THEN 1 ELSE 2

(* Everything that was sent has been read. *)
Quiet ==
  /\ link.up /\ ~link.closing /\ runner.wasLive /\ runner.buffer = <<>>
  /\ link.toHouse = <<>> /\ link.toBeing = <<>> /\ running = <<>>

(* After a reattachment the house never takes a room for open that the     *)
(* being's child has not opened (28-reattach-gaps): only a child that      *)
(* restarts under the same connection slips by.                            *)
OpenIsOpen == Quiet /\ host.open /\ child.state = "ready" => child.open
OpenAfterReattach == child.again \/ OpenIsOpen

(* The three in one, for a run of several parts.                           *)
RemoteSound == TypeOK /\ DoneTwiceAtMost /\ OpenAfterReattach

(* A call that was sent is settled: by its result, its timer, or a hello   *)
(* that retries it.                                                        *)
CallsSettle == \A id \in Ids : outcome[id] = "pending" ~> outcome[id] \in Settled

(* remote-host.mjs, on the state "waiting": between two attachments a call *)
(* is refused as not ready.                                                *)
RefusedBetween == \A id \in Ids : outcome[id] # "no-seat"

(* platform-runner.mjs, flushBuffer: the runner never reorders.            *)
NeverReorders == \A i, j \in DOMAIN heard : i < j => heard[i] < heard[j]

(* What the house believes of the child is so once everything was read.    *)
ReadyIsKnown == Quiet /\ child.state = "ready" => host.state = "ready"
============================================================================
