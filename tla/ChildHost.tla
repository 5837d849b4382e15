---------------------------- MODULE ChildHost ----------------------------
(* A platform's server as a child process of the house (mcpl/host.mjs; the *)
(* being's own mcpl/child.mjs has the same shape): spawning, the handshake *)
(* and its grant, the standing rooms, exits, the restart timer, the        *)
(* keeper's restart and the stop of the seat.                              *)
EXTENDS Naturals, Sequences, FiniteSets, FiniteSetsExt

CONSTANTS Streams,    \* the standing rooms, 1..n in the order they are opened
          MaxFaults   \* bounds exits, failed steps, restarts and stops

VARIABLES
  st,       \* [state, stopped, timer, wire]: wire is the child in use, or 0
  kids,     \* the children, in the order they were spawned
  rooms,    \* [channels, open, opening, loops] of openStandingRooms
  faults

vars == <<st, kids, rooms, faults>>

NoRooms == [channels |-> {}, open |-> {}, opening |-> {}, loops |-> <<>>]
Kid     == [up |-> TRUE, shut |-> FALSE, stage |-> "init", opened |-> {}]

Gone    == [up |-> FALSE, shut |-> TRUE, stage |-> "done", opened |-> {}]

Init ==
  /\ st = [state |-> "starting", stopped |-> FALSE, timer |-> FALSE, wire |-> 1]
  /\ kids = <<Kid>> /\ rooms = NoRooms /\ faults = 0

Fault == faults < MaxFaults /\ faults' = faults + 1
Live(s, k) == s.wire # 0 /\ ~k[s.wire].shut     \* not connected, otherwise

----------------------------------------------------------------------------
(* openStandingRooms goes on to the first stream that is registered, and   *)
(* neither open nor being opened; with no connection each one fails.       *)
Onward(r, live, kid, todo) ==
  LET due == {s \in todo : s \in r.channels /\ s \notin r.open \cup r.opening}
  IN IF due = {} \/ ~live THEN r
     ELSE [r EXCEPT !.opening = @ \cup {Min(due)},
                    !.loops = Append(@, [kid |-> kid, at |-> Min(due), phase |-> "asked",
                                         todo |-> {s \in todo : s > Min(due)}])]
Less(loops, k) == SubSeq(loops, 1, k - 1) \o SubSeq(loops, k + 1, Len(loops))
Ended(r, k) == [r EXCEPT !.opening = @ \ {r.loops[k].at}, !.loops = Less(@, k)]

(* What a closed connection does to the loops that wait for its answer:    *)
(* each fails; those in the middle of a history go on.                     *)
Asking(r, p) == {k \in DOMAIN r.loops : r.loops[k].kid = p /\ r.loops[k].phase = "asked"}
Nth(S, k) == CHOOSE i \in S : Cardinality({j \in S : j <= i}) = k
Kept(loops, S) == [k \in 1 .. Cardinality(S) |-> loops[Nth(S, k)]]
Cut(r, p) ==
  [r EXCEPT !.opening = @ \ {r.loops[k].at : k \in Asking(r, p)},
            !.loops = Kept(@, DOMAIN @ \ Asking(r, p))]

(* connect: nothing once stopped; else a new child, with nothing open.     *)
(* Mutation of Cleared: what was open stays so. *)
ClearedNothing(r) == [r EXCEPT !.channels = {}, !.opening = {}]
Cleared(r) == [r EXCEPT !.channels = {}, !.open = {}, !.opening = {}]
Connects(s, r) ==
  IF s.stopped THEN st' = s /\ rooms' = r /\ UNCHANGED kids
  ELSE /\ kids' = Append(kids, Kid)
       /\ st' = [s EXCEPT !.state = "starting", !.wire = Len(kids) + 1]
       /\ rooms' = Cleared(r)
(* scheduleRestart. *)
Scheduled(s) == IF s.stopped THEN s ELSE [s EXCEPT !.timer = TRUE]
SpawnThrows ==
  /\ st.timer /\ Fault
  /\ st' = Scheduled([st EXCEPT !.state = "crashed"]) /\ rooms' = Cleared(rooms)
  /\ UNCHANGED kids

(* Mutation of Disarmed: the timer's flag is left set. *)
DisarmedNot(s) == s
Disarmed(s) == [s EXCEPT !.timer = FALSE]
TimerFires ==
  /\ st.timer /\ st.wire = 0
  /\ Connects(Disarmed(st), rooms)
  /\ UNCHANGED faults

----------------------------------------------------------------------------
(* The handshake of the child in use. *)
At(stage) == Live(st, kids) /\ kids[st.wire].up /\ kids[st.wire].stage = stage
To(stage) == kids' = [kids EXCEPT ![st.wire].stage = stage]

AnswersInit ==
  /\ At("init")
  /\ \/ To("grant") /\ UNCHANGED st
     \/ To("done") /\ st' = [st EXCEPT !.state = "mcp-only"]
  /\ UNCHANGED <<rooms, faults>>
AnswersGrant ==
  /\ At("grant")
  /\ \/ To("tools") /\ st' = [st EXCEPT !.state = "ready"] /\ UNCHANGED <<rooms, faults>>
     \/ To("done") /\ st' = [st EXCEPT !.state = "mcp-only"] /\ UNCHANGED <<rooms, faults>>
     \/ /\ Fault                                   \* fallback: close
        /\ kids' = [kids EXCEPT ![st.wire].stage = "done", ![st.wire].shut = TRUE]
        /\ st' = [st EXCEPT !.state = "stopped", !.stopped = TRUE]
        /\ rooms' = Cut(rooms, st.wire)
(* tools/list may fail: the rooms are opened all the same.                 *)
AnswersTools ==
  /\ At("tools") /\ To("done")
  /\ rooms' = Onward(rooms, TRUE, st.wire, Streams)
  /\ UNCHANGED <<st, faults>>
HandshakeFails ==
  /\ At("init") \/ At("grant")
  /\ Fault
  /\ kids' = [kids EXCEPT ![st.wire].stage = "done", ![st.wire].shut = TRUE]
  /\ rooms' = Cut(rooms, st.wire)
  /\ UNCHANGED st

----------------------------------------------------------------------------
(* Channels come and go at any time; a registration opens what it can.     *)
Registers(s) ==
  /\ Live(st, kids) /\ kids[st.wire].up /\ s \notin rooms.channels
  /\ rooms' = Onward([rooms EXCEPT !.channels = @ \cup {s}], TRUE, st.wire, Streams)
  /\ UNCHANGED <<st, kids, faults>>
Removes(s) ==
  /\ Live(st, kids) /\ kids[st.wire].up /\ s \in rooms.channels /\ Fault
  /\ rooms' = [rooms EXCEPT !.channels = @ \ {s}, !.open = @ \ {s}]
  /\ UNCHANGED <<st, kids>>

(* The child opens a channel; the house hands on its history, which takes  *)
(* as long as the room's messages do.                                      *)
Opened(k) ==
  LET l == rooms.loops[k] IN
  /\ l.phase = "asked" /\ kids[l.kid].up /\ ~kids[l.kid].shut
  /\ kids' = [kids EXCEPT ![l.kid].opened = @ \cup {l.at}]
  /\ rooms' = [rooms EXCEPT !.open = @ \cup {l.at}, !.loops[k].phase = "history"]
  /\ UNCHANGED <<st, faults>>
NotOpened(k) ==
  LET l == rooms.loops[k] IN
  /\ l.phase = "asked" /\ kids[l.kid].up /\ ~kids[l.kid].shut /\ Fault
  /\ rooms' = Onward(Ended(rooms, k), TRUE, st.wire, l.todo)
  /\ UNCHANGED <<st, kids>>
HistoryDone(k) ==
  LET l == rooms.loops[k] IN
  /\ l.phase = "history"
  /\ rooms' = Onward(Ended(rooms, k), Live(st, kids), st.wire, l.todo)
  /\ UNCHANGED <<st, kids, faults>>

----------------------------------------------------------------------------
(* A child exits, by itself or because its connection was closed. *)
Exits(p) ==
  /\ kids[p].up
  /\ IF kids[p].shut THEN UNCHANGED faults ELSE Fault
  /\ kids' = [kids EXCEPT ![p] = Gone]
  /\ rooms' = Cut(rooms, p)
  /\ st' = IF st.wire # p THEN st
           ELSE IF st.stopped THEN [st EXCEPT !.wire = 0, !.state = "stopped"]
           ELSE Scheduled([st EXCEPT !.wire = 0, !.state = "crashed"])

(* restart: timer and child are dropped, and a new child is connected. *)
Restarts(s) == [s EXCEPT !.timer = FALSE, !.wire = 0]
KeeperRestarts ==
  /\ Fault
  /\ LET shut == [p \in DOMAIN kids |-> IF p = st.wire THEN [kids[p] EXCEPT !.shut = TRUE, !.stage = "done"]
                                        ELSE kids[p]]
         s == Restarts(st)
     IN IF s.stopped
        THEN st' = s /\ kids' = shut /\ rooms' = Cut(rooms, st.wire)
        ELSE /\ kids' = Append(shut, Kid)
             /\ st' = [s EXCEPT !.state = "starting", !.wire = Len(kids) + 1]
             /\ rooms' = Cleared(Cut(rooms, st.wire))
Stops ==
  /\ ~st.stopped /\ Fault
  /\ st' = [st EXCEPT !.stopped = TRUE, !.timer = FALSE, !.state = "stopped"]
  /\ kids' = [p \in DOMAIN kids |-> IF p = st.wire THEN [kids[p] EXCEPT !.shut = TRUE, !.stage = "done"]
                                    ELSE kids[p]]
  /\ rooms' = Cut(rooms, st.wire)

Handshake == AnswersInit \/ AnswersGrant \/ AnswersTools
Next ==
  \/ Handshake \/ HandshakeFails \/ SpawnThrows \/ TimerFires
  \/ \E s \in Streams : Registers(s) \/ Removes(s)
  \/ \E k \in DOMAIN rooms.loops : Opened(k) \/ NotOpened(k) \/ HistoryDone(k)
  \/ \E p \in DOMAIN kids : Exits(p)
  \/ KeeperRestarts \/ Stops

(* Timers fire, a child whose connection was closed exits (SIGTERM), and a *)
(* request is answered or fails by its own time limit.                     *)
Fairness ==
  /\ WF_vars(TimerFires) /\ WF_vars(Handshake)
  /\ \A p \in 1..(MaxFaults + 1) :
       WF_vars(p \in DOMAIN kids /\ kids[p].shut /\ Exits(p))
Spec == Init /\ [][Next]_vars /\ Fairness
----------------------------------------------------------------------------
(* However exits, the timer and the keeper's restart cross, the house      *)
(* talks to one child: every other was told to end, and no timer is armed  *)
(* beside it (scheduleRestart, connect, restart of host.mjs).              *)
OneChild ==
  /\ \A p \in DOMAIN kids : kids[p].up /\ ~kids[p].shut => st.wire = p
  /\ st.timer => st.wire = 0

(* What the house takes for open the present child has opened: no room is *)
(* passed over after a restart because an earlier child had it open.      *)
OpenIsTheChilds == st.wire # 0 => rooms.open \subseteq kids[st.wire].opened

Sound == OneChild /\ OpenIsTheChilds

(* Once the faults cease the server is up again, unless it was stopped.    *)
ComesBack == <>[](st.stopped \/ st.state \in {"ready", "mcp-only"})

(* host.mjs, on a grant refused with "close": a keeper restart is the way *)
(* back.                                                                   *)
RestartRevives == [][KeeperRestarts => st'.wire # 0]_vars
============================================================================
