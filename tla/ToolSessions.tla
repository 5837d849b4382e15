----------------------------- MODULE ToolSessions ----------------------------
(***************************************************************************)
(* The shell sessions a being keeps in its own container: the registry of  *)
(* walker-local-tools.mjs, its limit, its kills and its pruning, and the   *)
(* calls of a round that use it, which walk-turn.mjs runs side by side.    *)
(* The processes are external: each runs until it ends, by itself or by a  *)
(* signal it heeds.  A call is used once.                                  *)
(***************************************************************************)
EXTENDS Naturals, FiniteSets, FiniteSetsExt

CONSTANTS Calls, MAX_CONCURRENT, MaxSpawns   \* MaxSpawns bounds the sessions

VARIABLES
  proc,     \* of each session: none, runs, exited
  listed,   \* registry.sessions
  old,      \* the sessions that started more than FINISHED_TTL_MS ago
  sent,     \* the last signal sent to its process group
  grace,    \* the sessions whose five seconds after a SIGTERM are running
  call,     \* a call: [at, on, late, long, said]; long: its own timeout exceeds FINISHED_TTL_MS
  crashed   \* an exception in a timer has ended the walker's process

sessionsVars == <<proc, listed, old, sent, grace, call, crashed>>
Sessions == 1 .. MaxSpawns
Idle == [at |-> "idle", on |-> 0, late |-> FALSE, long |-> FALSE, said |-> ""]
At(where, id, long) == [at |-> where, on |-> id, late |-> FALSE, long |-> long, said |-> ""]
Answers(c, id, what) == call' = [call EXCEPT ![c] = [@ EXCEPT !.at = "said", !.on = id, !.said = what]]

Init ==
  /\ proc = [id \in Sessions |-> "none"] /\ listed = {} /\ old = {}
  /\ sent = [id \in Sessions |-> ""] /\ grace = {}
  /\ call = [c \in Calls |-> Idle] /\ crashed = FALSE

Running == {id \in Sessions : proc[id] = "runs"}
Unfinished == {id \in listed : proc[id] # "exited"}
Asks(c) == ~crashed /\ call[c].at = "idle"

-----------------------------------------------------------------------------
(* terminal: the registry's spawn, and then the wait for its exit unless   *)
(* the command is to run in the background.                                *)
Terminal(c, background, long) ==
  /\ Asks(c)
  /\ \/ /\ Cardinality(Unfinished) >= MAX_CONCURRENT /\ Answers(c, 0, "Error")
        /\ UNCHANGED <<proc, listed>>
     \/ /\ Cardinality(Unfinished) < MAX_CONCURRENT /\ \E id \in Sessions : proc[id] = "none"
        /\ LET id == Min({i \in Sessions : proc[i] = "none"}) IN
             /\ proc' = [proc EXCEPT ![id] = "runs"] /\ listed' = listed \cup {id}
             /\ IF background THEN Answers(c, id, "running")
                ELSE call' = [call EXCEPT ![c] = At("waits", id, long)]
  /\ UNCHANGED <<old, sent, grace, crashed>>
(* kill: SIGTERM to the group, SIGKILL five seconds later.                 *)
Kill(id) ==
  IF proc[id] = "exited" THEN UNCHANGED <<sent, grace>>
  ELSE /\ sent' = [sent EXCEPT ![id] = "TERM"] /\ grace' = grace \cup {id}
GraceEnds(id) ==
  /\ ~crashed /\ id \in grace /\ grace' = grace \ {id}
  /\ sent' = IF proc[id] = "exited" THEN sent ELSE [sent EXCEPT ![id] = "KILL"]
  /\ UNCHANGED <<proc, listed, old, call, crashed>>
(* waitForExit's check, every 200 ms: poll throws for a session that is no *)
(* longer there, and nothing catches what a timer throws.                  *)
Checks(c) ==
  /\ ~crashed /\ call[c].at = "waits"
  /\ LET id == call[c].on IN
       \/ id \notin listed /\ crashed' = TRUE /\ UNCHANGED <<call, sent, grace>>
       \/ /\ id \in listed /\ proc[id] = "exited" /\ Answers(c, id, "exit code")
          /\ UNCHANGED <<sent, grace, crashed>>
       \/ /\ id \in listed /\ proc[id] = "runs" /\ call[c].late
          /\ Kill(id) /\ Answers(c, id, "killed") /\ UNCHANGED crashed
  /\ UNCHANGED <<proc, listed, old>>
TimeoutPasses(c) ==
  /\ ~crashed /\ call[c].at = "waits" /\ ~call[c].late
  /\ call[c].long => call[c].on \in old
  /\ call' = [call EXCEPT ![c].late = TRUE]
  /\ UNCHANGED <<proc, listed, old, sent, grace, crashed>>

-----------------------------------------------------------------------------
(* process: poll and log tell how a session stands; submit writes to one   *)
(* and polls it half a second later; kill.                                 *)
Polls(c, id) ==
  /\ Asks(c) /\ Answers(c, id, IF id \notin listed THEN "Error" ELSE proc[id])
  /\ UNCHANGED <<proc, listed, old, sent, grace, crashed>>
Submits(c, id) ==
  /\ Asks(c)
  /\ IF id \notin listed \/ proc[id] = "exited" THEN Answers(c, id, "Error")
     ELSE call' = [call EXCEPT ![c] = At("submitted", id, FALSE)]
  /\ UNCHANGED <<proc, listed, old, sent, grace, crashed>>
AfterSubmit(c) ==
  /\ ~crashed /\ call[c].at = "submitted"
  /\ Answers(c, call[c].on, IF call[c].on \notin listed THEN "Error" ELSE proc[call[c].on])
  /\ UNCHANGED <<proc, listed, old, sent, grace, crashed>>
Kills(c, id) ==
  /\ Asks(c)
  /\ IF id \notin listed THEN Answers(c, id, "Error") /\ UNCHANGED <<sent, grace>>
     ELSE Kill(id) /\ Answers(c, id, "terminated")
  /\ UNCHANGED <<proc, listed, old, crashed>>

-----------------------------------------------------------------------------
Exits(id) ==
  /\ proc[id] = "runs" /\ proc' = [proc EXCEPT ![id] = "exited"]
  /\ UNCHANGED <<listed, old, sent, grace, call, crashed>>
(* A call whose timeout is shorter is long over by then, and half a second *)
(* after a submit as well, unless it fell at the very end.                 *)
Ages(id) ==
  /\ proc[id] # "none" /\ id \notin old /\ old' = old \cup {id}
  /\ \A c \in Calls : (call[c].at = "waits" /\ call[c].on = id) => call[c].long
  /\ UNCHANGED <<proc, listed, sent, grace, call, crashed>>
PruneFinished ==
  /\ ~crashed /\ listed' = {id \in listed : proc[id] # "exited" \/ id \notin old}
  /\ UNCHANGED <<proc, old, sent, grace, call, crashed>>

Next ==
  \/ \E c \in Calls, background, long \in BOOLEAN : Terminal(c, background, long)
  \/ \E c \in Calls : Checks(c) \/ TimeoutPasses(c) \/ AfterSubmit(c)
  \/ \E c \in Calls, id \in Sessions : Polls(c, id) \/ Submits(c, id) \/ Kills(c, id)
  \/ \E id \in Sessions : GraceEnds(id) \/ Exits(id) \/ Ages(id)
  \/ PruneFinished
Spec == Init /\ [][Next]_sessionsVars

-----------------------------------------------------------------------------
(* What runs can be found and killed, and is never more than the limit.    *)
RunningIsListed == Running \subseteq listed /\ Cardinality(Running) <= MAX_CONCURRENT
(* What a being is told: an exit code of a process that has ended; killed  *)
(* of one that was sent the signal, or was gone before; and one that was   *)
(* asked to end and has not is going to be killed.                         *)
ToldTruly ==
  /\ \A c \in Calls :
       /\ call[c].said = "exit code" => proc[call[c].on] = "exited"
       /\ call[c].said \in {"killed", "terminated"} => (sent[call[c].on] # "" \/ proc[call[c].on] = "exited")
  /\ \A id \in Running : sent[id] = "TERM" => id \in grace
(* Only a call that waits longer than finished sessions are kept can find  *)
(* its own gone, which ends the walker's process.                          *)
WaitedForIsListed ==
  /\ \A c \in Calls : call[c].at = "waits" => (call[c].on \in listed \/ call[c].long)
  /\ crashed => \E c \in Calls : call[c].long
SessionsSound == RunningIsListed /\ ToldTruly /\ WaitedForIsListed

(* "A being's background sessions live as long as its container"           *)
(* (walker-local-tools.mjs:342-343): they end with the walker's process,   *)
(* which a session pruned under its waiter ends, for pruneFinished counts  *)
(* from a session's start (130).                                           *)
NeverCrashes == ~crashed
(* What was written to a session is answered as submitted.                 *)
SubmittedIsTold == [][\A c \in Calls : call[c].at = "submitted" => call'[c].said # "Error"]_sessionsVars
=============================================================================
