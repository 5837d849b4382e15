---------------------------- MODULE WalkerTurns ----------------------------
(***************************************************************************)
(* A being's walker and the house, over a seat that stays up: turns begun  *)
(* in several rooms, run at most Cap at a time and queued past that, their *)
(* tool calls carried out by the house, and the house's `!stop`.           *)
(*                                                                         *)
(* The house closes an interrupted turn at once and may begin another in   *)
(* the room; the walker hears of either later, and the stopped turn ends   *)
(* there only when its model stream is next read, which a tool call still  *)
(* without its result keeps from happening.  Of a turn the model keeps     *)
(* what it waits for; of its messages, the turn's own events are left out, *)
(* since they change nothing here.                                         *)
(***************************************************************************)
EXTENDS Naturals, Sequences, FiniteSets, SequencesExt

CONSTANTS
  Rooms,
  Cap,           \* --max-concurrent
  Deadline,      \* the model is a local one, with turnDeadlineMs of its own
  MaxTurns, MaxCalls, MaxStops   \* bounds of the instance

ASSUME WalkerAssumption ==
  /\ Cap \in Nat \ {0} /\ Deadline \in BOOLEAN
  /\ MaxTurns \in Nat /\ MaxCalls \in Nat /\ MaxStops \in Nat

Turns == 1 .. MaxTurns
NoTurn == 0

VARIABLES
  open,       \* the house: rec.turns' entry for the being, per room
  executing,  \* the house: turns whose tool.exec is being carried out
  room,       \* the room of each turn begun so far
  toWalker, toHouse,   \* the seat, each way
  runs,       \* the walker: how far each turn has come
  cancels,    \* the walker: whose cancel function each room holds
  queue,      \* the walker: turns past the cap
  stops

vars == <<open, executing, room, toWalker, toHouse, runs, cancels, queue, stops>>
houseState == <<open, executing, room, stops>>

(* A turn streams, or waits for its tool's result; `held` while startTurn  *)
(* has not let its slot go.                                                *)
Run == [at : {"unseen", "queued", "streaming", "calling", "ended"},
        cancelled : BOOLEAN, byHouse : BOOLEAN, held : BOOLEAN, calls : Nat]

Unseen == [at |-> "unseen", cancelled |-> FALSE, byHouse |-> FALSE, held |-> FALSE, calls |-> 0]

Init ==
  /\ open = [r \in Rooms |-> NoTurn] /\ executing = {}
  /\ room = <<>> /\ toWalker = <<>> /\ toHouse = <<>>
  /\ runs = [t \in Turns |-> Unseen]
  /\ cancels = [r \in Rooms |-> NoTurn]
  /\ queue = <<>> /\ stops = 0

Running(t) == runs[t].at \in {"streaming", "calling"}

-----------------------------------------------------------------------------
(* The house.                                                              *)

HouseBegins(r) ==
  /\ open[r] = NoTurn /\ Len(room) < MaxTurns
  /\ room' = Append(room, r)
  /\ open' = [open EXCEPT ![r] = Len(room) + 1]
  /\ toWalker' = Append(toWalker, <<"turn.begin", Len(room) + 1>>)
  /\ UNCHANGED <<executing, toHouse, runs, cancels, queue, stops>>

(* applyInterrupt                                                          *)
HouseStops(r) ==
  /\ open[r] # NoTurn /\ stops < MaxStops
  /\ stops' = stops + 1
  /\ toWalker' = Append(toWalker, <<"interrupt", r>>)
  /\ open' = [open EXCEPT ![r] = NoTurn]
  /\ UNCHANGED <<executing, room, toHouse, runs, cancels, queue>>

(* handleSeatMessage: what names a turn that is not open is ignored.       *)
HouseReads ==
  /\ toHouse # <<>>
  /\ toHouse' = Tail(toHouse)
  /\ LET type == Head(toHouse)[1]
         t == Head(toHouse)[2]
         ours == open[room[t]] = t
     IN  /\ executing' = IF ours /\ type = "tool.exec" THEN executing \cup {t} ELSE executing
         /\ open' = IF ours /\ type = "end" THEN [open EXCEPT ![room[t]] = NoTurn] ELSE open
  /\ UNCHANGED <<room, toWalker, runs, cancels, queue, stops>>

(* handleToolExec's answer, whether or not the turn is still open.         *)
ToolFinishes(t) ==
  /\ t \in executing
  /\ executing' = executing \ {t}
  /\ toWalker' = Append(toWalker, <<"tool.result", t>>)
  /\ UNCHANGED <<open, room, toHouse, runs, cancels, queue, stops>>

-----------------------------------------------------------------------------
(* The walker.                                                             *)

InFlight == {r \in Rooms : cancels[r] # NoTurn}   \* cancels' keys

AtCap == Cardinality(InFlight) >= Cap

Started(t) == [Unseen EXCEPT !.at = "streaming", !.held = TRUE]

Cancelled(run, house) == [run EXCEPT !.cancelled = TRUE, !.byHouse = @ \/ house]

(* Mutation of Stopped: an interrupt cancels every turn that can be.       *)
EveryStopped(r) == {cancels[q] : q \in InFlight}

Stopped(r) == {cancels[q] : q \in InFlight \cap {r}}

QueuedIn(r) == {i \in 1 .. Len(queue) : room[queue[i]] = r}

WithoutQueued(i) == RemoveAt(queue, i)

Admits(t) ==
  /\ IF AtCap
     THEN /\ queue' = Append(queue, t)
          /\ runs' = [runs EXCEPT ![t].at = "queued"]
          /\ UNCHANGED cancels
     ELSE /\ cancels' = [cancels EXCEPT ![room[t]] = t]
          /\ runs' = [runs EXCEPT ![t] = Started(t)]
          /\ UNCHANGED queue

(* The room's cancel function, whichever turn's; else its first queued     *)
(* turn goes.                                                              *)
Interrupts(r) ==
  \/ /\ Stopped(r) # {}
     /\ runs' = [t \in Turns |-> IF t \in Stopped(r) THEN Cancelled(runs[t], TRUE) ELSE runs[t]]
     /\ UNCHANGED <<cancels, queue>>
  \/ /\ Stopped(r) = {} /\ QueuedIn(r) # {}
     /\ LET i == CHOOSE i \in QueuedIn(r) : \A j \in QueuedIn(r) : i <= j
        IN  /\ queue' = WithoutQueued(i)
            /\ runs' = [runs EXCEPT ![queue[i]].at = "ended"]
     /\ UNCHANGED cancels
  \/ /\ Stopped(r) = {} /\ QueuedIn(r) = {}
     /\ UNCHANGED <<runs, cancels, queue>>

(* pending.settle: the turn goes on with its stream.                       *)
Settles(t) ==
  /\ runs' = IF runs[t].at = "calling" THEN [runs EXCEPT ![t].at = "streaming"] ELSE runs
  /\ UNCHANGED <<cancels, queue>>

WalkerReads ==
  /\ toWalker # <<>>
  /\ toWalker' = Tail(toWalker)
  /\ LET type == Head(toWalker)[1]
         what == Head(toWalker)[2]
     IN  \/ type = "turn.begin" /\ Admits(what)
         \/ type = "interrupt" /\ Interrupts(what)
         \/ type = "tool.result" /\ Settles(what)
  /\ UNCHANGED <<houseState, toHouse>>

Calls(t) ==
  /\ runs[t].at = "streaming" /\ ~runs[t].cancelled
  /\ runs[t].calls < MaxCalls
  /\ runs' = [runs EXCEPT ![t].at = "calling", ![t].calls = @ + 1]
  /\ toHouse' = Append(toHouse, <<"tool.exec", t>>)
  /\ UNCHANGED <<houseState, toWalker, cancels, queue>>

(* Mutation of Freed: the room's cancel function goes after the next turn  *)
(* is begun.                                                               *)
FreedAfterwards(t) ==
  [r \in Rooms |-> IF r = room[t] THEN NoTurn
                   ELSE IF queue # <<>> /\ room[Head(queue)] = r THEN Head(queue) ELSE cancels[r]]

(* startTurn's last step: the room's cancel function goes, and the first   *)
(* of the queue is started.                                                *)
Freed(t) ==
  [r \in Rooms |-> IF queue # <<>> /\ room[Head(queue)] = r THEN Head(queue)
                   ELSE IF r = room[t] THEN NoTurn ELSE cancels[r]]

FreesSlot(t, run) ==
  /\ cancels' = Freed(t)
  /\ queue' = IF queue = <<>> THEN <<>> ELSE Tail(queue)
  /\ runs' = [u \in Turns |-> IF u = t THEN [run EXCEPT !.held = FALSE]
                              ELSE IF queue # <<>> /\ Head(queue) = u THEN Started(u) ELSE runs[u]]

(* runTurn returns.  Past its deadline nothing waits for it any more.      *)
Ends(t) ==
  LET run == [runs[t] EXCEPT !.at = "ended"]
  IN  IF run.held THEN FreesSlot(t, run)
      ELSE runs' = [runs EXCEPT ![t] = run] /\ UNCHANGED <<cancels, queue>>

(* turn.done, or the stream's error.                                       *)
Finishes(t) ==
  /\ runs[t].at = "streaming" /\ ~runs[t].cancelled
  /\ toHouse' = Append(toHouse, <<"end", t>>)
  /\ Ends(t)
  /\ UNCHANGED <<houseState, toWalker>>

(* Mutation of TellsHouse: an aborted turn tells the house nothing.        *)
TellsNobody(t) == FALSE

TellsHouse(t) == ~runs[t].byHouse

Aborts(t) ==
  /\ runs[t].at = "streaming" /\ runs[t].cancelled
  /\ toHouse' = IF TellsHouse(t) THEN Append(toHouse, <<"end", t>>) ELSE toHouse
  /\ Ends(t)
  /\ UNCHANGED <<houseState, toWalker>>

(* The idle watchdog, armed at the stream's last event.                    *)
Watchdog(t) ==
  /\ Running(t) /\ ~runs[t].cancelled
  /\ runs' = [runs EXCEPT ![t] = Cancelled(@, FALSE)]
  /\ UNCHANGED <<houseState, toWalker, toHouse, cancels, queue>>

(* A local model's deadline: the room's cancel function is called, the     *)
(* house is told, and the slot let go with the turn still running.         *)
DeadlinePasses(t) ==
  /\ Deadline /\ runs[t].held
  /\ toHouse' = Append(toHouse, <<"end", t>>)
  /\ LET mine == cancels[room[t]]
         expired == IF mine = t THEN Cancelled(runs[t], TRUE) ELSE runs[t]
     IN  IF mine \in {t, NoTurn} THEN FreesSlot(t, expired)
         ELSE /\ cancels' = Freed(t)
              /\ queue' = IF queue = <<>> THEN <<>> ELSE Tail(queue)
              /\ runs' = [u \in Turns |->
                   IF u = t THEN [runs[t] EXCEPT !.held = FALSE]
                   ELSE IF u = mine THEN Cancelled(runs[u], TRUE)
                   ELSE IF queue # <<>> /\ Head(queue) = u THEN Started(u) ELSE runs[u]]
  /\ UNCHANGED <<houseState, toWalker>>

-----------------------------------------------------------------------------
Goes(t) == Calls(t) \/ Finishes(t) \/ Aborts(t)

Next ==
  \/ \E r \in Rooms : HouseBegins(r) \/ HouseStops(r)
  \/ HouseReads
  \/ WalkerReads
  \/ \E t \in Turns : ToolFinishes(t) \/ Goes(t) \/ Watchdog(t) \/ DeadlinePasses(t)

Spec == Init /\ [][Next]_vars

(* Both event loops read what has come, a tool ends, a stream goes on and  *)
(* a deadline passes; nothing says that the house begins or stops a turn.  *)
FairSpec ==
  /\ Spec
  /\ WF_vars(HouseReads) /\ WF_vars(WalkerReads)
  /\ \A t \in Turns : WF_vars(ToolFinishes(t)) /\ WF_vars(Goes(t)) /\ WF_vars(DeadlinePasses(t))

-----------------------------------------------------------------------------
(* The types; and a turn is in the queue, once, as long as it is queued.   *)
TypeOK ==
  /\ open \in [Rooms -> 0 .. MaxTurns]
  /\ executing \subseteq Turns
  /\ room \in Seq(Rooms) /\ Len(room) <= MaxTurns
  /\ toWalker \in Seq(({"turn.begin", "tool.result"} \X Turns) \cup ({"interrupt"} \X Rooms))
  /\ toHouse \in Seq({"tool.exec", "end"} \X Turns)
  /\ runs \in [Turns -> Run]
  /\ cancels \in [Rooms -> 0 .. MaxTurns]
  /\ queue \in Seq(Turns) /\ IsInjective(queue)
  /\ ToSet(queue) = {t \in Turns : runs[t].at = "queued"}
  /\ stops \in Nat

(* A turn the house holds open will be heard of: its turn.begin is on its  *)
(* way, or it is queued, or it runs and will tell the house how it ended,  *)
(* or its end is on its way.  No interrupt, of whichever turn and room,    *)
(* silences it.  (interrupt, queue and cancels; interruptedByHouse.)       *)
OpenTurnsAreHeardOf ==
  \A r \in Rooms : LET t == open[r] IN t # NoTurn =>
    \/ <<"turn.begin", t>> \in ToSet(toWalker)
    \/ runs[t].at = "queued"
    \/ Running(t) /\ ~runs[t].byHouse
    \/ <<"end", t>> \in ToSet(toHouse)

(* walker.mjs:211: "at most `args.maxConcurrent` turns run at once".  (A   *)
(* turn past its deadline is not counted.)                                 *)
CapKept == Cardinality({t \in Turns : runs[t].held}) <= Cap

(* A running turn can be stopped: its room's cancel function is its own.   *)
(* (cancels.set in runTurn, cancels.delete as a turn before it ends.)      *)
RunningCanBeStopped ==
  \A t \in Turns : runs[t].held /\ ~runs[t].cancelled => cancels[room[t]] = t

(* What is counted and what can be stopped are the same turns.             *)
SlotsAndStops == CapKept /\ RunningCanBeStopped

Quiet == open = [r \in Rooms |-> NoTurn] /\ InFlight = {} /\ queue = <<>>

(* Every turn comes to an end at both sides, and its slot is free for the  *)
(* next: nobody waits for the other for good.                              *)
SlotsComeFree == <>[]Quiet

(* docs/harness-port/19-seat-idempotency.md:12: every consumer must "keep  *)
(* a safety timeout for anything gated on a reply that may never come": a  *)
(* turn does not wait for its tool.result for good.                        *)
CallsEnd == \A t \in Turns : runs[t].at = "calling" ~> runs[t].at # "calling"
=============================================================================
