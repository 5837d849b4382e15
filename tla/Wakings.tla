------------------------------- MODULE Wakings -------------------------------
(***************************************************************************)
(* How the beings of one group room come to look in on it on their own     *)
(* (wakings.mjs): each has at most one alarm there, set by itself          *)
(* (wake_me, from whatever room it is in) or once by the house; a tick     *)
(* wakes at most one being whose alarm is due, in a lull of a room that    *)
(* people use.  Alarms and history are files, written as a whole; turns,   *)
(* seats and open rooms are gone when the house restarts.  Time runs in    *)
(* steps of one unit, ages are counted as far as a guard asks.             *)
(***************************************************************************)
EXTENDS Integers, FiniteSets

CONSTANTS
  Sleepers,             \* the eligible beings of the room
  Floor, Ceiling,       \* what wake_me clamps to
  Active, Quiet, Gap,   \* WAKE_ACTIVE_D, WAKE_QUIET_H, WAKE_ROOM_GAP_H
  SeedWithin, Lapse     \* SEED_WITHIN_H, LAPSE_MS

VARIABLES
  alarm,        \* what is left until it is due, below 0 when overdue
  seeded,       \* who had a first waking set by the house
  history,      \* the age of a being's latest entry, up to Gap
  lastHuman, lastAny,   \* roomPulse, as ages
  live,         \* the room is open
  away,         \* the beings without a seat, or hushed
  inTurn,       \* the beings with a turn in the room
  sinceWoken,   \* the age of the room's latest waking, up to Gap; -1 if one came sooner
  chose         \* the beings that set or cleared an alarm here themselves

wakingVars == <<alarm, seeded, history, lastHuman, lastAny, live, away, inTurn, sinceWoken, chose>>

Unset == Ceiling + 1
Set(b) == alarm[b] # Unset
Younger(age, top) == IF age < top THEN age + 1 ELSE top
Disk == <<alarm, seeded, history, chose>>

Init ==
  /\ alarm = [b \in Sleepers |-> Unset]
  /\ seeded = {} /\ history = [b \in Sleepers |-> Gap]
  /\ lastHuman = Active + 1 /\ lastAny = Quiet
  /\ live = TRUE /\ away = {} /\ inTurn = {} /\ sinceWoken = Gap /\ chose = {}

-----------------------------------------------------------------------------
(* A person speaks; whom it addresses, if anyone, has a turn.              *)
HumanSpeaks ==
  /\ lastHuman' = 0 /\ lastAny' = 0 /\ live' = TRUE
  /\ inTurn' \in {inTurn} \cup {inTurn \cup {b} : b \in Sleepers \ away}
  /\ UNCHANGED <<Disk, away, sinceWoken>>

TurnEnds(b, spoke) ==
  /\ b \in inTurn /\ inTurn' = inTurn \ {b}
  /\ lastAny' = IF spoke THEN 0 ELSE lastAny
  /\ UNCHANGED <<Disk, lastHuman, live, away, sinceWoken>>

Clamped(span) == IF span < Floor THEN Floor ELSE IF span > Ceiling THEN Ceiling ELSE span

(* wake_me: "never" clears.                                                *)
WakeMe(b, span) ==
  /\ alarm' = [alarm EXCEPT ![b] = IF span = Unset THEN Unset ELSE Clamped(span)]
  /\ chose' = chose \cup {b}
  /\ UNCHANGED <<seeded, history, lastHuman, lastAny, live, away, inTurn, sinceWoken>>

(* A seat goes or comes back, a hush begins or ends.                       *)
Turns(b) ==
  /\ away' = IF b \in away THEN away \ {b} ELSE away \cup {b}
  /\ inTurn' = inTurn \ {b}
  /\ UNCHANGED <<Disk, lastHuman, lastAny, live, sinceWoken>>

(* The room rests, or the house is restarted: it is opened by what is said *)
(* in it, or when its platform comes up.                                   *)
Closes == /\ live /\ live' = FALSE /\ inTurn' = {}
          /\ UNCHANGED <<Disk, lastHuman, lastAny, away, sinceWoken>>
Opens == /\ ~live /\ live' = TRUE
         /\ UNCHANGED <<Disk, lastHuman, lastAny, away, inTurn, sinceWoken>>

-----------------------------------------------------------------------------
(* tickWakings, in one go.                                                 *)
Used == lastHuman <= Active
Fresh == {b \in Sleepers : live /\ Used /\ b \notin seeded /\ ~Set(b)}

Lapsed(a) == {b \in Sleepers : a[b] < -Lapse}
Due(a) == {b \in Sleepers : a[b] <= 0} \ Lapsed(a)

(* Mutation of Entered: the history is written when the turn is over.      *)
EnteredLater(b, h) == h

(* The entry is made before the turn begins.                               *)
Entered(b, h) == [h EXCEPT ![b] = 0]

(* lastWakingIn: an entry of any being, of any outcome.                    *)
InGap(h) == \E b \in Sleepers : h[b] < Gap

(* pick: of those whose alarm is due the longest overdue, free to answer.  *)
Free(a) == {b \in Due(a) : b \notin away /\ b \notin inTurn}
Picks(a, h) ==
  IF live /\ Used /\ lastAny >= Quiet /\ ~InGap(h)
  THEN {b \in Free(a) : \A c \in Free(a) : a[b] <= a[c]} ELSE {}

Woken == IF sinceWoken = Gap THEN 0 ELSE -1
Cleared(a, s) == [b \in Sleepers |-> IF b \in s THEN Unset ELSE a[b]]
Tick ==
  \E due \in [Fresh -> 0 .. SeedWithin] :
    LET a == [b \in Sleepers |-> IF b \in Fresh THEN due[b] ELSE alarm[b]]
        h == [b \in Sleepers |-> IF b \in Lapsed(a) THEN 0 ELSE history[b]]
    IN /\ seeded' = seeded \cup Fresh
       /\ \/ /\ Picks(a, h) = {}
             /\ Fresh # {} \/ Lapsed(a) # {}
             /\ alarm' = Cleared(a, Lapsed(a)) /\ history' = h
             /\ UNCHANGED <<inTurn, sinceWoken>>
          \/ \E b \in Picks(a, h), begun \in BOOLEAN :     \* a turn may be refused
               /\ alarm' = Cleared(a, Lapsed(a) \cup {b}) /\ history' = Entered(b, h)
               /\ inTurn' = (IF begun THEN inTurn \cup {b} ELSE inTurn) /\ sinceWoken' = Woken
       /\ UNCHANGED <<lastHuman, lastAny, live, away, chose>>

(* A unit of time passes, over which ticks may be held up.                 *)
Passes ==
  /\ alarm' = [b \in Sleepers |-> IF Set(b) /\ alarm[b] >= -Lapse THEN alarm[b] - 1 ELSE alarm[b]]
  /\ history' = [b \in Sleepers |-> Younger(history[b], Gap)]
  /\ lastHuman' = Younger(lastHuman, Active + 1) /\ lastAny' = Younger(lastAny, Quiet)
  /\ sinceWoken' = Younger(sinceWoken, Gap)
  /\ UNCHANGED <<seeded, live, away, inTurn, chose>>

Next ==
  \/ HumanSpeaks \/ Closes \/ Opens \/ Tick \/ Passes
  \/ \E b \in Sleepers : \/ Turns(b) \/ \E spoke \in BOOLEAN : TurnEnds(b, spoke)
                         \/ \E span \in Floor .. Unset : WakeMe(b, span)
Spec == Init /\ [][Next]_wakingVars

-----------------------------------------------------------------------------
(* However turns end, are refused or are cut off by a restart: the room's  *)
(* wakings are Gap apart.                                                  *)
WakingsApart == sinceWoken >= 0

(* Violated.  wakings.mjs:23-26: one "initial waking", "after that, only   *)
(* the being's own `wake_me` sets another".  What the being set or cleared *)
(* before is not looked at.                                                *)
FirstIsFirst == [][\A b \in Sleepers : b \in seeded' \ seeded => b \notin chose]_wakingVars

(* Violated.  wakings.mjs:20: at most one waking in Gap; an alarm that     *)
(* lapses, with nobody woken, holds the others off for as long.            *)
LapseIsNoWaking == InGap(history) => sinceWoken < Gap
=============================================================================
