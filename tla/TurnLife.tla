------------------------------- MODULE TurnLife -------------------------------
(***************************************************************************)
(* What the house promises of a turn, whatever happens to seats, messages  *)
(* and timers: a being is in at most one turn of a room at a time; a turn  *)
(* is issued once and resolves once; what it puts on the record, it puts   *)
(* there while it is open, and the last thing it puts there is its final   *)
(* word, if it ends well and has one, or an aborted frame if it does not.  *)
(* RoomTurns implements this.                                              *)
(***************************************************************************)
EXTENDS Sequences

CONSTANTS
  Turns,     \* turn ids
  Holders,   \* a being in a room
  NoOne      \* no holder

VARIABLES
  state,     \* what became of each turn
  holder,    \* whose turn it is, while it is open
  said       \* what it has put on the record, in order

vars == <<state, holder, said>>

Init ==
  /\ state = [t \in Turns |-> "unborn"]
  /\ holder = [t \in Turns |-> NoOne]
  /\ said = [t \in Turns |-> <<>>]

Begin(t, h) ==
  /\ state[t] = "unborn"
  /\ \A u \in Turns : holder[u] # h
  /\ state' = [state EXCEPT ![t] = "open"]
  /\ holder' = [holder EXCEPT ![t] = h]
  /\ UNCHANGED said

(* Issued, and closed before the being heard of it.                        *)
Refuse(t) ==
  /\ state[t] = "unborn"
  /\ state' = [state EXCEPT ![t] = "error"]
  /\ said' = [said EXCEPT ![t] = <<"aborted">>]
  /\ UNCHANGED holder

(* A segment that turned out not to be the last, a reach, or both.         *)
Say(t, more) ==
  /\ state[t] = "open"
  /\ said' = [said EXCEPT ![t] = @ \o more]
  /\ UNCHANGED <<state, holder>>

Finish(t, last) ==
  /\ state[t] = "open"
  /\ state' = [state EXCEPT ![t] = "done"]
  /\ holder' = [holder EXCEPT ![t] = NoOne]
  /\ said' = [said EXCEPT ![t] = @ \o last]

Break(t, kind) ==
  /\ state[t] = "open"
  /\ state' = [state EXCEPT ![t] = kind]
  /\ holder' = [holder EXCEPT ![t] = NoOne]
  /\ said' = [said EXCEPT ![t] = Append(@, "aborted")]

(* The house dies: its open turns are resolved by nobody.                  *)
Vanish ==
  /\ state' = [t \in Turns |-> IF state[t] = "open" THEN "gone" ELSE state[t]]
  /\ holder' = [t \in Turns |-> NoOne]
  /\ UNCHANGED said

Next ==
  \/ \E t \in Turns :
       \/ \E h \in Holders : Begin(t, h)
       \/ Refuse(t)
       \/ \E more \in {<<"interim">>, <<"reach">>, <<"interim", "reach">>} : Say(t, more)
       \/ \E last \in {<<>>, <<"final">>} : Finish(t, last)
       \/ \E kind \in {"error", "aborted"} : Break(t, kind)
  \/ Vanish

Spec == Init /\ [][Next]_vars
=============================================================================
