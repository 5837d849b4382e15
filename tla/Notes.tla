-------------------------------- MODULE Notes --------------------------------
(***************************************************************************)
(* The kept notes: a person's (user.md, which beings write and whose       *)
(* group_visible is the person's own switch), and a being's own (self.md,  *)
(* which opens again only where the room rule of room-reach.mjs lets it).  *)
(* user-notes.mjs replaces a note by moving what stood to the history and  *)
(* then writing, and the process may end between the two.  The person who  *)
(* turns the switch edits the file, which is outside this code.  No two    *)
(* notes are written in the same millisecond, which is a history's name.   *)
(***************************************************************************)
EXTENDS Naturals, FiniteSets, FiniteSetsExt

CONSTANTS
  Rooms, Private, People, Being,
  MaxWrites, MaxSwitches      \* bounds

VARIABLES
  roster,      \* of each room, the people in its class.json: its owner and who joined
  owner,       \* the room's owner, a person or the being
  note,        \* user.md of each person: a set of at most one [version, visible]
  history,     \* user.md.history: the versions in it
  self,        \* self.md: a set of at most one [version, from]
  selfHistory,
  versions,    \* ghost: how many notes were written, of all
  wanted,      \* ghost: the people whose last turn of the switch was to on
  ended,       \* ghost: the people whose note was being written when the process ended
  switches,
  heard        \* ghost: who was in its room when the self-note was written

notesVars == <<roster, owner, note, history, self, selfHistory, versions, wanted, ended, switches, heard>>

Init ==
  /\ owner \in [Rooms -> People \cup {Being}]
  /\ roster = [r \in Rooms |-> {owner[r]} \ {Being}]
  /\ note = [p \in People |-> {}] /\ history = [p \in People |-> {}]
  /\ self = {} /\ selfHistory = {} /\ versions = 0
  /\ wanted = {} /\ ended = {} /\ switches = 0 /\ heard = {}

Joins(r, p) ==
  /\ p \notin roster[r] /\ roster' = [roster EXCEPT ![r] = @ \cup {p}]
  /\ UNCHANGED <<owner, note, history, self, selfHistory, versions, wanted, ended, switches, heard>>
(* The person's own edit of what stands.                                   *)
Switches(p) ==
  /\ switches < MaxSwitches /\ switches' = switches + 1
  /\ \E n \in note[p] :
       /\ note' = [note EXCEPT ![p] = {[n EXCEPT !.visible = ~n.visible]}]
       /\ wanted' = IF n.visible THEN wanted \ {p} ELSE wanted \cup {p}
  /\ ended' = ended \ {p}
  /\ UNCHANGED <<roster, owner, history, self, selfHistory, versions, heard>>

-----------------------------------------------------------------------------
(* houseToolCtxFor's humans, and gate: the owner, or one the roster has.   *)
Present(r, p) == p = owner[r] \/ p \in roster[r]
GroupVisible(p) == \E n \in note[p] : n.visible
(* user_note_write: the switch survives the rewrite.                       *)
Archives(p) == history' = [history EXCEPT ![p] = @ \cup {n.version : n \in note[p]}]
UserNoteWrite(r, p) ==
  /\ Present(r, p) /\ versions < MaxWrites /\ versions' = versions + 1
  /\ Archives(p)
  /\ note' = [note EXCEPT ![p] = {[version |-> versions + 1, visible |-> GroupVisible(p)]}]
  /\ UNCHANGED <<roster, owner, self, selfHistory, wanted, ended, switches, heard>>
EndsWithinWrite(r, p) ==
  /\ Present(r, p) /\ note[p] # {} /\ Archives(p) /\ note' = [note EXCEPT ![p] = {}]
  /\ ended' = ended \cup {p}
  /\ UNCHANGED <<roster, owner, self, selfHistory, versions, wanted, switches, heard>>
(* user_note_read: the owner's own, or with the switch on.                 *)
UserNoteOpens(r, p) == Present(r, p) /\ (p = owner[r] \/ GroupVisible(p)) /\ note[p] # {}

-----------------------------------------------------------------------------
(* roomPeople's others, of a room and without the being.                   *)
Others(r) == roster[r]
(* self_note_write, and the end of the process within it.                  *)
SelfNoteWrite(r) ==
  /\ versions < MaxWrites /\ versions' = versions + 1
  /\ selfHistory' = selfHistory \cup {n.version : n \in self}
  /\ self' = {[version |-> versions + 1, from |-> r]} /\ heard' = Others(r)
  /\ UNCHANGED <<roster, owner, note, history, wanted, ended, switches>>
EndsWithinSelfWrite ==
  /\ self # {} /\ selfHistory' = selfHistory \cup {n.version : n \in self} /\ self' = {}
  /\ UNCHANGED <<roster, owner, note, history, versions, wanted, ended, switches, heard>>
(* reachable; destFromCtx finds no walker in a room, for no context says   *)
(* who is present.                                                         *)
Reachable(source, dest) ==
  \/ source = {} \/ \A p \in source : GroupVisible(p)
  \/ dest # {} /\ dest \subseteq source
SelfNoteOpens(r) == \E n \in self : n.from \notin Private \/ Reachable(Others(n.from), Others(r))

Next ==
  \/ \E r \in Rooms, p \in People : Joins(r, p) \/ UserNoteWrite(r, p) \/ EndsWithinWrite(r, p)
  \/ \E p \in People : Switches(p)
  \/ \E r \in Rooms : SelfNoteWrite(r)
  \/ EndsWithinSelfWrite
Spec == Init /\ [][Next]_notesVars

-----------------------------------------------------------------------------
(* Nothing that was written is lost, whenever the process ends: every      *)
(* version stands, or is in a history, and in one place only.              *)
NothingIsLost ==
  LET stands(p) == {n.version : n \in note[p]}
      mine == {n.version : n \in self}
      kept == [p \in People \cup {Being} |-> IF p = Being THEN selfHistory \cup mine ELSE history[p] \cup stands(p)]
  IN /\ UNION {kept[p] : p \in People \cup {Being}} = 1 .. versions
     /\ \A p, q \in People \cup {Being} : p # q => kept[p] \cap kept[q] = {}
     /\ \A p \in People : stands(p) \cap history[p] = {}
     /\ mine \cap selfHistory = {}
(* The switch is the person's: through every rewrite, and whatever ended   *)
(* between, a note is open to others only if its person last turned it on; *)
(* and only the end of the process within a write turns it off.            *)
SwitchIsTheirs ==
  \A p \in People :
    /\ GroupVisible(p) => p \in wanted
    /\ (p \in wanted /\ note[p] # {}) => (GroupVisible(p) \/ p \in ended)
(* What a person's note says is read in no room of another's, and a note   *)
(* from a private room with other people in it opens nowhere else, unless  *)
(* each of them has it so, or all who are there belong to that room.       *)
OpensAsAllowed ==
  /\ \A r \in Rooms, p \in People : UserNoteOpens(r, p) => (owner[r] = p \/ (p \in wanted /\ p \in roster[r]))
  /\ \A r \in Rooms, n \in self :
       (SelfNoteOpens(r) /\ n.from \in Private /\ heard # {} /\ ~(heard \subseteq wanted)) =>
         (roster[r] # {} /\ roster[r] \subseteq roster[n.from])
NotesSound == NothingIsLost /\ SwitchIsTheirs /\ OpensAsAllowed

(* "It opens only where everyone present was there when it was written"    *)
(* (user-notes.mjs:345-348).                                               *)
OpensWhereItWasWritten ==
  \A r \in Rooms, n \in self :
    (SelfNoteOpens(r) /\ n.from \in Private /\ heard # {} /\ ~(heard \subseteq wanted)) => roster[r] \subseteq heard
(* "The person's consent switch survives every rewrite"                    *)
(* (user-notes.mjs:300), also one that the process ended within.           *)
SwitchSurvives == \A p \in People : (p \in wanted /\ note[p] # {}) => GroupVisible(p)
=============================================================================
