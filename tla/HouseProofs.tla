----------------------------- MODULE HouseProofs -----------------------------
(***************************************************************************)
(* What three parts of MCHouse guarantee, for every value of their         *)
(* constants, each proved of the sum, whose other parts leave it alone:    *)
(* what a turn goes by, which is the kept notes (Notes) and what people    *)
(* set (Commands), and the links of accounts to users (Links).             *)
(***************************************************************************)
EXTENDS MCHouse, SequenceTheorems, FiniteSetTheorems, NaturalsInduction, TLAPS

-----------------------------------------------------------------------------
(* The kept notes.                                                         *)
NoteRecs == [version : Nat, visible : BOOLEAN]
SelfRecs == [version : Nat, from : Rooms]

(* A version is in a history or stands.                                    *)
Has(h, N, v) == v \in h \/ \E n \in N : n.version = v
Its(p, v) == Has(history[p], note[p], v)
Mine(v) == Has(selfHistory, self, v)

NotesTyped ==
  /\ roster \in [Rooms -> SUBSET People] /\ note \in [People -> SUBSET NoteRecs]
  /\ history \in [People -> SUBSET Nat] /\ self \subseteq SelfRecs /\ selfHistory \subseteq Nat
  /\ versions \in Nat
(* One note stands at a time, and it is not in the history.                *)
OneStands ==
  /\ \A p \in People : \A n, m \in note[p] : n = m
  /\ \A n, m \in self : n = m
  /\ \A p \in People : \A n \in note[p] : n.version \notin history[p]
  /\ \A n \in self : n.version \notin selfHistory
(* Every version written is somewhere, and somewhere only.                 *)
Numbered ==
  /\ \A v \in Nat : (Mine(v) \/ \E p \in People : Its(p, v)) <=> v \in 1 .. versions
  /\ \A p, q \in People : \A v \in Nat : Its(p, v) /\ Its(q, v) => p = q
  /\ \A p \in People : \A v \in Nat : ~(Its(p, v) /\ Mine(v))
(* Who wants it has it visible, unless the process ended in between.       *)
SwitchFit ==
  \A p \in People : /\ NO!GroupVisible(p) => p \in wanted
                    /\ p \in wanted => NO!GroupVisible(p) \/ p \in ended
(* Who was there when the being's own note was written still belongs.      *)
HeardFit == \A n \in self : heard \subseteq roster[n.from]
NotesKept == NotesTyped /\ OneStands /\ Numbered /\ SwitchFit /\ HeardFit

(* At first nothing is noted.                                              *)
LEMMA NotesStart == NO!Init => NotesKept
<1> SUFFICES ASSUME NO!Init PROVE NotesKept
  OBVIOUS
<1>1. /\ owner \in [Rooms -> People \cup {Being}] /\ roster = [r \in Rooms |-> {owner[r]} \ {Being}]
      /\ note = [p \in People |-> {}] /\ history = [p \in People |-> {}]
      /\ self = {} /\ selfHistory = {} /\ versions = 0 /\ wanted = {}
  BY DEF NO!Init
<1>2. NotesTyped
  BY <1>1 DEF NotesTyped
<1>3. OneStands /\ SwitchFit /\ HeardFit
  BY <1>1 DEF OneStands, SwitchFit, HeardFit, NO!GroupVisible
<1>4. Numbered
  BY <1>1 DEF Numbered, Its, Mine, Has
<1> QED
  BY <1>2, <1>3, <1>4 DEF NotesKept

(* Someone joins.                                                          *)
LEMMA JoinsKeep == ASSUME NotesKept, NEW r \in Rooms, NEW p \in People, NO!Joins(r, p) PROVE NotesKept'
<1>1. /\ roster' = [roster EXCEPT ![r] = @ \cup {p}]
      /\ UNCHANGED <<owner, note, history, self, selfHistory, versions, wanted, ended, heard>>
  BY DEF NO!Joins
<1>2. roster' \in [Rooms -> SUBSET People] /\ \A q \in Rooms : roster[q] \subseteq roster'[q]
  BY <1>1 DEF NotesKept, NotesTyped
<1>3. NotesTyped' /\ OneStands' /\ SwitchFit'
  BY <1>1, <1>2 DEF NotesKept, NotesTyped, OneStands, SwitchFit, NO!GroupVisible
<1>4. Numbered'
  BY <1>1 DEF NotesKept, Numbered, Its, Mine, Has
<1>5. HeardFit'
  <2> SUFFICES ASSUME NEW n \in self PROVE heard \subseteq roster'[n.from]
    BY <1>1 DEF HeardFit
  <2>1. n.from \in Rooms
    BY DEF NotesKept, NotesTyped, SelfRecs
  <2> QED
    BY <1>2, <2>1 DEF NotesKept, HeardFit
<1> QED
  BY <1>3, <1>4, <1>5 DEF NotesKept

(* A person turns the switch.                                              *)
LEMMA SwitchesKeep == ASSUME NotesKept, NEW p \in People, NO!Switches(p) PROVE NotesKept'
<1>1. PICK n \in note[p] :
        /\ note' = [note EXCEPT ![p] = {[n EXCEPT !.visible = ~n.visible]}]
        /\ wanted' = IF n.visible THEN wanted \ {p} ELSE wanted \cup {p}
  BY DEF NO!Switches
<1>2. ended' = ended \ {p} /\ UNCHANGED <<roster, owner, history, self, selfHistory, versions, heard>>
  BY DEF NO!Switches
<1> DEFINE x == [version |-> n.version, visible |-> ~n.visible]
<1>3. /\ note \in [People -> SUBSET NoteRecs] /\ n \in NoteRecs /\ \A m \in note[p] : m = n
  BY DEF NotesKept, NotesTyped, OneStands
<1>4. x \in NoteRecs /\ [n EXCEPT !.visible = ~n.visible] = x
  BY <1>3 DEF NoteRecs
<1>5. x.version = n.version /\ (x.visible <=> ~n.visible)
  OBVIOUS
<1> HIDE DEF x
<1>6. note' \in [People -> SUBSET NoteRecs] /\ note'[p] = {x} /\ \A q \in People : q # p => note'[q] = note[q]
  BY <1>1, <1>3, <1>4
<1>7. NotesTyped'
  BY <1>2, <1>6 DEF NotesKept, NotesTyped
<1>8. OneStands'
  <2>1. \A q \in People : \A a, b \in note'[q] : a = b
    BY <1>6 DEF NotesKept, OneStands
  <2>2. \A q \in People : \A a \in note'[q] : a.version \notin history'[q]
    BY <1>2, <1>5, <1>6 DEF NotesKept, OneStands
  <2> QED
    BY <1>2, <2>1, <2>2 DEF NotesKept, OneStands
<1>9. Numbered'
  <2>1. \A q \in People : \A v \in Nat : Has(history'[q], note'[q], v) <=> Has(history[q], note[q], v)
    BY <1>2, <1>3, <1>5, <1>6 DEF Has
  <2> QED
    BY <1>2, <2>1 DEF NotesKept, Numbered, Its, Mine
<1>10. SwitchFit'
  <2> SUFFICES ASSUME NEW q \in People
               PROVE  /\ (\E a \in note'[q] : a.visible) => q \in wanted'
                      /\ q \in wanted' => (\E a \in note'[q] : a.visible) \/ q \in ended'
    BY DEF SwitchFit, NO!GroupVisible
  <2>1. CASE q = p
    BY <1>1, <1>5, <1>6, <2>1
  <2>2. CASE q # p
    BY <1>1, <1>2, <1>6, <2>2 DEF NotesKept, SwitchFit, NO!GroupVisible
  <2> QED
    BY <2>1, <2>2
<1>11. HeardFit'
  BY <1>2 DEF NotesKept, HeardFit
<1> QED
  BY <1>7, <1>8, <1>9, <1>10, <1>11 DEF NotesKept

(* A being writes down what a person is to it.                             *)
LEMMA UserNoteKeeps == ASSUME NotesKept, NEW r \in Rooms, NEW p \in People, NO!UserNoteWrite(r, p) PROVE NotesKept'
<1> DEFINE seen == NO!GroupVisible(p)
           x == [version |-> versions + 1, visible |-> seen]
<1>1. /\ versions' = versions + 1 /\ history' = [history EXCEPT ![p] = @ \cup {n.version : n \in note[p]}]
      /\ note' = [note EXCEPT ![p] = {x}] /\ UNCHANGED <<roster, owner, self, selfHistory, wanted, ended, heard>>
  BY DEF NO!UserNoteWrite, NO!Archives
<1>2. /\ note \in [People -> SUBSET NoteRecs] /\ history \in [People -> SUBSET Nat] /\ versions \in Nat
      /\ selfHistory \subseteq Nat /\ self \subseteq SelfRecs
  BY DEF NotesKept, NotesTyped
<1>3. x \in NoteRecs
  <2>1. seen \in BOOLEAN
    BY DEF NO!GroupVisible
  <2> QED
    BY <1>2, <2>1 DEF NoteRecs
<1>4. x.version = versions + 1 /\ (x.visible <=> seen)
  OBVIOUS
<1>5. seen <=> \E n \in note[p] : n.visible
  BY DEF NO!GroupVisible
<1> HIDE DEF x, seen
<1>6. note' \in [People -> SUBSET NoteRecs] /\ note'[p] = {x} /\ \A q \in People : q # p => note'[q] = note[q]
  BY <1>1, <1>2, <1>3
<1>7. \A n \in note[p] : n.version \in Nat
  BY <1>2 DEF NoteRecs
<1>8. /\ history' \in [People -> SUBSET Nat] /\ \A q \in People : q # p => history'[q] = history[q]
      /\ \A v : v \in history'[p] <=> v \in history[p] \/ \E n \in note[p] : n.version = v
  BY <1>1, <1>2, <1>7
<1>9. NotesTyped'
  BY <1>1, <1>2, <1>6, <1>8 DEF NotesKept, NotesTyped
<1>10. \A q \in People : \A v \in Nat :
         Has(history'[q], note'[q], v) <=> Has(history[q], note[q], v) \/ (q = p /\ v = versions + 1)
  BY <1>4, <1>6, <1>8 DEF Has
<1>11. \A v \in Nat : v \in 1 .. versions' <=> v \in 1 .. versions \/ v = versions + 1
  BY <1>1, <1>2
<1>12. versions + 1 \in Nat /\ versions + 1 \notin 1 .. versions
  BY <1>2
<1>13. Numbered'
  <2>1. /\ \A v \in Nat : (Mine(v) \/ \E q \in People : Its(q, v)) <=> v \in 1 .. versions
        /\ \A q, s \in People : \A v \in Nat : Its(q, v) /\ Its(s, v) => q = s
        /\ \A q \in People : \A v \in Nat : ~(Its(q, v) /\ Mine(v))
    BY DEF NotesKept, Numbered
  <2>2. \A v \in Nat : Mine(v)' <=> Mine(v)
    BY <1>1 DEF Mine
  <2>3. \A q \in People : \A v \in Nat : Its(q, v)' <=> Its(q, v) \/ (q = p /\ v = versions + 1)
    BY <1>10 DEF Its
  <2>4. ~Mine(versions + 1) /\ \A q \in People : ~Its(q, versions + 1)
    BY <1>12, <2>1
  <2>5. ASSUME NEW v \in Nat PROVE (Mine(v)' \/ \E q \in People : Its(q, v)') <=> v \in 1 .. versions'
    <3>1. CASE v = versions + 1
      BY <1>11, <2>3, <3>1
    <3>2. CASE v # versions + 1
      BY <1>11, <2>1, <2>2, <2>3, <3>2
    <3> QED
      BY <3>1, <3>2
  <2>6. ASSUME NEW q \in People, NEW s \in People, NEW v \in Nat, Its(q, v)', Its(s, v)' PROVE q = s
    BY <2>1, <2>3, <2>4, <2>6
  <2>7. ASSUME NEW q \in People, NEW v \in Nat PROVE ~(Its(q, v)' /\ Mine(v)')
    BY <2>1, <2>2, <2>3, <2>4
  <2> QED
    BY <2>5, <2>6, <2>7 DEF Numbered
<1>14. OneStands'
  <2>1. \A q \in People : \A a, b \in note'[q] : a = b
    BY <1>6 DEF NotesKept, OneStands
  <2>2. versions + 1 \notin history'[p]
    <3>1. ~Its(p, versions + 1)
      BY <1>12 DEF NotesKept, Numbered
    <3> QED
      BY <1>8, <3>1 DEF Its, Has
  <2>3. ASSUME NEW q \in People, NEW a \in note'[q] PROVE a.version \notin history'[q]
    <3>1. CASE q = p
      BY <1>4, <1>6, <2>2, <2>3, <3>1
    <3>2. CASE q # p
      BY <1>6, <1>8, <2>3, <3>2 DEF NotesKept, OneStands
    <3> QED
      BY <3>1, <3>2
  <2> QED
    BY <1>1, <2>1, <2>3 DEF NotesKept, OneStands
<1>15. SwitchFit'
  <2> SUFFICES ASSUME NEW q \in People
               PROVE  /\ (\E a \in note'[q] : a.visible) => q \in wanted
                      /\ q \in wanted => (\E a \in note'[q] : a.visible) \/ q \in ended
    BY <1>1 DEF SwitchFit, NO!GroupVisible
  <2>1. (\E a \in note'[q] : a.visible) <=> \E a \in note[q] : a.visible
    BY <1>4, <1>5, <1>6
  <2> QED
    BY <2>1 DEF NotesKept, SwitchFit, NO!GroupVisible
<1>16. HeardFit'
  BY <1>1 DEF NotesKept, HeardFit
<1> QED
  BY <1>9, <1>13, <1>14, <1>15, <1>16 DEF NotesKept

(* The process ends between the history and the note.                      *)
LEMMA WriteEndsKeeps == ASSUME NotesKept, NEW r \in Rooms, NEW p \in People, NO!EndsWithinWrite(r, p) PROVE NotesKept'
<1>1. /\ history' = [history EXCEPT ![p] = @ \cup {n.version : n \in note[p]}]
      /\ note' = [note EXCEPT ![p] = {}] /\ ended' = ended \cup {p}
      /\ UNCHANGED <<roster, owner, self, selfHistory, versions, wanted, heard>>
  BY DEF NO!EndsWithinWrite, NO!Archives
<1>2. note \in [People -> SUBSET NoteRecs] /\ history \in [People -> SUBSET Nat]
  BY DEF NotesKept, NotesTyped
<1>3. \A n \in note[p] : n.version \in Nat
  BY <1>2 DEF NoteRecs
<1>4. note' \in [People -> SUBSET NoteRecs] /\ note'[p] = {} /\ \A q \in People : q # p => note'[q] = note[q]
  BY <1>1, <1>2
<1>5. /\ history' \in [People -> SUBSET Nat] /\ \A q \in People : q # p => history'[q] = history[q]
      /\ \A v : v \in history'[p] <=> v \in history[p] \/ \E n \in note[p] : n.version = v
  BY <1>1, <1>2, <1>3
<1>6. NotesTyped'
  BY <1>1, <1>4, <1>5 DEF NotesKept, NotesTyped
<1>7. Numbered'
  <2>1. \A q \in People : \A v \in Nat : Its(q, v)' <=> Its(q, v)
    BY <1>4, <1>5 DEF Its, Has
  <2>2. \A v \in Nat : Mine(v)' <=> Mine(v)
    BY <1>1 DEF Mine
  <2> QED
    BY <1>1, <2>1, <2>2 DEF NotesKept, Numbered
<1>8. OneStands'
  BY <1>1, <1>4, <1>5 DEF NotesKept, OneStands
<1>9. SwitchFit'
  BY <1>1, <1>4 DEF NotesKept, SwitchFit, NO!GroupVisible
<1>10. HeardFit'
  BY <1>1 DEF NotesKept, HeardFit
<1> QED
  BY <1>6, <1>7, <1>8, <1>9, <1>10 DEF NotesKept

(* A being writes down what it is.                                         *)
LEMMA SelfNoteKeeps == ASSUME NotesKept, NEW r \in Rooms, NO!SelfNoteWrite(r) PROVE NotesKept'
<1> DEFINE x == [version |-> versions + 1, from |-> r]
<1>1. /\ versions' = versions + 1 /\ selfHistory' = selfHistory \cup {n.version : n \in self}
      /\ self' = {x} /\ heard' = roster[r] /\ UNCHANGED <<roster, owner, note, history, wanted, ended>>
  BY DEF NO!SelfNoteWrite, NO!Others
<1>2. versions \in Nat /\ selfHistory \subseteq Nat /\ self \subseteq SelfRecs
  BY DEF NotesKept, NotesTyped
<1>3. x \in SelfRecs /\ x.version = versions + 1 /\ x.from = r
  BY <1>2 DEF SelfRecs
<1> HIDE DEF x
<1>4. \A n \in self : n.version \in Nat
  BY <1>2 DEF SelfRecs
<1>5. /\ selfHistory' \subseteq Nat
      /\ \A v : v \in selfHistory' <=> v \in selfHistory \/ \E n \in self : n.version = v
  BY <1>1, <1>2, <1>4
<1>6. NotesTyped'
  BY <1>1, <1>2, <1>3, <1>5 DEF NotesKept, NotesTyped
<1>7. \A v \in Nat : v \in 1 .. versions' <=> v \in 1 .. versions \/ v = versions + 1
  BY <1>1, <1>2
<1>8. versions + 1 \in Nat /\ versions + 1 \notin 1 .. versions
  BY <1>2
<1>9. /\ \A v \in Nat : (Mine(v) \/ \E q \in People : Its(q, v)) <=> v \in 1 .. versions
      /\ \A q, s \in People : \A v \in Nat : Its(q, v) /\ Its(s, v) => q = s
      /\ \A q \in People : \A v \in Nat : ~(Its(q, v) /\ Mine(v))
  BY DEF NotesKept, Numbered
<1>10. ~Mine(versions + 1) /\ \A q \in People : ~Its(q, versions + 1)
  BY <1>8, <1>9
<1>11. Numbered'
  <2>1. \A v \in Nat : Mine(v)' <=> Mine(v) \/ v = versions + 1
    BY <1>1, <1>3, <1>5 DEF Mine, Has
  <2>2. \A q \in People : \A v \in Nat : Its(q, v)' <=> Its(q, v)
    BY <1>1 DEF Its
  <2>3. ASSUME NEW v \in Nat PROVE (Mine(v)' \/ \E q \in People : Its(q, v)') <=> v \in 1 .. versions'
    BY <1>7, <1>9, <2>1, <2>2
  <2>4. ASSUME NEW q \in People, NEW v \in Nat PROVE ~(Its(q, v)' /\ Mine(v)')
    BY <1>9, <1>10, <2>1, <2>2
  <2> QED
    BY <1>9, <2>2, <2>3, <2>4 DEF Numbered
<1>12. OneStands'
  <2>1. versions + 1 \notin selfHistory'
    BY <1>5, <1>10 DEF Mine, Has
  <2> QED
    BY <1>1, <1>3, <2>1 DEF NotesKept, OneStands
<1>13. SwitchFit'
  BY <1>1 DEF NotesKept, SwitchFit, NO!GroupVisible
<1>14. HeardFit'
  BY <1>1, <1>3 DEF HeardFit
<1> QED
  BY <1>6, <1>11, <1>12, <1>13, <1>14 DEF NotesKept

(* The process ends within that.                                           *)
LEMMA SelfWriteEndsKeeps == ASSUME NotesKept, NO!EndsWithinSelfWrite PROVE NotesKept'
<1>1. /\ selfHistory' = selfHistory \cup {n.version : n \in self} /\ self' = {}
      /\ UNCHANGED <<roster, owner, note, history, versions, wanted, ended, heard>>
  BY DEF NO!EndsWithinSelfWrite
<1>2. \A n \in self : n.version \in Nat
  BY DEF NotesKept, NotesTyped, SelfRecs
<1>3. NotesTyped'
  BY <1>1, <1>2 DEF NotesKept, NotesTyped
<1>4. Numbered'
  <2>1. \A v \in Nat : Mine(v)' <=> Mine(v)
    BY <1>1 DEF Mine, Has
  <2>2. \A q \in People : \A v \in Nat : Its(q, v)' <=> Its(q, v)
    BY <1>1 DEF Its
  <2> QED
    BY <1>1, <2>1, <2>2 DEF NotesKept, Numbered
<1>5. OneStands' /\ SwitchFit' /\ HeardFit'
  BY <1>1 DEF NotesKept, OneStands, SwitchFit, HeardFit, NO!GroupVisible
<1> QED
  BY <1>3, <1>4, <1>5 DEF NotesKept

(* A step of another part leaves the notes alone.                          *)
LEMMA NotesRest == ASSUME NotesKept, UNCHANGED notesVars PROVE NotesKept'
<1>1. UNCHANGED <<roster, owner, note, history, self, selfHistory, versions, wanted, ended, heard>>
  BY DEF notesVars
<1>2. NotesTyped' /\ OneStands' /\ SwitchFit' /\ HeardFit'
  BY <1>1 DEF NotesKept, NotesTyped, OneStands, SwitchFit, HeardFit, NO!GroupVisible
<1>3. Numbered'
  BY <1>1 DEF NotesKept, Numbered, Its, Mine
<1> QED
  BY <1>2, <1>3 DEF NotesKept

(* No step of the notes disturbs them.                                     *)
LEMMA NotesNext == ASSUME NotesKept, NO!Next PROVE NotesKept'
  BY JoinsKeep, SwitchesKeep, UserNoteKeeps, WriteEndsKeeps, SelfNoteKeeps, SelfWriteEndsKeeps DEF NO!Next

(* What the invariant says of the notes.                                   *)
LEMMA NotesAreSound == ASSUME NotesKept PROVE NO!NotesSound
<1>1. NO!SwitchIsTheirs
  BY DEF NO!SwitchIsTheirs, NotesKept, SwitchFit
<1>2. NO!NothingIsLost
  <2> DEFINE stands(p) == {n.version : n \in note[p]}
             mine == {n.version : n \in self}
             all == [p \in People \cup {Being} |-> IF p = Being THEN selfHistory \cup mine ELSE history[p] \cup stands(p)]
  <2>1. \A p \in People : \A v : v \in all[p] <=> Its(p, v)
    BY HouseAssumption DEF Its, Has
  <2>2. \A v : v \in all[Being] <=> Mine(v)
    BY DEF Mine, Has
  <2>3. ASSUME NEW v PROVE Mine(v) => v \in Nat
    <3>1. /\ selfHistory \subseteq Nat
          /\ \A n \in self : n.version \in Nat
      BY DEF NotesKept, NotesTyped, SelfRecs
    <3> QED
      BY <3>1 DEF Mine, Has
  <2>7. ASSUME NEW p \in People, NEW v PROVE Its(p, v) => v \in Nat
    <3>1. history[p] \subseteq Nat /\ note[p] \subseteq NoteRecs
      BY DEF NotesKept, NotesTyped
    <3>2. \A n \in note[p] : n.version \in Nat
      BY <3>1 DEF NoteRecs
    <3> QED
      BY <3>1, <3>2 DEF Its, Has
  <2>4. /\ \A p \in People : stands(p) \cap history[p] = {}
        /\ mine \cap selfHistory = {}
    BY DEF NotesKept, OneStands
  <2>5. UNION {all[p] : p \in People \cup {Being}} = 1 .. versions
    <3> HIDE DEF all
    <3>1. versions \in Nat
      BY DEF NotesKept, NotesTyped
    <3>2. \A v : v \in UNION {all[p] : p \in People \cup {Being}} <=> Mine(v) \/ \E p \in People : Its(p, v)
      BY <2>1, <2>2
    <3>3. \A v : (Mine(v) \/ \E p \in People : Its(p, v)) <=> v \in 1 .. versions
      BY <2>3, <2>7, <3>1 DEF NotesKept, Numbered
    <3> QED
      BY <3>2, <3>3
  <2>6. ASSUME NEW p \in People \cup {Being}, NEW q \in People \cup {Being}, p # q PROVE all[p] \cap all[q] = {}
    <3> HIDE DEF all
    <3> SUFFICES ASSUME NEW v \in all[p], v \in all[q] PROVE FALSE
      OBVIOUS
    <3>1. CASE p \in People /\ q \in People
      BY <2>1, <2>3, <2>7, <2>6, <3>1 DEF NotesKept, Numbered
    <3>2. CASE p = Being /\ q \in People
      BY <2>1, <2>2, <2>3, <2>7, <3>2 DEF NotesKept, Numbered
    <3>3. CASE p \in People /\ q = Being
      BY <2>1, <2>2, <2>3, <2>7, <3>3 DEF NotesKept, Numbered
    <3> QED
      BY <2>6, <3>1, <3>2, <3>3
  <2> QED
    BY <2>4, <2>5, <2>6 DEF NO!NothingIsLost
<1>3. NO!OpensAsAllowed
  <2>1. ASSUME NEW r \in Rooms, NEW p \in People, NO!UserNoteOpens(r, p)
        PROVE  owner[r] = p \/ (p \in wanted /\ p \in roster[r])
    BY <1>1, <2>1 DEF NO!UserNoteOpens, NO!Present, NO!SwitchIsTheirs
  <2>2. ASSUME NEW r \in Rooms, NEW n \in self, NO!SelfNoteOpens(r), n.from \in Private, heard # {}, ~(heard \subseteq wanted)
        PROVE  roster[r] # {} /\ roster[r] \subseteq roster[n.from]
    <3>1. PICK m \in self : m.from \notin Private \/ NO!Reachable(NO!Others(m.from), NO!Others(r))
      BY <2>2 DEF NO!SelfNoteOpens
    <3>2. m = n
      BY DEF NotesKept, OneStands
    <3>3. NO!Reachable(roster[n.from], roster[r])
      BY <2>2, <3>1, <3>2 DEF NO!Others
    <3>4. heard \subseteq roster[n.from] /\ roster[n.from] \subseteq People
      BY DEF NotesKept, NotesTyped, HeardFit, SelfRecs
    <3>5. ~(\A p \in roster[n.from] : NO!GroupVisible(p))
      BY <1>1, <2>2, <3>4 DEF NO!SwitchIsTheirs
    <3> QED
      BY <2>2, <3>3, <3>4, <3>5 DEF NO!Reachable
  <2> QED
    BY <2>1, <2>2 DEF NO!OpensAsAllowed
<1> QED
  BY <1>1, <1>2, <1>3 DEF NO!NotesSound

-----------------------------------------------------------------------------
(* What people set, and what the turns go by.                              *)
Topics == {"rr", "mcf", "h-default", "sysprompt", "secret", "stop"}
Whose == Beings \cup {"room"}
LineRecs == [order : CM!Orders, to : CM!Names, keeper : BOOLEAN, due : SUBSET Beings, ran : BOOLEAN, recorded : BOOLEAN]
Steps == [line : Nat, undid : BOOLEAN]
AskedRecs ==
  [roll : Nat, own : [Whose -> Nat], prompt : [Beings -> Nat], kept : [Beings -> Nat], secret : Nat]
HushRecs == [left : 0 .. Minutes, by : Beings \cup {"nobody", "keeper"}, age : Nat]

SettingsTyped ==
  /\ topic \in Topics /\ memory \in [CM!Keys -> Nat] /\ disk \in [CM!Keys -> Nat] /\ asked \in AskedRecs
LinesTyped ==
  /\ lines \in Seq(LineRecs) /\ chain \in [Beings -> Seq(Steps)]
  /\ \A s \in Beings : \A i \in 1 .. Len(chain[s]) : chain[s][i].line \in 1 .. Len(lines)
(* Whatever no seat behind the others wrote last is as it was last asked.  *)
InForce ==
  /\ topic = "rr" /\ "rr" \notin crossed => memory["rr"] = asked.roll
  /\ topic = "mcf" => \A x \in Whose : x \notin crossed => memory[x] = asked.own[x]
  /\ topic = "h-default" => \A x \in Beings : x \notin crossed => disk[x] = asked.own[x]
  /\ topic = "sysprompt" => \A x \in Beings : x \notin crossed =>
       /\ disk[x] = asked.kept[x] /\ asked.prompt[x] = IF memory[x] # 0 THEN memory[x] ELSE disk[x]
  /\ topic = "secret" /\ "secret" \notin crossed => disk["secret"] = asked.secret
(* A hush is shorter than ordered only where its being lifted it itself.   *)
Hushed ==
  /\ hush \in [Beings -> HushRecs] /\ decree \in [Beings -> Nat]
  /\ \A b \in Beings : hush[b].left < decree[b] => <<"self", b, b>> \in commandGhosts
CommandsKept == SettingsTyped /\ LinesTyped /\ InForce /\ Hushed

(* What a line may ask for.                                                *)
LEMMA OrderIs ==
  ASSUME topic \in Topics, NEW o \in CM!Orders
  PROVE  /\ o.value \in Nat /\ (o.set = "hush" => o.value \in {0, Minutes})
         /\ topic = "sysprompt" => o.set \in {"temp", "override", "reset"} /\ (o.set = "temp" => o.value # 0)
<1>1. Minutes \in Nat
  BY HouseAssumption
<1>2. CASE topic \in {"rr", "mcf", "h-default"}
  <2>1. o.value \in {0, 1, 2} /\ o.set \in {"value", "reset"}
    BY <1>2 DEF CM!Orders, CM!Values, CM!Unset
  <2> QED
    BY <1>2, <2>1
<1>3. CASE topic = "sysprompt"
  <2>1. \/ \E m \in {"temp", "override"}, v \in {1, 2} : o = [set |-> m, value |-> v]
        \/ o = [set |-> "reset", value |-> 0]
    BY <1>3 DEF CM!Orders, CM!Values, CM!Unset
  <2> QED
    BY <2>1
<1>4. CASE topic = "secret"
  <2>1. o = [set |-> "value", value |-> 1] \/ o = [set |-> "reset", value |-> 0]
    BY <1>4 DEF CM!Orders, CM!Unset
  <2> QED
    BY <1>4, <2>1
<1>5. CASE topic = "stop"
  <2>1. \E m \in {0, Minutes} : o = [set |-> "hush", value |-> m]
    BY <1>5 DEF CM!Orders
  <2> QED
    BY <1>1, <1>5, <2>1
<1> QED
  BY <1>2, <1>3, <1>4, <1>5 DEF Topics

(* At first nothing was asked for.                                         *)
LEMMA CommandsStart == CM!Init => CommandsKept
<1> SUFFICES ASSUME CM!Init PROVE CommandsKept
  OBVIOUS
<1>1. /\ topic \in Topics /\ memory = [k \in CM!Keys |-> 0] /\ disk = [k \in CM!Keys |-> 0]
      /\ lines = <<>> /\ chain = [s \in Beings |-> <<>>] /\ asked = CM!NothingAsked
      /\ hush = [b \in Beings |-> CM!NoHush] /\ decree = [b \in Beings |-> 0]
  BY DEF CM!Init, CM!Unset, Topics
<1>2. CM!NothingAsked = [roll |-> 0, own |-> [x \in Whose |-> 0], prompt |-> [b \in Beings |-> 0],
                         kept |-> [b \in Beings |-> 0], secret |-> 0]
  BY DEF CM!NothingAsked, CM!Unset, CM!Room, Whose
<1>3. SettingsTyped
  BY <1>1, <1>2 DEF SettingsTyped, AskedRecs
<1>4. LinesTyped
  <2>1. lines \in Seq(LineRecs)
    BY <1>1, EmptySeq
  <2>2. <<>> \in Seq(Steps) /\ Len(<<>>) = 0
    BY EmptySeq
  <2>3. chain \in [Beings -> Seq(Steps)] /\ \A s \in Beings : Len(chain[s]) = 0
    BY <1>1, <2>2
  <2> QED
    BY <2>1, <2>3 DEF LinesTyped
<1>5. InForce
  <2>1. /\ asked.roll = 0 /\ asked.secret = 0 /\ \A x \in Whose : asked.own[x] = 0
        /\ \A x \in Beings : asked.prompt[x] = 0 /\ asked.kept[x] = 0
    BY <1>1, <1>2 DEF Whose
  <2>2. \A k \in CM!Keys : memory[k] = 0 /\ disk[k] = 0
    BY <1>1
  <2>3. "rr" \in CM!Keys /\ "secret" \in CM!Keys /\ Whose \subseteq CM!Keys /\ Beings \subseteq Whose
    BY DEF CM!Keys, CM!Room, Whose
  <2> QED
    BY <2>1, <2>2, <2>3 DEF InForce
<1>6. Hushed
  <2>1. CM!NoHush \in HushRecs /\ CM!NoHush.left = 0
    BY HouseAssumption DEF CM!NoHush, HushRecs
  <2> QED
    BY <1>1, <2>1 DEF Hushed
<1> QED
  BY <1>3, <1>4, <1>5, <1>6 DEF CommandsKept

(* The lines, with one more.                                               *)
LEMMA OneMoreLine ==
  ASSUME LinesTyped, NEW x \in LineRecs, lines' = Append(lines, x), UNCHANGED <<topic, chain>>
  PROVE  LinesTyped'
<1>1. lines \in Seq(LineRecs)
  BY DEF LinesTyped
<1>2. lines' \in Seq(LineRecs) /\ Len(lines') = Len(lines) + 1 /\ Len(lines) \in Nat
  BY <1>1, AppendProperties, LenProperties
<1>3. \A s \in Beings : \A i \in 1 .. Len(chain[s]) : chain[s][i].line \in 1 .. Len(lines')
  BY <1>2 DEF LinesTyped
<1>4. LineRecs' = LineRecs
  BY DEF LineRecs, CM!Orders, CM!Names
<1> QED
  BY <1>2, <1>3, <1>4 DEF LinesTyped

(* One is replaced by what became of it.                                   *)
LEMMA LineReplaced ==
  ASSUME LinesTyped, NEW n \in 1 .. Len(lines), NEW x \in LineRecs, lines' = [lines EXCEPT ![n] = x], topic' = topic
  PROVE  lines' \in Seq(LineRecs)' /\ Len(lines') = Len(lines)
<1>1. lines \in Seq(LineRecs) /\ Len(lines) \in Nat /\ lines \in [1 .. Len(lines) -> LineRecs]
  BY LenProperties DEF LinesTyped
<1>2. lines' \in [1 .. Len(lines) -> LineRecs]
  BY <1>1
<1>3. lines' \in Seq(LineRecs) /\ Len(lines') = Len(lines)
  BY <1>1, <1>2, IsASeq, LenProperties
<1>4. LineRecs' = LineRecs
  BY DEF LineRecs, CM!Orders, CM!Names
<1> QED
  BY <1>3, <1>4

(* Lines nothing is done to keep.                                          *)
LEMMA LinesStay == ASSUME LinesTyped, UNCHANGED <<topic, lines>> PROVE lines' \in Seq(LineRecs)'
<1>1. LineRecs' = LineRecs
  BY DEF LineRecs, CM!Orders, CM!Names
<1> QED
  BY <1>1 DEF LinesTyped

(* Nor do the turns they wait in.                                          *)
LEMMA LinesRest == ASSUME LinesTyped, UNCHANGED <<topic, lines, chain>> PROVE LinesTyped'
<1>1. lines' \in Seq(LineRecs)'
  BY LinesStay
<1> QED
  BY <1>1 DEF LinesTyped

(* The settings keep where nothing of them changes.                        *)
LEMMA SettingsRest ==
  ASSUME SettingsTyped, InForce, UNCHANGED <<topic, memory, disk, asked, crossed>>
  PROVE  SettingsTyped' /\ InForce'
  BY DEF SettingsTyped, InForce

(* Someone says a line.                                                    *)
LEMMA SaysKeeps ==
  ASSUME CommandsKept, NEW o \in CM!Orders, NEW to \in CM!Names, NEW keeper \in BOOLEAN, CM!Says(o, to, keeper)
  PROVE  CommandsKept'
<1> DEFINE x == [order |-> o, to |-> to, keeper |-> keeper,
                 due |-> IF to = {} THEN Beings ELSE to, ran |-> FALSE, recorded |-> FALSE]
<1>1. /\ lines' = Append(lines, x)
      /\ UNCHANGED <<topic, memory, disk, asked, crossed, hush, chain, decree, commandGhosts>>
  BY DEF CM!Says, CM!settings
<1>2. to \in SUBSET Beings
  BY DEF CM!Names
<1>3. x \in LineRecs
  BY <1>2 DEF LineRecs
<1> HIDE DEF x
<1>4. LinesTyped'
  BY <1>1, <1>3, OneMoreLine DEF CommandsKept
<1>5. SettingsTyped' /\ InForce'
  BY <1>1, SettingsRest DEF CommandsKept
<1>6. Hushed'
  BY <1>1 DEF CommandsKept, Hushed
<1> QED
  BY <1>4, <1>5, <1>6 DEF CommandsKept

(* A seat that a line is due to lets it go.                                *)
LEMMA MissesKeeps ==
  ASSUME CommandsKept, NEW s \in Beings, NEW n \in DOMAIN lines, CM!Misses(s, n) PROVE CommandsKept'
<1> DEFINE x == [lines[n] EXCEPT !.due = @ \ {s}]
<1>1. /\ lines' = [lines EXCEPT ![n] = x]
      /\ UNCHANGED <<topic, memory, disk, asked, crossed, hush, chain, decree, commandGhosts>>
  BY DEF CM!Misses, CM!settings
<1>2. lines \in Seq(LineRecs) /\ DOMAIN lines = 1 .. Len(lines) /\ lines[n] \in LineRecs
  BY LenProperties, ElementOfSeq DEF CommandsKept, LinesTyped
<1>3. x \in LineRecs
  BY <1>2 DEF LineRecs
<1> HIDE DEF x
<1>4. lines' \in Seq(LineRecs)' /\ Len(lines') = Len(lines)
  BY <1>1, <1>2, <1>3, LineReplaced DEF CommandsKept
<1>5. LinesTyped'
  BY <1>1, <1>4 DEF CommandsKept, LinesTyped
<1>6. SettingsTyped' /\ InForce'
  BY <1>1, SettingsRest DEF CommandsKept
<1>7. Hushed'
  BY <1>1 DEF CommandsKept, Hushed
<1> QED
  BY <1>5, <1>6, <1>7 DEF CommandsKept

(* The first step of a chain is of a line, and the chain goes on without.  *)
LEMMA ChainGoesOn ==
  ASSUME LinesTyped, NEW s \in Beings, chain[s] # <<>>
  PROVE  /\ Head(chain[s]).line \in 1 .. Len(lines)
         /\ [chain EXCEPT ![s] = Tail(@)] \in [Beings -> Seq(Steps)]
         /\ \A r \in Beings : \A i \in 1 .. Len([chain EXCEPT ![s] = Tail(@)][r]) :
              [chain EXCEPT ![s] = Tail(@)][r][i].line \in 1 .. Len(lines)
<1> DEFINE c == chain[s]
           d == [chain EXCEPT ![s] = Tail(@)]
<1>1. c \in Seq(Steps) /\ chain \in [Beings -> Seq(Steps)] /\ \A i \in 1 .. Len(c) : c[i].line \in 1 .. Len(lines)
  BY DEF LinesTyped
<1>2. d = [chain EXCEPT ![s] = Tail(c)]
  OBVIOUS
<1> HIDE DEF c, d
<1>3. c # <<>>
  BY DEF c
<1>4. /\ Tail(c) \in Seq(Steps) /\ Len(Tail(c)) = Len(c) - 1 /\ Head(c) = c[1] /\ Len(c) \in Nat /\ Len(c) # 0
      /\ \A i \in 1 .. Len(Tail(c)) : Tail(c)[i] = c[i + 1]
  BY <1>1, <1>3, HeadTailProperties, EmptySeq, LenProperties
<1>5. Head(c).line \in 1 .. Len(lines)
  BY <1>1, <1>4
<1>6. \A i \in 1 .. Len(Tail(c)) : Tail(c)[i].line \in 1 .. Len(lines)
  BY <1>1, <1>4
<1>7. d \in [Beings -> Seq(Steps)] /\ d[s] = Tail(c) /\ \A r \in Beings : r # s => d[r] = chain[r]
  BY <1>1, <1>2, <1>4
<1>8. \A r \in Beings : \A i \in 1 .. Len(d[r]) : d[r][i].line \in 1 .. Len(lines)
  <2> SUFFICES ASSUME NEW r \in Beings, NEW i \in 1 .. Len(d[r]) PROVE d[r][i].line \in 1 .. Len(lines)
    OBVIOUS
  <2>1. CASE r = s
    BY <1>6, <1>7, <2>1
  <2>2. CASE r # s
    BY <1>7, <2>2 DEF LinesTyped
  <2> QED
    BY <2>1, <2>2
<1> QED
  BY <1>5, <1>7, <1>8 DEF c, d

(* A seat learns that another recorded its line.                           *)
LEMMA DuplicateKeeps == ASSUME CommandsKept, NEW s \in Beings, CM!Duplicate(s) PROVE CommandsKept'
<1>1. /\ chain[s] # <<>> /\ chain' = [chain EXCEPT ![s] = Tail(@)]
      /\ UNCHANGED <<topic, memory, disk, asked, crossed, hush, lines, decree, commandGhosts>>
  BY DEF CM!Duplicate, CM!settings
<1>2. /\ chain' \in [Beings -> Seq(Steps)]
      /\ \A r \in Beings : \A i \in 1 .. Len(chain'[r]) : chain'[r][i].line \in 1 .. Len(lines)
  BY <1>1, ChainGoesOn DEF CommandsKept
<1>3. lines' \in Seq(LineRecs)'
  BY <1>1, LinesStay DEF CommandsKept
<1>4. LinesTyped'
  BY <1>1, <1>2, <1>3 DEF LinesTyped
<1>5. SettingsTyped' /\ InForce'
  BY <1>1, SettingsRest DEF CommandsKept
<1>6. Hushed'
  BY <1>1 DEF CommandsKept, Hushed
<1> QED
  BY <1>4, <1>5, <1>6 DEF CommandsKept

(* Whoever is made quiet by a line is so for as long as ordered.           *)
LEMMA QuietAsOrdered ==
  ASSUME Hushed, NEW Q \in SUBSET Beings, NEW m \in {0, Minutes}, CM!Quietened(Q, m), commandGhosts \subseteq commandGhosts'
  PROVE  Hushed'
<1>1. Minutes \in Nat /\ m \in Nat /\ m \in 0 .. Minutes
  BY HouseAssumption
<1> DEFINE x == IF m = 0 THEN CM!NoHush ELSE [left |-> m, by |-> "keeper", age |-> 0]
<1>2. x \in HushRecs /\ x.left = m
  BY <1>1 DEF HushRecs, CM!NoHush
<1>3. hush' = [b \in Beings |-> IF b \notin Q THEN hush[b] ELSE x]
  BY DEF CM!Quietened
<1> HIDE DEF x
<1>4. decree' = [b \in Beings |-> IF b \in Q THEN m ELSE decree[b]]
  BY DEF CM!Quietened
<1>5. hush' \in [Beings -> HushRecs] /\ decree' \in [Beings -> Nat]
  BY <1>1, <1>2, <1>3, <1>4 DEF Hushed
<1>6. ASSUME NEW b \in Beings, hush'[b].left < decree'[b] PROVE <<"self", b, b>> \in commandGhosts'
  <2>1. CASE b \in Q
    BY <1>1, <1>2, <1>3, <1>4, <1>6, <2>1
  <2>2. CASE b \notin Q
    BY <1>3, <1>4, <1>6, <2>2 DEF Hushed
  <2> QED
    BY <2>1, <2>2
<1> QED
  BY <1>5, <1>6 DEF Hushed

(* A line is recorded.                                                     *)
LEMMA RecordsKeeps ==
  ASSUME CommandsKept, NEW s \in Beings, NEW busy \in SUBSET Beings, CM!Records(s, busy) PROVE CommandsKept'
<1> DEFINE n == Head(chain[s]).line
           l == lines[n]
           x == [l EXCEPT !.recorded = TRUE]
<1>1. /\ chain[s] # <<>> /\ chain' = [chain EXCEPT ![s] = Tail(@)]
      /\ lines' = [lines EXCEPT ![n] = x]
      /\ UNCHANGED <<topic, memory, disk, asked, crossed>>
  BY DEF CM!Records, CM!settings
<1>2. \/ l.order.set = "hush" /\ CM!Quietened(IF l.to = {} THEN busy ELSE l.to, l.order.value)
      \/ UNCHANGED <<hush, decree>>
  BY DEF CM!Records
<1>3. commandGhosts \subseteq commandGhosts'
  BY DEF CM!Records
<1>4. /\ n \in 1 .. Len(lines) /\ chain' \in [Beings -> Seq(Steps)]
      /\ \A r \in Beings : \A i \in 1 .. Len(chain'[r]) : chain'[r][i].line \in 1 .. Len(lines)
  BY <1>1, ChainGoesOn DEF CommandsKept
<1>5. l \in LineRecs
  BY <1>4, ElementOfSeq DEF CommandsKept, LinesTyped
<1>6. x \in LineRecs
  BY <1>5 DEF LineRecs
<1> HIDE DEF x, n
<1>7. lines' \in Seq(LineRecs)' /\ Len(lines') = Len(lines)
  BY <1>1, <1>4, <1>6, LineReplaced DEF CommandsKept
<1>8. LinesTyped'
  BY <1>4, <1>7 DEF LinesTyped
<1>9. SettingsTyped' /\ InForce'
  BY <1>1, SettingsRest DEF CommandsKept
<1>10. Hushed'
  <2>1. CASE UNCHANGED <<hush, decree>>
    BY <1>3, <2>1 DEF CommandsKept, Hushed
  <2>2. CASE l.order.set = "hush" /\ CM!Quietened(IF l.to = {} THEN busy ELSE l.to, l.order.value)
    <3> DEFINE Q == IF l.to = {} THEN busy ELSE l.to
               m == l.order.value
    <3>1. Q \in SUBSET Beings /\ l.order \in CM!Orders
      <4>1. l.order \in CM!Orders /\ l.to \in CM!Names
        BY <1>5 DEF LineRecs
      <4>2. l.to \in SUBSET Beings
        BY <4>1 DEF CM!Names
      <4> QED
        BY <4>1, <4>2
    <3>2. m \in {0, Minutes}
      BY <2>2, <3>1, OrderIs DEF CommandsKept, SettingsTyped
    <3>3. CM!Quietened(Q, m)
      BY <2>2
    <3> HIDE DEF Q, m
    <3> QED
      BY <1>3, <3>1, <3>2, <3>3, QuietAsOrdered DEF CommandsKept
  <2> QED
    BY <1>2, <2>1, <2>2
<1> QED
  BY <1>8, <1>9, <1>10 DEF CommandsKept

(* A being stops another or itself.                                        *)
LEMMA StopsKeeps ==
  ASSUME CommandsKept, NEW caller \in Beings, NEW b \in Beings, NEW m \in 1 .. Minutes, CM!StopsBeing(caller, b, m)
  PROVE  CommandsKept'
<1> DEFINE x == [left |-> m, by |-> caller, age |-> 0]
<1>1. /\ b # caller => hush[b].left = 0
      /\ hush' = [hush EXCEPT ![b] = x]
      /\ commandGhosts' = commandGhosts \cup (IF m < decree[b] THEN {<<"self", caller, b>>} ELSE {})
      /\ UNCHANGED <<topic, memory, disk, asked, crossed, lines, chain, decree>>
  BY DEF CM!StopsBeing, CM!settings
<1>2. Minutes \in Nat /\ m \in Nat
  BY HouseAssumption
<1>3. x \in HushRecs /\ x.left = m
  BY <1>2 DEF HushRecs
<1> HIDE DEF x
<1>4. hush \in [Beings -> HushRecs] /\ decree \in [Beings -> Nat]
  BY DEF CommandsKept, Hushed
<1>5. hush' \in [Beings -> HushRecs] /\ hush'[b] = x /\ \A a \in Beings : a # b => hush'[a] = hush[a]
  BY <1>1, <1>3, <1>4
<1>6. Hushed'
  <2> SUFFICES ASSUME NEW a \in Beings, hush'[a].left < decree[a] PROVE <<"self", a, a>> \in commandGhosts'
    BY <1>1, <1>4, <1>5 DEF Hushed
  <2>1. CASE a # b
    BY <1>1, <1>5, <2>1 DEF CommandsKept, Hushed
  <2>2. CASE a = b /\ b = caller
    BY <1>1, <1>3, <1>5, <2>2
  <2>3. CASE a = b /\ b # caller
    <3>1. m < decree[b] /\ hush[b].left = 0 /\ decree[b] \in Nat
      BY <1>1, <1>3, <1>4, <1>5, <2>3
    <3>2. hush[b].left < decree[b]
      BY <1>2, <3>1
    <3> QED
      BY <1>1, <2>3, <3>2 DEF CommandsKept, Hushed
  <2> QED
    BY <2>1, <2>2, <2>3
<1>7. LinesTyped'
  BY <1>1, LinesRest DEF CommandsKept
<1> QED
  BY <1>1, <1>6, <1>7, SettingsRest DEF CommandsKept

(* Time goes by.                                                           *)
LEMMA TickKeeps == ASSUME CommandsKept, CM!Tick PROVE CommandsKept'
<1>1. UNCHANGED <<topic, memory, disk, asked, crossed, lines, chain, commandGhosts>>
  BY DEF CM!Tick, CM!settings
<1>2. hush \in [Beings -> HushRecs] /\ decree \in [Beings -> Nat] /\ Minutes \in Nat
  BY HouseAssumption DEF CommandsKept, Hushed
<1>3. decree' = [b \in Beings |-> IF decree[b] > 0 THEN decree[b] - 1 ELSE 0]
  BY DEF CM!Tick
<1>4. ASSUME NEW b \in Beings
      PROVE  /\ hush'[b] \in HushRecs /\ hush'[b].left = IF hush[b].left > 0 THEN hush[b].left - 1 ELSE 0
  <2>1. hush'[b] = IF hush[b] = CM!NoHush THEN CM!NoHush
                   ELSE [hush[b] EXCEPT !.left = IF @ > 0 THEN @ - 1 ELSE 0, !.age = IF @ < Minutes THEN @ + 1 ELSE @]
    BY DEF CM!Tick
  <2>2. hush[b] \in HushRecs
    BY <1>2
  <2>3. CASE hush[b] = CM!NoHush
    BY <1>2, <2>1, <2>2, <2>3 DEF CM!NoHush, HushRecs
  <2>4. CASE hush[b] # CM!NoHush
    <3> DEFINE rest == IF hush[b].left > 0 THEN hush[b].left - 1 ELSE 0
               age == IF hush[b].age < Minutes THEN hush[b].age + 1 ELSE hush[b].age
    <3>1. hush'[b] = [hush[b] EXCEPT !.left = rest, !.age = age]
      BY <2>1, <2>4
    <3>2. hush[b].left \in 0 .. Minutes /\ hush[b].age \in Nat
      BY <2>2 DEF HushRecs
    <3>3. rest \in 0 .. Minutes /\ age \in Nat
      BY <1>2, <3>2
    <3> HIDE DEF rest, age
    <3>4. hush'[b] \in HushRecs /\ hush'[b].left = rest
      BY <2>2, <3>1, <3>3 DEF HushRecs
    <3> QED
      BY <3>4 DEF rest
  <2> QED
    BY <2>3, <2>4
<1>5. hush' \in [Beings -> HushRecs]
  <2>1. hush' = [b \in Beings |-> hush'[b]]
    BY DEF CM!Tick
  <2> QED
    BY <1>4, <2>1
<1>6. Hushed'
  <2>1. decree' \in [Beings -> Nat]
    BY <1>2, <1>3
  <2>2. ASSUME NEW b \in Beings, hush'[b].left < decree'[b] PROVE <<"self", b, b>> \in commandGhosts'
    <3>1. hush[b].left \in Nat /\ decree[b] \in Nat
      BY <1>2 DEF HushRecs
    <3>2. hush[b].left < decree[b]
      BY <1>3, <1>4, <2>2, <3>1
    <3> QED
      BY <1>1, <3>2 DEF CommandsKept, Hushed
  <2> QED
    BY <1>5, <2>1, <2>2 DEF Hushed
<1>7. LinesTyped'
  BY <1>1, LinesRest DEF CommandsKept
<1> QED
  BY <1>1, <1>6, <1>7, SettingsRest DEF CommandsKept

(* The process starts anew.                                                *)
LEMMA RestartKeeps == ASSUME CommandsKept, CM!Restart PROVE CommandsKept'
<1>1. /\ memory' = [k \in CM!Keys |-> 0] /\ chain' = [s \in Beings |-> <<>>]
      /\ asked' = IF topic \in {"rr", "mcf"} THEN CM!NothingAsked ELSE [asked EXCEPT !.prompt = asked.kept]
      /\ crossed' = IF topic \in {"rr", "mcf"} THEN {} ELSE crossed
      /\ UNCHANGED <<topic, disk, hush, lines, decree, commandGhosts>>
  BY DEF CM!Restart, CM!Unset
<1>2. topic \in Topics /\ disk \in [CM!Keys -> Nat] /\ asked \in AskedRecs
  BY DEF CommandsKept, SettingsTyped
<1>3. memory' \in [CM!Keys -> Nat] /\ \A k \in CM!Keys : memory'[k] = 0
  BY <1>1
<1>4. "rr" \in CM!Keys /\ "secret" \in CM!Keys /\ Whose \subseteq CM!Keys /\ Beings \subseteq Whose
  BY DEF CM!Keys, CM!Room, Whose
<1>5. CM!NothingAsked = [roll |-> 0, own |-> [x \in Whose |-> 0], prompt |-> [b \in Beings |-> 0],
                         kept |-> [b \in Beings |-> 0], secret |-> 0]
  BY DEF CM!NothingAsked, CM!Unset, CM!Room, Whose
<1>6. SettingsTyped' /\ InForce'
  <2>1. CASE topic \in {"rr", "mcf"}
    <3>1. asked' = CM!NothingAsked
      BY <1>1, <2>1
    <3>2. asked' \in AskedRecs /\ asked'.roll = 0 /\ \A x \in Whose : asked'.own[x] = 0
      BY <1>5, <3>1 DEF AskedRecs
    <3> QED
      BY <1>1, <1>2, <1>3, <1>4, <2>1, <3>2 DEF SettingsTyped, InForce
  <2>2. CASE topic \notin {"rr", "mcf"}
    <3>1. asked' = [asked EXCEPT !.prompt = asked.kept] /\ crossed' = crossed
      BY <1>1, <2>2
    <3>2. /\ asked' \in AskedRecs /\ asked'.prompt = asked.kept /\ asked'.kept = asked.kept
          /\ asked'.own = asked.own /\ asked'.secret = asked.secret
      BY <1>2, <3>1 DEF AskedRecs
    <3>3. SettingsTyped'
      BY <1>1, <1>2, <1>3, <3>2 DEF SettingsTyped
    <3>4. InForce'
      BY <1>1, <1>3, <1>4, <2>2, <3>1, <3>2 DEF CommandsKept, InForce
    <3> QED
      BY <3>3, <3>4
  <2> QED
    BY <2>1, <2>2
<1>7. LinesTyped'
  <2>1. <<>> \in Seq(Steps) /\ Len(<<>>) = 0
    BY EmptySeq
  <2>2. chain' \in [Beings -> Seq(Steps)] /\ \A s \in Beings : Len(chain'[s]) = 0
    BY <1>1, <2>1
  <2>3. lines' \in Seq(LineRecs)'
    BY <1>1, LinesStay DEF CommandsKept
  <2> QED
    BY <2>2, <2>3 DEF LinesTyped
<1>8. Hushed'
  BY <1>1 DEF CommandsKept, Hushed
<1> QED
  BY <1>6, <1>7, <1>8 DEF CommandsKept

(* What a line's run writes, in each tier.                                 *)
LEMMA WrittenIs ==
  ASSUME NEW tier \in [CM!Keys -> Nat], topic \in Topics, NEW l \in LineRecs
  PROVE  /\ CM!Written(tier, l) \in [CM!Keys -> Nat]
         /\ \A k \in CM!Keys : CM!Written(tier, l)[k] = IF k \in CM!Scope(l) THEN l.order.value ELSE tier[k]
<1>1. l.order.value \in Nat
  BY OrderIs DEF LineRecs
<1> QED
  BY <1>1 DEF CM!Written

(* Whom a line is about.                                                   *)
LEMMA ScopeIs ==
  ASSUME topic \in Topics, NEW l \in LineRecs, ~CM!Refused(l)
  PROVE  /\ topic \in {"rr", "secret"} => CM!Scope(l) = {topic}
         /\ topic \in {"h-default", "sysprompt"} => CM!Scope(l) = l.to
         /\ l.to \subseteq Beings /\ (topic = "mcf" => CM!Scope(l) \subseteq Whose)
<1>1. l.to \in CM!Names
  BY DEF LineRecs
<1>2. l.to \subseteq Beings
  BY <1>1 DEF CM!Names
<1>3. CASE topic \in {"rr", "secret"}
  <2>1. l.to = {}
    BY <1>1, <1>3 DEF CM!Names
  <2> QED
    BY <1>2, <1>3, <2>1 DEF CM!Scope
<1>4. CASE topic \in {"h-default", "sysprompt"}
  <2>1. l.to # {}
    BY <1>4 DEF CM!Refused
  <2> QED
    BY <1>2, <1>4, <2>1 DEF CM!Scope
<1>5. CASE topic \in {"mcf", "stop"}
  BY <1>2, <1>5 DEF CM!Scope, CM!Room, Whose
<1> QED
  BY <1>3, <1>4, <1>5 DEF Topics

(* A line run by a seat behind the others leaves its mark.                 *)
LEMMA BehindKeeps ==
  ASSUME SettingsTyped, InForce, NEW l \in LineRecs, ~CM!Refused(l), UNCHANGED <<topic, asked>>,
         memory' = IF CM!InMemory THEN CM!Written(memory, l) ELSE memory,
         disk' = IF CM!OnDisk(l) THEN CM!Written(disk, l) ELSE disk,
         crossed' = crossed \cup CM!Scope(l)
  PROVE  SettingsTyped' /\ InForce'
<1>1. topic \in Topics /\ memory \in [CM!Keys -> Nat] /\ disk \in [CM!Keys -> Nat]
  BY DEF SettingsTyped
<1>2. /\ CM!Written(memory, l) \in [CM!Keys -> Nat] /\ CM!Written(disk, l) \in [CM!Keys -> Nat]
      /\ \A k \in CM!Keys : k \notin CM!Scope(l) =>
           CM!Written(memory, l)[k] = memory[k] /\ CM!Written(disk, l)[k] = disk[k]
  BY <1>1, WrittenIs
<1>3. /\ memory' \in [CM!Keys -> Nat] /\ disk' \in [CM!Keys -> Nat]
      /\ \A k \in CM!Keys : k \notin crossed' => k \notin crossed /\ memory'[k] = memory[k] /\ disk'[k] = disk[k]
  BY <1>1, <1>2
<1>4. "rr" \in CM!Keys /\ "secret" \in CM!Keys /\ Whose \subseteq CM!Keys /\ Beings \subseteq Whose
  BY DEF CM!Keys, CM!Room, Whose
<1>5. SettingsTyped'
  BY <1>3 DEF SettingsTyped
<1> HIDE DEF SettingsTyped
<1>6. InForce'
  BY <1>3, <1>4 DEF InForce
<1> QED
  BY <1>5, <1>6

(* What a line asks for.                                                   *)
LEMMA AskedIs ==
  ASSUME SettingsTyped, NEW l \in LineRecs, ~CM!Refused(l), topic # "stop"
  PROVE  /\ CM!Asked(l) \in AskedRecs
         /\ topic = "rr" => CM!Asked(l).roll = l.order.value
         /\ topic = "secret" => CM!Asked(l).secret = l.order.value
         /\ topic \in {"mcf", "h-default"} => \A x \in Whose :
              CM!Asked(l).own[x] = IF x \in CM!Scope(l) THEN l.order.value ELSE asked.own[x]
         /\ topic = "sysprompt" => \A x \in Beings :
              /\ CM!Asked(l).prompt[x] = IF x \in l.to THEN l.order.value ELSE asked.prompt[x]
              /\ CM!Asked(l).kept[x] = IF x \in l.to /\ l.order.set # "temp" THEN l.order.value ELSE asked.kept[x]
<1> DEFINE v == l.order.value
           a == CM!Asked(l)
           own == [x \in Whose |-> IF x \in CM!Scope(l) THEN v ELSE asked.own[x]]
           prompt == [x \in Beings |-> IF x \in l.to THEN v ELSE asked.prompt[x]]
           kept == [x \in Beings |-> IF x \in l.to /\ l.order.set # "temp" THEN v ELSE asked.kept[x]]
<1>1. topic \in Topics /\ v \in Nat /\ asked \in AskedRecs
  BY OrderIs DEF SettingsTyped, LineRecs
<1>2. /\ asked.own \in [Whose -> Nat] /\ asked.prompt \in [Beings -> Nat] /\ asked.kept \in [Beings -> Nat]
      /\ asked.roll \in Nat /\ asked.secret \in Nat
  BY <1>1 DEF AskedRecs
<1>3. own \in [Whose -> Nat] /\ prompt \in [Beings -> Nat] /\ kept \in [Beings -> Nat]
  BY <1>1, <1>2
<1>4. topic = "rr" => a = [asked EXCEPT !.roll = v]
  BY DEF CM!Asked
<1>5. topic \in {"mcf", "h-default"} => a = [asked EXCEPT !.own = own]
  BY DEF CM!Asked, CM!Room, Whose
<1>6. topic = "sysprompt" => a = [asked EXCEPT !.prompt = prompt, !.kept = kept]
  BY DEF CM!Asked
<1>7. topic = "secret" => a = [asked EXCEPT !.secret = v]
  BY DEF CM!Asked
<1>8. /\ \A x \in Whose : own[x] = IF x \in CM!Scope(l) THEN v ELSE asked.own[x]
      /\ \A x \in Beings : prompt[x] = IF x \in l.to THEN v ELSE asked.prompt[x]
      /\ \A x \in Beings : kept[x] = IF x \in l.to /\ l.order.set # "temp" THEN v ELSE asked.kept[x]
  OBVIOUS
<1> HIDE DEF own, prompt, kept, v, a
<1>9. /\ topic = "rr" => a \in AskedRecs /\ a.roll = v
      /\ topic = "secret" => a \in AskedRecs /\ a.secret = v
      /\ topic \in {"mcf", "h-default"} => a \in AskedRecs /\ a.own = own
      /\ topic = "sysprompt" => a \in AskedRecs /\ a.prompt = prompt /\ a.kept = kept
  BY <1>1, <1>2, <1>3, <1>4, <1>5, <1>6, <1>7 DEF AskedRecs
<1>10. a \in AskedRecs
  BY <1>1, <1>9 DEF Topics
<1> QED
  BY <1>8, <1>9, <1>10 DEF v, a

(* A line run first is what is last asked for.                             *)
LEMMA AheadKeeps ==
  ASSUME SettingsTyped, InForce, NEW l \in LineRecs, ~CM!Refused(l), topic # "stop", topic' = topic,
         memory' = IF CM!InMemory THEN CM!Written(memory, l) ELSE memory,
         disk' = IF CM!OnDisk(l) THEN CM!Written(disk, l) ELSE disk,
         asked' = CM!Asked(l),
         crossed' = IF l.order.set = "temp" THEN crossed ELSE crossed \ CM!Scope(l)
  PROVE  SettingsTyped' /\ InForce'
<1> DEFINE v == l.order.value
           sc == CM!Scope(l)
<1>1. topic \in Topics /\ memory \in [CM!Keys -> Nat] /\ disk \in [CM!Keys -> Nat] /\ v \in Nat
  BY OrderIs DEF SettingsTyped, LineRecs
<1>2. /\ CM!Written(memory, l) \in [CM!Keys -> Nat] /\ CM!Written(disk, l) \in [CM!Keys -> Nat]
      /\ \A k \in CM!Keys : CM!Written(memory, l)[k] = IF k \in sc THEN v ELSE memory[k]
      /\ \A k \in CM!Keys : CM!Written(disk, l)[k] = IF k \in sc THEN v ELSE disk[k]
  BY <1>1, WrittenIs
<1>3. /\ memory' \in [CM!Keys -> Nat] /\ disk' \in [CM!Keys -> Nat]
      /\ CM!InMemory => \A k \in CM!Keys : memory'[k] = IF k \in sc THEN v ELSE memory[k]
      /\ ~CM!InMemory => memory' = memory
      /\ CM!OnDisk(l) => \A k \in CM!Keys : disk'[k] = IF k \in sc THEN v ELSE disk[k]
      /\ ~CM!OnDisk(l) => disk' = disk
  BY <1>1, <1>2
<1>4. "rr" \in CM!Keys /\ "secret" \in CM!Keys /\ Whose \subseteq CM!Keys /\ Beings \subseteq Whose
  BY DEF CM!Keys, CM!Room, Whose
<1>5. /\ topic \in {"rr", "secret"} => sc = {topic}
      /\ topic \in {"h-default", "sysprompt"} => sc = l.to
  BY <1>1, ScopeIs
<1>6. /\ asked' \in AskedRecs
      /\ topic = "rr" => asked'.roll = v
      /\ topic = "secret" => asked'.secret = v
      /\ topic \in {"mcf", "h-default"} => \A x \in Whose : asked'.own[x] = IF x \in sc THEN v ELSE asked.own[x]
      /\ topic = "sysprompt" => \A x \in Beings :
           /\ asked'.prompt[x] = IF x \in l.to THEN v ELSE asked.prompt[x]
           /\ asked'.kept[x] = IF x \in l.to /\ l.order.set # "temp" THEN v ELSE asked.kept[x]
  BY AskedIs
<1>7. topic = "sysprompt" => l.order.set \in {"temp", "override", "reset"} /\ (l.order.set = "temp" => v # 0)
  BY <1>1, OrderIs DEF LineRecs
<1>8. \A x : x \notin crossed' => x \in sc \/ x \notin crossed
  OBVIOUS
<1>9. SettingsTyped'
  BY <1>1, <1>3, <1>6 DEF SettingsTyped
<1> DEFINE temp == l.order.set = "temp"
<1>10. /\ topic \in {"rr", "mcf", "sysprompt"} => CM!InMemory
       /\ topic \in {"h-default", "secret"} => CM!OnDisk(l)
       /\ topic = "sysprompt" => (CM!OnDisk(l) <=> l.order.set # "temp")
  BY <1>7 DEF CM!InMemory, CM!OnDisk
<1> HIDE DEF v, sc, temp, SettingsTyped
<1>11. CASE topic = "rr"
  <2>1. memory'["rr"] = v /\ asked'.roll = v
    BY <1>3, <1>4, <1>5, <1>6, <1>10, <1>11
  <2> QED
    BY <1>9, <1>11, <2>1 DEF InForce
<1>12. CASE topic = "secret"
  <2>1. disk'["secret"] = v /\ asked'.secret = v
    BY <1>3, <1>4, <1>5, <1>6, <1>10, <1>12
  <2> QED
    BY <1>9, <1>12, <2>1 DEF InForce
<1>13. CASE topic = "mcf"
  <2>1. ASSUME NEW x \in Whose, x \notin crossed' PROVE memory'[x] = asked'.own[x]
    <3>1. memory'[x] = IF x \in sc THEN v ELSE memory[x]
      BY <1>3, <1>4, <1>10, <1>13
    <3>2. asked'.own[x] = IF x \in sc THEN v ELSE asked.own[x]
      BY <1>6, <1>13
    <3> QED
      BY <1>8, <1>13, <2>1, <3>1, <3>2 DEF InForce
  <2> QED
    BY <1>9, <1>13, <2>1 DEF InForce
<1>14. CASE topic = "h-default"
  <2>1. ASSUME NEW x \in Beings, x \notin crossed' PROVE disk'[x] = asked'.own[x]
    <3>1. disk'[x] = IF x \in sc THEN v ELSE disk[x]
      BY <1>3, <1>4, <1>10, <1>14
    <3>2. asked'.own[x] = IF x \in sc THEN v ELSE asked.own[x]
      BY <1>4, <1>6, <1>14
    <3> QED
      BY <1>8, <1>14, <2>1, <3>1, <3>2 DEF InForce
  <2> QED
    BY <1>9, <1>14, <2>1 DEF InForce
<1>15. CASE topic = "sysprompt"
  <2>1. ASSUME NEW x \in Beings, x \notin crossed'
        PROVE  disk'[x] = asked'.kept[x] /\ asked'.prompt[x] = IF memory'[x] # 0 THEN memory'[x] ELSE disk'[x]
    <3>1. /\ memory'[x] = IF x \in sc THEN v ELSE memory[x]
          /\ disk'[x] = IF x \in sc /\ l.order.set # "temp" THEN v ELSE disk[x]
      BY <1>3, <1>4, <1>10, <1>15
    <3>2. /\ asked'.prompt[x] = IF x \in sc THEN v ELSE asked.prompt[x]
          /\ asked'.kept[x] = IF x \in sc /\ l.order.set # "temp" THEN v ELSE asked.kept[x]
      BY <1>5, <1>6, <1>15
    <3>3. CASE x \notin sc
      BY <1>8, <1>15, <2>1, <3>1, <3>2, <3>3 DEF InForce
    <3>4. CASE x \in sc /\ l.order.set # "temp"
      BY <3>1, <3>2, <3>4
    <3>5. CASE x \in sc /\ l.order.set = "temp"
      <4>1. x \notin crossed /\ v # 0
        BY <1>7, <1>15, <2>1, <3>5
      <4> QED
        BY <1>15, <3>1, <3>2, <3>5, <4>1 DEF InForce
    <3> QED
      BY <3>3, <3>4, <3>5
  <2> QED
    BY <1>9, <1>15, <2>1 DEF InForce
<1> QED
  BY <1>1, <1>11, <1>12, <1>13, <1>14, <1>15 DEF Topics

(* A seat runs a line.                                                     *)
LEMMA RunsKeeps == ASSUME CommandsKept, NEW s \in Beings, NEW n \in DOMAIN lines, CM!Runs(s, n) PROVE CommandsKept'
<1> DEFINE l == lines[n]
           sets == ~CM!Refused(l) /\ topic # "stop"
           undid == sets /\ CM!HadOne(l)
           x == [l EXCEPT !.due = @ \ {s}, !.ran = TRUE]
           y == [line |-> n, undid |-> undid]
<1>1. lines' = [lines EXCEPT ![n].due = @ \ {s}, ![n].ran = TRUE]
  BY DEF CM!Runs
<1>2. /\ memory' = IF sets /\ CM!InMemory THEN CM!Written(memory, l) ELSE memory
      /\ disk' = IF sets /\ CM!OnDisk(l) THEN CM!Written(disk, l) ELSE disk
      /\ chain' = [chain EXCEPT ![s] = Append(@, y)]
      /\ asked' = IF sets /\ ~CM!Behind(n) THEN CM!Asked(l) ELSE asked
      /\ crossed' = IF ~sets THEN crossed ELSE IF CM!Behind(n) THEN crossed \cup CM!Scope(l)
                    ELSE IF l.order.set = "temp" THEN crossed ELSE crossed \ CM!Scope(l)
      /\ UNCHANGED <<topic, hush, decree, commandGhosts>>
  BY DEF CM!Runs
<1>3. /\ lines \in Seq(LineRecs) /\ Len(lines) \in Nat /\ n \in 1 .. Len(lines) /\ l \in LineRecs
      /\ chain \in [Beings -> Seq(Steps)]
      /\ \A r \in Beings : \A i \in 1 .. Len(chain[r]) : chain[r][i].line \in 1 .. Len(lines)
  BY LenProperties, ElementOfSeq DEF CommandsKept, LinesTyped
<1>4. x \in LineRecs
  BY <1>3 DEF LineRecs
<1>5. lines' = [lines EXCEPT ![n] = x]
  BY <1>1, <1>3
<1>6. undid \in BOOLEAN
  OBVIOUS
<1> HIDE DEF x, undid
<1>7. y \in Steps /\ y.line = n
  BY <1>3, <1>6 DEF Steps
<1> HIDE DEF y
<1>8. lines' \in Seq(LineRecs)' /\ Len(lines') = Len(lines)
  BY <1>2, <1>3, <1>4, <1>5, LineReplaced DEF CommandsKept
<1>9. LinesTyped'
  <2> DEFINE c == Append(chain[s], y)
  <2>1. c \in Seq(Steps) /\ \A i \in 1 .. Len(c) : c[i].line \in 1 .. Len(lines)
    <3>1. chain[s] \in Seq(Steps) /\ Len(chain[s]) \in Nat
      BY <1>3, LenProperties
    <3>2. c \in Seq(Steps) /\ Len(c) = Len(chain[s]) + 1 /\ c[Len(chain[s]) + 1] = y
          /\ \A i \in 1 .. Len(chain[s]) : c[i] = chain[s][i]
      BY <1>7, <3>1, AppendProperties
    <3> HIDE DEF c
    <3>3. \A i \in 1 .. Len(c) : i \in 1 .. Len(chain[s]) \/ i = Len(chain[s]) + 1
      BY <3>1, <3>2
    <3> QED
      BY <1>3, <1>7, <3>2, <3>3
  <2>2. chain' = [chain EXCEPT ![s] = c]
    BY <1>2
  <2> HIDE DEF c
  <2>3. chain' \in [Beings -> Seq(Steps)] /\ chain'[s] = c /\ \A r \in Beings : r # s => chain'[r] = chain[r]
    BY <1>3, <2>1, <2>2
  <2>4. \A r \in Beings : \A i \in 1 .. Len(chain'[r]) : chain'[r][i].line \in 1 .. Len(lines')
    BY <1>3, <1>8, <2>1, <2>3
  <2> QED
    BY <1>8, <2>3, <2>4 DEF LinesTyped
<1>10. SettingsTyped' /\ InForce'
  <2> HIDE DEF l
  <2>1. CASE ~sets
    BY <1>2, <2>1, SettingsRest DEF CommandsKept
  <2>2. CASE sets /\ CM!Behind(n)
    BY <1>2, <1>3, <2>2, BehindKeeps DEF CommandsKept
  <2>3. CASE sets /\ ~CM!Behind(n)
    BY <1>2, <1>3, <2>3, AheadKeeps DEF CommandsKept
  <2> QED
    BY <2>1, <2>2, <2>3
<1>11. Hushed'
  BY <1>2 DEF CommandsKept, Hushed
<1> QED
  BY <1>9, <1>10, <1>11 DEF CommandsKept

(* A step of another part leaves the settings alone.                       *)
LEMMA CommandsRest == ASSUME CommandsKept, UNCHANGED commandVars PROVE CommandsKept'
<1>1. UNCHANGED <<topic, memory, disk, asked, crossed, hush, lines, chain, decree, commandGhosts>>
  BY DEF commandVars
<1>2. Hushed'
  BY <1>1 DEF CommandsKept, Hushed
<1> QED
  BY <1>1, <1>2, SettingsRest, LinesRest DEF CommandsKept

(* No step of the commands disturbs them.                                  *)
LEMMA CommandsNext == ASSUME CommandsKept, CM!Next PROVE CommandsKept'
  BY SaysKeeps, RunsKeeps, MissesKeeps, DuplicateKeeps, RecordsKeeps, StopsKeeps, TickKeeps, RestartKeeps DEF CM!Next

(* What the invariant says of the settings and the hushes.                 *)
LEMMA SettingsAreSound == ASSUME CommandsKept PROVE CM!CommandsSound
<1>1. CM!HushAsOrdered
  <2>1. hush \in [Beings -> HushRecs] /\ \A b \in Beings : hush[b].left < decree[b] => <<"self", b, b>> \in commandGhosts
    BY DEF CommandsKept, Hushed
  <2>2. \A b \in Beings : hush[b].left \in 0 .. Minutes
    BY <2>1 DEF HushRecs
  <2>3. \A b \in Beings : hush[b].left <= Minutes
    BY <2>2, HouseAssumption
  <2> QED
    BY <2>1, <2>3 DEF CM!HushAsOrdered
<1>2. CM!LastAskedInForce
  <2> SUFFICES ASSUME NEW b \in Beings, CM!Keyed(b) \cap crossed = {} PROVE CM!Used(b) = CM!AskedOf(b)
    BY DEF CM!LastAskedInForce
  <2>1. topic \in Topics /\ b \in Whose /\ "room" \in Whose
    BY DEF CommandsKept, SettingsTyped, Whose
  <2>2. b \notin crossed /\ (topic = "mcf" => "room" \notin crossed) /\ (topic \in {"rr", "secret"} => topic \notin crossed)
    BY DEF CM!Keyed, CM!Room
  <2>3. InForce
    BY DEF CommandsKept
  <2>4. CASE topic = "rr"
    BY <2>2, <2>3, <2>4 DEF InForce, CM!Used, CM!AskedOf
  <2>5. CASE topic = "mcf"
    BY <2>1, <2>2, <2>3, <2>5 DEF InForce, CM!Used, CM!AskedOf, CM!mcfBudget
  <2>6. CASE topic = "h-default"
    BY <2>2, <2>3, <2>6 DEF InForce, CM!Used, CM!AskedOf
  <2>7. CASE topic = "sysprompt"
    BY <2>2, <2>3, <2>7 DEF InForce, CM!Used, CM!AskedOf, CM!systemPrompt, CM!Unset
  <2>8. CASE topic = "secret"
    BY <2>2, <2>3, <2>8 DEF InForce, CM!Used, CM!AskedOf
  <2>9. CASE topic = "stop"
    BY <2>9 DEF CM!Used, CM!AskedOf
  <2> QED
    BY <2>1, <2>4, <2>5, <2>6, <2>7, <2>8, <2>9 DEF Topics
<1> QED
  BY <1>1, <1>2 DEF CM!CommandsSound

(* What a turn goes by: the settings as they were last asked for, a hush   *)
(* as long as its keeper ordered, and notes that are neither lost nor read *)
(* where they may not be.                                                  *)
THEOREM TurnsGoByWhatWasSet == MCSpec => []CommandsSound
<1>1. MCInit => CommandsKept /\ NotesKept
  BY CommandsStart, NotesStart DEF MCInit
<1>2. (CommandsKept /\ NotesKept) /\ [MCNext]_<<part, houseVars>> => (CommandsKept /\ NotesKept)'
  <2> SUFFICES ASSUME CommandsKept, NotesKept, [MCNext]_<<part, houseVars>>
               PROVE  (CommandsKept /\ NotesKept)'
    OBVIOUS
  <2>1. CM!Next \/ UNCHANGED commandVars
    BY DEF MCNext, houseVars
  <2>2. NO!Next \/ UNCHANGED notesVars
    BY DEF MCNext, houseVars, toolVars
  <2>3. CommandsKept'
    BY <2>1, CommandsNext, CommandsRest
  <2>4. NotesKept'
    BY <2>2, NotesNext, NotesRest
  <2> QED
    BY <2>3, <2>4
<1>3. (CommandsKept /\ NotesKept) => CommandsSound
  BY SettingsAreSound, NotesAreSound DEF CommandsSound
<1> QED
  BY <1>1, <1>2, <1>3, PTL DEF MCSpec

-----------------------------------------------------------------------------
(* The links, while no write of the app has crossed another: the map, what *)
(* it says of a handle, the codes, and what the app has read.              *)
Limits == 0 .. LK!NoLimit
EntryRecs ==
  [id : Accounts, handle : LK!Handles, linked : BOOLEAN, kind : {"none", "ai", "human"}, limit : Limits]
CodeRecs == [of : Owners, state : {"open", "used"}]

(* An account has one entry, and is linked to the handle of a user only.   *)
MapFit ==
  /\ map \in Seq(EntryRecs)
  /\ \A i, j \in 1 .. Len(map) : map[i].id = map[j].id => i = j
  /\ \A i \in 1 .. Len(map) : map[i].linked => map[i].handle \in Owners
(* Each marked entry of a handle is within the least limit set on it, and  *)
(* what a keeper is sure is human has no mark.                             *)
IsAI(h, i) == map[i].handle = h /\ map[i].kind = "ai"
Unmarked(h) == \A i \in 1 .. Len(map) : ~IsAI(h, i)
WordFit(h) ==
  /\ \A i \in 1 .. Len(map) : IsAI(h, i) => map[i].limit <= cap[h]
  /\ Unmarked(h) => cap[h] = LK!NoLimit
  /\ h \in sure => Unmarked(h) /\ \E i \in 1 .. Len(map) : map[i].handle = h /\ map[i].kind = "human"
WordsFit == cap \in [LK!Handles -> Limits] /\ \A h \in LK!Handles \ ghosts : WordFit(h)
(* An open code was redeemed by nobody; revoked ones are not open.         *)
CodesFit ==
  /\ codes \in Seq(CodeRecs) /\ redeemed \in Seq(Seq(Accounts)) /\ Len(redeemed) = Len(codes)
  /\ \A n \in 1 .. Len(codes) : /\ Len(redeemed[n]) <= 1
                                /\ codes[n].state = "open" => redeemed[n] = <<>>
RevokedFit ==
  /\ left \in [Owners -> SUBSET (1 .. Len(codes))] /\ away \in [Owners -> SUBSET (1 .. Len(codes))]
  /\ \A h \in Owners : /\ away[h] \subseteq left[h]
                       /\ \A n \in left[h] : codes[n] # LK!Code(h)
(* A link goes back to a code of its handle the account redeemed.          *)
By(s, id) == \E k \in 1 .. Len(s) : s[k] = id
Proven(h, id) == \E n \in 1 .. Len(codes) : n \notin away[h] /\ codes[n].of = h /\ By(redeemed[n], id)
LinkedTo(h, i) == map[i].linked /\ map[i].handle = h
HoldFit == \A h \in Owners : \A i \in 1 .. Len(map) : LinkedTo(h, i) => Proven(h, map[i].id)
DraftFit == draft.op # "none" => draft.of \in Owners /\ DOMAIN draft = {"op", "of", "map", "codes"}

LinksKept ==
  "crossed" \in ghosts \/ (MapFit /\ WordsFit /\ CodesFit /\ RevokedFit /\ HoldFit /\ DraftFit)

(* At first no account is known and no code minted.                        *)
LEMMA LinksStart == LK!Init => LinksKept
<1> SUFFICES ASSUME LK!Init PROVE LinksKept
  OBVIOUS
<1>1. /\ map = <<>> /\ codes = <<>> /\ draft.op = "none" /\ redeemed = <<>>
      /\ left = [o \in Owners |-> {}] /\ away = [o \in Owners |-> {}]
      /\ cap = [h \in LK!Handles |-> LK!NoLimit] /\ sure = {}
  BY DEF LK!Init, LK!NoDraft
<1>2. Len(map) = 0 /\ Len(codes) = 0 /\ Len(redeemed) = 0
  BY <1>1
<1>3. LK!NoLimit \in Limits
  BY HouseAssumption DEF Limits, LK!NoLimit
<1>4. MapFit
  BY <1>1, <1>2, EmptySeq DEF MapFit
<1>5. WordsFit
  BY <1>1, <1>2, <1>3 DEF WordsFit, WordFit, Unmarked
<1>6. CodesFit /\ RevokedFit
  <2>1. CodesFit
    BY <1>1, <1>2, EmptySeq DEF CodesFit
  <2>2. RevokedFit
    BY <1>1, <1>2 DEF RevokedFit
  <2> QED
    BY <2>1, <2>2
<1>7. HoldFit /\ DraftFit
  BY <1>1, <1>2 DEF HoldFit, DraftFit
<1> QED
  BY <1>4, <1>5, <1>6, <1>7 DEF LinksKept

(* Each entry of the map is written anew, in its place and still of the    *)
(* same account.                                                           *)
SameAccounts == \A i \in 1 .. Len(map) :
  map'[i] \in EntryRecs /\ map'[i].id = map[i].id /\ (map'[i].linked => map'[i].handle \in Owners)

(* A map with its entries so written fits.                                 *)
LEMMA Rewritten ==
  ASSUME MapFit, map' \in [1 .. Len(map) -> EntryRecs], SameAccounts
  PROVE  MapFit' /\ Len(map') = Len(map)
<1>1. Len(map) \in Nat
  BY LenProperties DEF MapFit
<1>2. map' \in Seq(EntryRecs) /\ Len(map') = Len(map)
  BY <1>1, IsASeq, LenProperties
<1>3. \A i, j \in 1 .. Len(map') : map'[i].id = map'[j].id => i = j
  BY <1>2 DEF MapFit, SameAccounts
<1>4. \A i \in 1 .. Len(map') : map'[i].linked => map'[i].handle \in Owners
  BY <1>2 DEF SameAccounts
<1> QED
  BY <1>2, <1>3, <1>4 DEF MapFit

(* A handle the entries of which are as they were.                         *)
LEMMA WordStays ==
  ASSUME NEW h, WordFit(h), Len(map') = Len(map), cap'[h] = cap[h], h \in sure' => h \in sure,
         \A i \in 1 .. Len(map) : /\ map'[i].handle = h <=> map[i].handle = h
                                  /\ map[i].handle = h => map'[i].kind = map[i].kind /\ map'[i].limit = map[i].limit
  PROVE  WordFit(h)'
<1>1. \A i \in 1 .. Len(map) : IsAI(h, i)' <=> IsAI(h, i)
  BY DEF IsAI
<1>2. Unmarked(h)' <=> Unmarked(h)
  BY <1>1 DEF Unmarked
<1>3. \A i \in 1 .. Len(map') : IsAI(h, i)' => map'[i].limit <= cap'[h]
  BY <1>1 DEF WordFit, IsAI
<1> QED
  BY <1>2, <1>3 DEF WordFit

(* The codes and the links, where nothing of them changes.                 *)
LEMMA CodesRest ==
  ASSUME CodesFit, RevokedFit, UNCHANGED <<codes, redeemed, left, away>>
  PROVE  CodesFit' /\ RevokedFit'
<1>1. CodesFit'
  BY DEF CodesFit
<1>2. RevokedFit'
  BY DEF RevokedFit, LK!Code
<1> QED
  BY <1>1, <1>2

(* The links keep where entries are rewritten that stay as linked as they  *)
(* were.                                                                   *)
LEMMA HoldRest ==
  ASSUME HoldFit, UNCHANGED <<codes, redeemed, away>>, Len(map') = Len(map),
         \A i \in 1 .. Len(map) : map'[i].id = map[i].id /\ (map'[i].linked => map[i].linked /\ map'[i].handle = map[i].handle)
  PROVE  HoldFit'
<1>1. \A h \in Owners : \A i \in 1 .. Len(map) : LinkedTo(h, i)' => LinkedTo(h, i)
  BY DEF LinkedTo
<1>2. \A h, id : Proven(h, id) => Proven(h, id)'
  BY DEF Proven, By
<1> QED
  BY <1>1, <1>2 DEF HoldFit

(* A set of numbers has a least one.                                       *)
LEMMA Least ==
  ASSUME NEW U, U \subseteq Nat, U # {}
  PROVE  \E n \in U : \A m \in U : n <= m
<1>1. IsWellFoundedOn(OpToRel(<, Nat), Nat)
  BY NatLessThanWellFounded
<1>2. PICK n \in U : \A m \in U : ~(<<m, n>> \in OpToRel(<, Nat))
  BY <1>1, WFMin
<1>3. \A m \in U : m < n => <<m, n>> \in OpToRel(<, Nat)
  BY DEF OpToRel
<1>4. \A m \in U : ~(m < n)
  BY <1>2, <1>3, Zenon
<1> QED
  BY <1>4

(* What the map says of a handle.                                          *)
LEMMA KindIs ==
  ASSUME MapFit, NEW h
  PROVE  /\ LK!KindOf(h) = "ai" <=> ~Unmarked(h)
         /\ LK!KindOf(h) = "human" <=> Unmarked(h) /\ \E i \in 1 .. Len(map) : map[i].handle = h /\ map[i].kind = "human"
<1>1. DOMAIN map = 1 .. Len(map)
  BY LenProperties DEF MapFit
<1>2. LK!Marked(h) # {} <=> ~Unmarked(h)
  BY <1>1 DEF LK!Marked, Unmarked, IsAI
<1> QED
  BY <1>1, <1>2 DEF LK!KindOf

(* A handle's limit is within the least that was set on it.                *)
LEMMA LimitIs ==
  ASSUME MapFit, NEW h, WordFit(h)
  PROVE  /\ LK!LimitOf(h) <= cap[h] /\ LK!LimitOf(h) \in Limits
         /\ Unmarked(h) => LK!LimitOf(h) = LK!NoLimit
<1>1. DOMAIN map = 1 .. Len(map) /\ LK!NoLimit \in Nat
  BY LenProperties, HouseAssumption DEF MapFit, LK!NoLimit
<1>2. LK!Marked(h) # {} <=> ~Unmarked(h)
  BY <1>1 DEF LK!Marked, Unmarked, IsAI
<1>3. CASE LK!Marked(h) = {}
  BY <1>1, <1>2, <1>3 DEF LK!LimitOf, WordFit, Limits
<1>4. CASE LK!Marked(h) # {}
  <2> DEFINE k == LK!Min(LK!Marked(h))
  <2>1. LK!Marked(h) \subseteq Nat
    BY <1>1 DEF LK!Marked
  <2>2. k \in LK!Marked(h)
    <3>1. \E n \in LK!Marked(h) : \A m \in LK!Marked(h) : n <= m
      BY <1>4, <2>1, Least
    <3> QED
      BY <3>1 DEF LK!Min
  <2>3. LK!LimitOf(h) = map[k].limit
    BY <1>4 DEF LK!LimitOf
  <2> HIDE DEF k
  <2>4. k \in 1 .. Len(map) /\ IsAI(h, k)
    BY <1>1, <2>2 DEF LK!Marked, IsAI
  <2>5. map[k] \in EntryRecs
    BY <2>4, ElementOfSeq DEF MapFit
  <2>6. map[k].limit \in Limits
    BY <2>5 DEF EntryRecs
  <2> QED
    BY <1>2, <1>4, <2>3, <2>4, <2>6 DEF WordFit
<1> QED
  BY <1>3, <1>4

(* What the invariant says of the links.                                   *)
LEMMA LinksAreSound == ASSUME LinksKept PROVE LK!LinksSound
<1> SUFFICES ASSUME "crossed" \notin ghosts
             PROVE  /\ \A n \in DOMAIN redeemed : Len(redeemed[n]) <= 1
                    /\ \A h \in Owners : LK!Holds(h) /\ \A n \in left[h] : codes[n] # LK!Code(h)
                    /\ \A h \in LK!Handles \ ghosts : LK!Stands(h)
  BY DEF LK!LinksSound
<1>1. MapFit /\ WordsFit /\ CodesFit /\ RevokedFit /\ HoldFit
  BY DEF LinksKept
<1>2. /\ DOMAIN map = 1 .. Len(map) /\ DOMAIN codes = 1 .. Len(codes)
      /\ DOMAIN redeemed = 1 .. Len(codes)
  BY <1>1, LenProperties DEF MapFit, CodesFit
<1>3. \A n \in DOMAIN redeemed : Len(redeemed[n]) <= 1
  BY <1>1, <1>2 DEF CodesFit
<1>4. ASSUME NEW h \in Owners PROVE LK!Holds(h)
  <2> SUFFICES ASSUME NEW i \in 1 .. Len(map), map[i].linked, map[i].handle = h
               PROVE  \E n \in DOMAIN codes \ away[h] : codes[n].of = h /\ LK!Contains(redeemed[n], map[i].id)
    BY <1>2 DEF LK!Holds
  <2>1. Proven(h, map[i].id)
    BY <1>1 DEF HoldFit, LinkedTo
  <2> QED
    BY <1>2, <2>1 DEF Proven, By, LK!Contains
<1>5. \A h \in Owners : \A n \in left[h] : codes[n] # LK!Code(h)
  BY <1>1 DEF RevokedFit
<1>6. ASSUME NEW h \in LK!Handles \ ghosts PROVE LK!Stands(h)
  <2>1. WordFit(h)
    BY <1>1 DEF WordsFit
  <2>2. LK!LimitOf(h) <= cap[h]
    BY <1>1, <2>1, LimitIs
  <2>3. h \in sure => LK!KindOf(h) = "human"
    BY <1>1, <2>1, KindIs DEF WordFit
  <2> QED
    BY <2>2, <2>3 DEF LK!Stands
<1> QED
  BY <1>3, <1>4, <1>5, <1>6

(* An account is seen for the first time.                                  *)
LEMMA SeesKeeps == ASSUME LinksKept, NEW id \in Accounts, LK!Sees(id) PROVE LinksKept'
<1> DEFINE e == LK!Entry(id, id, FALSE)
<1>1. /\ ~LK!Known(id) /\ map' = Append(map, e)
      /\ UNCHANGED <<codes, redeemed, left, away, draft, cap, sure, ghosts>>
  BY DEF LK!Sees, LK!CodeState
<1> SUFFICES ASSUME "crossed" \notin ghosts PROVE LinksKept'
  BY <1>1 DEF LinksKept
<1>2. MapFit /\ WordsFit /\ CodesFit /\ RevokedFit /\ HoldFit /\ DraftFit
  BY DEF LinksKept
<1>3. /\ e \in EntryRecs /\ e.id = id /\ ~e.linked /\ e.kind = "none"
  BY HouseAssumption DEF LK!Entry, EntryRecs, LK!Handles, Limits, LK!NoLimit
<1> HIDE DEF e
<1>4. /\ map \in Seq(EntryRecs) /\ Len(map) \in Nat /\ DOMAIN map = 1 .. Len(map)
  BY <1>2, LenProperties DEF MapFit
<1>5. /\ map' \in Seq(EntryRecs) /\ Len(map') = Len(map) + 1 /\ map'[Len(map) + 1] = e
      /\ \A i \in 1 .. Len(map) : map'[i] = map[i]
  BY <1>1, <1>3, <1>4, AppendProperties
<1>6. \A i \in 1 .. Len(map) : map[i].id # id
  BY <1>1, <1>4 DEF LK!Known
<1>7. \A i \in 1 .. Len(map') : (i \in 1 .. Len(map) /\ map'[i] = map[i]) \/ (i = Len(map) + 1 /\ map'[i] = e)
  BY <1>4, <1>5
<1>8. 1 .. Len(map) \subseteq 1 .. Len(map')
  BY <1>4, <1>5
<1>9. MapFit'
  <2>1. \A i, j \in 1 .. Len(map') : map'[i].id = map'[j].id => i = j
    BY <1>2, <1>3, <1>6, <1>7 DEF MapFit
  <2>2. \A i \in 1 .. Len(map') : map'[i].linked => map'[i].handle \in Owners
    BY <1>2, <1>3, <1>7 DEF MapFit
  <2> QED
    BY <1>5, <2>1, <2>2 DEF MapFit
<1>10. WordsFit'
  <2> SUFFICES ASSUME NEW h \in LK!Handles \ ghosts PROVE WordFit(h)'
    BY <1>1, <1>2 DEF WordsFit
  <2>1. WordFit(h)
    BY <1>2 DEF WordsFit
  <2>2. \A i \in 1 .. Len(map') : IsAI(h, i)' => i \in 1 .. Len(map) /\ map'[i] = map[i] /\ IsAI(h, i)
    BY <1>3, <1>7 DEF IsAI
  <2>3. \A i \in 1 .. Len(map) : IsAI(h, i) => IsAI(h, i)'
    BY <1>5 DEF IsAI
  <2>4. Unmarked(h)' <=> Unmarked(h)
    BY <1>8, <2>2, <2>3 DEF Unmarked
  <2>5. (\E i \in 1 .. Len(map) : map[i].handle = h /\ map[i].kind = "human")
          => \E i \in 1 .. Len(map') : map'[i].handle = h /\ map'[i].kind = "human"
    BY <1>5, <1>8
  <2> QED
    BY <1>1, <2>1, <2>2, <2>4, <2>5 DEF WordFit
<1>11. CodesFit' /\ RevokedFit'
  BY <1>1, <1>2, CodesRest
<1>12. HoldFit'
  <2>1. \A h \in Owners : \A i \in 1 .. Len(map') : LinkedTo(h, i)' => i \in 1 .. Len(map) /\ map'[i] = map[i] /\ LinkedTo(h, i)
    BY <1>3, <1>7 DEF LinkedTo
  <2>2. \A h, a : Proven(h, a) => Proven(h, a)'
    BY <1>1 DEF Proven, By
  <2> QED
    BY <1>2, <2>1, <2>2 DEF HoldFit
<1>13. DraftFit'
  BY <1>1, <1>2 DEF DraftFit
<1> QED
  BY <1>9, <1>10, <1>11, <1>12, <1>13 DEF LinksKept

(* A handle is marked: by a keeper, or within what the map says of it.     *)
LEMMA MarksKeeps ==
  ASSUME LinksKept, NEW h \in LK!Handles, NEW keeper \in BOOLEAN, NEW limit \in Limits, LK!Marks(h, limit, keeper)
  PROVE  LinksKept'
<1>1. /\ LK!Named(h) /\ LK!MayMark(h, limit, keeper) /\ map' = LK!Kinded(h, "ai", limit)
      /\ cap' = [cap EXCEPT ![h] = IF keeper \/ limit < @ THEN limit ELSE @]
      /\ sure' = IF keeper THEN sure \ {h} ELSE sure
      /\ UNCHANGED <<codes, redeemed, left, away, draft, ghosts>>
  BY DEF LK!Marks, LK!CodeState
<1> SUFFICES ASSUME "crossed" \notin ghosts PROVE LinksKept'
  BY <1>1 DEF LinksKept
<1>2. MapFit /\ WordsFit /\ CodesFit /\ RevokedFit /\ HoldFit /\ DraftFit
  BY DEF LinksKept
<1>3. /\ map \in Seq(EntryRecs) /\ Len(map) \in Nat /\ DOMAIN map = 1 .. Len(map) /\ LK!NoLimit \in Nat
  BY <1>2, LenProperties, HouseAssumption DEF MapFit, LK!NoLimit
<1>4. ASSUME NEW i \in 1 .. Len(map)
      PROVE  /\ map'[i] \in EntryRecs /\ map'[i].id = map[i].id
             /\ map'[i].handle = map[i].handle /\ map'[i].linked = map[i].linked
             /\ map[i].handle = h => map'[i].kind = "ai" /\ map'[i].limit = limit
             /\ map[i].handle # h => map'[i] = map[i]
  <2>1. map'[i] = IF map[i].handle = h THEN [map[i] EXCEPT !.kind = "ai", !.limit = limit] ELSE map[i]
    BY <1>1, <1>3 DEF LK!Kinded
  <2>2. map[i] \in EntryRecs
    BY <1>3, ElementOfSeq
  <2> QED
    BY <2>1, <2>2 DEF EntryRecs
<1>5. map' \in [1 .. Len(map) -> EntryRecs]
  <2>1. map' = [i \in 1 .. Len(map) |-> map'[i]]
    BY <1>1, <1>3 DEF LK!Kinded
  <2> QED
    BY <1>4, <2>1
<1>6. SameAccounts
  BY <1>2, <1>4 DEF SameAccounts, MapFit
<1>7. MapFit' /\ Len(map') = Len(map)
  BY <1>2, <1>5, <1>6, Rewritten
<1>8. HoldFit'
  BY <1>1, <1>2, <1>4, <1>7, HoldRest
<1>9. CodesFit' /\ RevokedFit'
  BY <1>1, <1>2, CodesRest
<1>10. DraftFit'
  BY <1>1, <1>2 DEF DraftFit
<1>11. cap \in [LK!Handles -> Limits]
  BY <1>2 DEF WordsFit
<1>12. cap' \in [LK!Handles -> Limits] /\ \A g \in LK!Handles : g # h => cap'[g] = cap[g]
  BY <1>1, <1>11
<1>13. WordsFit'
  <2> SUFFICES ASSUME NEW g \in LK!Handles \ ghosts PROVE WordFit(g)'
    BY <1>1, <1>12 DEF WordsFit
  <2>1. WordFit(g)
    BY <1>2 DEF WordsFit
  <2>2. CASE g # h
    <3>1. cap'[g] = cap[g] /\ (g \in sure' => g \in sure)
      BY <1>1, <1>12, <2>2
    <3> QED
      BY <1>4, <1>7, <2>1, <2>2, <3>1, WordStays
  <2>3. CASE g = h
    <3>1. \A i \in 1 .. Len(map) : map[i].handle = h => IsAI(h, i)' /\ map'[i].limit = limit
      BY <1>4 DEF IsAI
    <3>2. \E i \in 1 .. Len(map) : map[i].handle = h
      BY <1>1, <1>3 DEF LK!Named
    <3>3. ~Unmarked(h)'
      BY <1>7, <3>1, <3>2 DEF Unmarked
    <3>4. h \notin sure'
      <4>1. CASE keeper
        BY <1>1, <4>1
      <4>2. CASE ~keeper
        <5>1. LK!KindOf(h) # "human"
          BY <1>1, <4>2 DEF LK!MayMark
        <5> QED
          BY <1>1, <1>2, <2>1, <2>3, <4>2, <5>1, KindIs DEF WordFit
      <4> QED
        BY <4>1, <4>2
    <3>5. limit <= cap'[h]
      <4>1. cap'[h] = IF keeper \/ limit < cap[h] THEN limit ELSE cap[h]
        BY <1>1, <1>11
      <4>2. cap[h] \in Nat /\ limit \in Nat
        BY <1>3, <1>11 DEF Limits
      <4>3. CASE keeper
        BY <4>1, <4>2, <4>3
      <4>4. CASE ~keeper
        <5>1. limit <= LK!LimitOf(h)
          BY <1>1, <4>4 DEF LK!MayMark
        <5>2. LK!LimitOf(h) <= cap[h]
          BY <1>2, <2>1, <2>3, LimitIs
        <5>3. LK!LimitOf(h) \in Limits /\ LK!LimitOf(h) \in Nat
          BY <1>2, <1>3, <2>1, <2>3, LimitIs DEF Limits
        <5> QED
          BY <4>1, <4>2, <4>4, <5>1, <5>2, <5>3
      <4> QED
        BY <4>3, <4>4
    <3>6. \A i \in 1 .. Len(map') : IsAI(h, i)' => map'[i].limit <= cap'[h]
      BY <1>4, <1>7, <3>1, <3>5 DEF IsAI
    <3> QED
      BY <2>3, <3>3, <3>4, <3>6 DEF WordFit
  <2> QED
    BY <2>2, <2>3
<1> QED
  BY <1>7, <1>8, <1>9, <1>10, <1>13 DEF LinksKept

(* A keeper clears a handle's marks.                                       *)
LEMMA ClearsKeeps == ASSUME LinksKept, NEW h \in LK!Handles, LK!Clears(h) PROVE LinksKept'
<1>1. /\ LK!Named(h) /\ map' = LK!Kinded(h, "human", LK!NoLimit)
      /\ cap' = [cap EXCEPT ![h] = LK!NoLimit] /\ sure' = sure \cup {h}
      /\ UNCHANGED <<codes, redeemed, left, away, draft, ghosts>>
  BY DEF LK!Clears, LK!CodeState
<1> SUFFICES ASSUME "crossed" \notin ghosts PROVE LinksKept'
  BY <1>1 DEF LinksKept
<1>2. MapFit /\ WordsFit /\ CodesFit /\ RevokedFit /\ HoldFit /\ DraftFit
  BY DEF LinksKept
<1>3. /\ map \in Seq(EntryRecs) /\ Len(map) \in Nat /\ DOMAIN map = 1 .. Len(map) /\ LK!NoLimit \in Limits
  BY <1>2, LenProperties, HouseAssumption DEF MapFit, LK!NoLimit, Limits
<1>4. ASSUME NEW i \in 1 .. Len(map)
      PROVE  /\ map'[i] \in EntryRecs /\ map'[i].id = map[i].id
             /\ map'[i].handle = map[i].handle /\ map'[i].linked = map[i].linked
             /\ map[i].handle = h => map'[i].kind = "human"
             /\ map[i].handle # h => map'[i] = map[i]
  <2>1. map'[i] = IF map[i].handle = h THEN [map[i] EXCEPT !.kind = "human", !.limit = LK!NoLimit] ELSE map[i]
    BY <1>1, <1>3 DEF LK!Kinded
  <2>2. map[i] \in EntryRecs
    BY <1>3, ElementOfSeq
  <2> QED
    BY <1>3, <2>1, <2>2 DEF EntryRecs
<1>5. map' \in [1 .. Len(map) -> EntryRecs]
  <2>1. map' = [i \in 1 .. Len(map) |-> map'[i]]
    BY <1>1, <1>3 DEF LK!Kinded
  <2> QED
    BY <1>4, <2>1
<1>6. SameAccounts
  BY <1>2, <1>4 DEF SameAccounts, MapFit
<1>7. MapFit' /\ Len(map') = Len(map)
  BY <1>2, <1>5, <1>6, Rewritten
<1>8. HoldFit'
  BY <1>1, <1>2, <1>4, <1>7, HoldRest
<1>9. CodesFit' /\ RevokedFit'
  BY <1>1, <1>2, CodesRest
<1>10. DraftFit'
  BY <1>1, <1>2 DEF DraftFit
<1>11. /\ cap' \in [LK!Handles -> Limits] /\ cap'[h] = LK!NoLimit
       /\ \A g \in LK!Handles : g # h => cap'[g] = cap[g]
  BY <1>1, <1>2, <1>3 DEF WordsFit
<1>12. WordsFit'
  <2> SUFFICES ASSUME NEW g \in LK!Handles \ ghosts PROVE WordFit(g)'
    BY <1>1, <1>11 DEF WordsFit
  <2>1. WordFit(g)
    BY <1>2 DEF WordsFit
  <2>2. CASE g # h
    <3>1. cap'[g] = cap[g] /\ (g \in sure' => g \in sure)
      BY <1>1, <1>11, <2>2
    <3> QED
      BY <1>4, <1>7, <2>1, <2>2, <3>1, WordStays
  <2>3. CASE g = h
    <3>1. \A i \in 1 .. Len(map') : ~IsAI(h, i)'
      BY <1>4, <1>7 DEF IsAI
    <3>2. \E i \in 1 .. Len(map') : map'[i].handle = h /\ map'[i].kind = "human"
      BY <1>1, <1>3, <1>4, <1>7 DEF LK!Named
    <3> QED
      BY <1>11, <2>3, <3>1, <3>2 DEF WordFit, Unmarked
  <2> QED
    BY <2>2, <2>3
<1> QED
  BY <1>7, <1>8, <1>9, <1>10, <1>12 DEF LinksKept

(* A pseudonym is renamed: no account is linked to one.                    *)
LEMMA RenamesKeeps == ASSUME LinksKept, NEW before \in Accounts, NEW after \in Owners, LK!Rechristens(before, after) PROVE LinksKept'
<1>1. /\ map' = [i \in DOMAIN map |-> IF map[i].handle = before THEN [map[i] EXCEPT !.handle = after] ELSE map[i]]
      /\ ghosts' = ghosts \cup {before, after}
      /\ UNCHANGED <<codes, redeemed, left, away, draft, cap, sure>>
  BY DEF LK!Rechristens, LK!CodeState
<1> SUFFICES ASSUME "crossed" \notin ghosts PROVE LinksKept'
  BY <1>1 DEF LinksKept
<1>2. MapFit /\ WordsFit /\ CodesFit /\ RevokedFit /\ HoldFit /\ DraftFit
  BY DEF LinksKept
<1>3. /\ map \in Seq(EntryRecs) /\ Len(map) \in Nat /\ DOMAIN map = 1 .. Len(map) /\ before \notin Owners
  BY <1>2, LenProperties, HouseAssumption DEF MapFit
<1>4. ASSUME NEW i \in 1 .. Len(map)
      PROVE  /\ map'[i] \in EntryRecs /\ map'[i].id = map[i].id /\ map'[i].linked = map[i].linked
             /\ map[i].handle = before => map'[i].handle = after /\ ~map[i].linked
             /\ map[i].handle # before => map'[i] = map[i]
  <2>1. map'[i] = IF map[i].handle = before THEN [map[i] EXCEPT !.handle = after] ELSE map[i]
    BY <1>1, <1>3
  <2>2. map[i] \in EntryRecs /\ after \in LK!Handles
    BY <1>3, ElementOfSeq DEF LK!Handles
  <2>3. map[i].handle = before => ~map[i].linked
    BY <1>2, <1>3 DEF MapFit
  <2> QED
    BY <2>1, <2>2, <2>3 DEF EntryRecs
<1>5. map' \in [1 .. Len(map) -> EntryRecs]
  <2>1. map' = [i \in 1 .. Len(map) |-> map'[i]]
    BY <1>1, <1>3
  <2> QED
    BY <1>4, <2>1
<1>6. SameAccounts
  BY <1>2, <1>4 DEF SameAccounts, MapFit
<1>7. MapFit' /\ Len(map') = Len(map)
  BY <1>2, <1>5, <1>6, Rewritten
<1>8. HoldFit'
  <2>1. \A i \in 1 .. Len(map) : map'[i].id = map[i].id /\ (map'[i].linked => map[i].linked /\ map'[i].handle = map[i].handle)
    BY <1>4
  <2> QED
    BY <1>1, <1>2, <1>7, <2>1, HoldRest
<1>9. CodesFit' /\ RevokedFit'
  BY <1>1, <1>2, CodesRest
<1>10. DraftFit'
  BY <1>1, <1>2 DEF DraftFit
<1>11. WordsFit'
  <2> SUFFICES ASSUME NEW g \in LK!Handles \ ghosts' PROVE WordFit(g)'
    BY <1>1, <1>2 DEF WordsFit
  <2>1. WordFit(g) /\ g # before /\ g # after
    BY <1>1, <1>2 DEF WordsFit
  <2>2. \A i \in 1 .. Len(map) : /\ map'[i].handle = g <=> map[i].handle = g
                                 /\ map[i].handle = g => map'[i].kind = map[i].kind /\ map'[i].limit = map[i].limit
    BY <1>4, <2>1
  <2> QED
    BY <1>1, <1>7, <2>1, <2>2, WordStays
<1> QED
  BY <1>7, <1>8, <1>9, <1>10, <1>11 DEF LinksKept

(* What does not touch the map nor the codes.                              *)
LEMMA MapRest ==
  ASSUME MapFit, WordsFit, UNCHANGED <<map, cap, sure>>, ghosts \subseteq ghosts'
  PROVE  MapFit' /\ WordsFit'
<1>1. MapFit'
  BY DEF MapFit
<1>2. \A h \in LK!Handles \ ghosts' : WordFit(h)'
  BY DEF WordsFit, WordFit, Unmarked, IsAI
<1> QED
  BY <1>1, <1>2 DEF WordsFit

(* A step that touches none of the files, but maybe the draft.             *)
LEMMA LinksRest ==
  ASSUME LinksKept, UNCHANGED <<map, codes, redeemed, left, away, cap, sure, ghosts>>, DraftFit => DraftFit'
  PROVE  LinksKept'
<1> SUFFICES ASSUME "crossed" \notin ghosts PROVE LinksKept'
  BY DEF LinksKept
<1>1. MapFit /\ WordsFit /\ CodesFit /\ RevokedFit /\ HoldFit /\ DraftFit'
  BY DEF LinksKept
<1>2. MapFit' /\ WordsFit'
  BY <1>1, MapRest
<1>3. CodesFit' /\ RevokedFit'
  BY <1>1, CodesRest
<1>4. HoldFit'
  BY <1>1 DEF HoldFit, LinkedTo, Proven, By
<1> QED
  BY <1>1, <1>2, <1>3, <1>4 DEF LinksKept

(* The app reads.                                                          *)
LEMMA ReadsKeeps ==
  ASSUME LinksKept, NEW op \in {"mint", "revoke", "disconnect"}, NEW h \in Owners, LK!AppReads(op, h)
  PROVE  LinksKept'
<1>1. /\ draft' = [op |-> op, of |-> h, map |-> map, codes |-> codes]
      /\ UNCHANGED <<map, codes, redeemed, left, away, cap, sure, ghosts>>
  BY DEF LK!AppReads, LK!CodeState
<1>2. DraftFit'
  BY <1>1 DEF DraftFit
<1> QED
  BY <1>1, <1>2, LinksRest

(* The app mints a code, and has read the codes as they are.               *)
LEMMA MintKeeps ==
  ASSUME MapFit, WordsFit, CodesFit, RevokedFit, HoldFit, NEW h \in Owners,
         codes' = LK!Minted(codes, h), redeemed' = Append(redeemed, <<>>), UNCHANGED <<map, left, away>>
  PROVE  CodesFit' /\ RevokedFit' /\ HoldFit'
<1> DEFINE c == LK!Code(h)
<1>1. c \in CodeRecs /\ codes' = Append(codes, c)
  BY DEF LK!Code, CodeRecs, LK!Minted
<1> HIDE DEF c
<1>2. /\ codes \in Seq(CodeRecs) /\ redeemed \in Seq(Seq(Accounts)) /\ Len(redeemed) = Len(codes) /\ Len(codes) \in Nat
      /\ <<>> \in Seq(Accounts) /\ Len(<<>>) = 0
  BY LenProperties, EmptySeq DEF CodesFit
<1>3. /\ codes' \in Seq(CodeRecs) /\ Len(codes') = Len(codes) + 1
      /\ \A n \in 1 .. Len(codes) : codes'[n] = codes[n]
  BY <1>1, <1>2, AppendProperties
<1>4. /\ redeemed' \in Seq(Seq(Accounts)) /\ Len(redeemed') = Len(redeemed) + 1 /\ redeemed'[Len(redeemed) + 1] = <<>>
      /\ \A n \in 1 .. Len(redeemed) : redeemed'[n] = redeemed[n]
  BY <1>2, AppendProperties
<1>5. \A n \in 1 .. Len(codes') : n \in 1 .. Len(codes) \/ n = Len(codes) + 1
  BY <1>2, <1>3
<1>6. 1 .. Len(codes) \subseteq 1 .. Len(codes')
  BY <1>2, <1>3
<1>7. CodesFit'
  <2>1. \A n \in 1 .. Len(codes') : Len(redeemed'[n]) <= 1 /\ (codes'[n].state = "open" => redeemed'[n] = <<>>)
    BY <1>2, <1>3, <1>4, <1>5 DEF CodesFit
  <2> QED
    BY <1>2, <1>3, <1>4, <2>1 DEF CodesFit
<1>8. RevokedFit'
  <2>1. left' \in [Owners -> SUBSET (1 .. Len(codes'))] /\ away' \in [Owners -> SUBSET (1 .. Len(codes'))]
    BY <1>6 DEF RevokedFit
  <2>2. \A g \in Owners : away'[g] \subseteq left'[g] /\ \A n \in left'[g] : codes'[n] # LK!Code(g)
    BY <1>3 DEF RevokedFit
  <2> QED
    BY <2>1, <2>2 DEF RevokedFit, LK!Code
<1>9. HoldFit'
  <2>1. ASSUME NEW g \in Owners, NEW id, Proven(g, id) PROVE Proven(g, id)'
    <3>1. PICK n \in 1 .. Len(codes) : n \notin away[g] /\ codes[n].of = g /\ By(redeemed[n], id)
      BY <2>1 DEF Proven
    <3>2. n \in 1 .. Len(codes') /\ codes'[n] = codes[n] /\ redeemed'[n] = redeemed[n]
      BY <1>2, <1>3, <1>4, <1>6
    <3>3. By(redeemed'[n], id)
      BY <3>1, <3>2
    <3> QED
      BY <3>1, <3>2, <3>3 DEF Proven, By
  <2> QED
    BY <2>1 DEF HoldFit, LinkedTo
<1> QED
  BY <1>7, <1>8, <1>9

(* The app revokes a user's codes.                                         *)
LEMMA RevokeKeeps ==
  ASSUME CodesFit, RevokedFit, HoldFit, NEW h \in Owners,
         codes' = LK!Revoked(codes, h), left' = [left EXCEPT ![h] = DOMAIN codes], UNCHANGED <<map, redeemed, away>>
  PROVE  CodesFit' /\ RevokedFit' /\ HoldFit'
<1>1. codes \in Seq(CodeRecs) /\ Len(codes) \in Nat /\ DOMAIN codes = 1 .. Len(codes)
  BY LenProperties DEF CodesFit
<1>2. ASSUME NEW n \in 1 .. Len(codes)
      PROVE  /\ codes'[n] \in CodeRecs /\ codes'[n].of = codes[n].of /\ codes'[n] # LK!Code(h)
             /\ codes'[n] # codes[n] => codes'[n].state = "used"
  <2>1. codes'[n] = IF codes[n] = LK!Code(h) THEN [codes[n] EXCEPT !.state = "used"] ELSE codes[n]
    BY <1>1 DEF LK!Revoked
  <2>2. codes[n] \in CodeRecs
    BY <1>1, ElementOfSeq
  <2>3. CASE codes[n] = LK!Code(h)
    BY <2>1, <2>2, <2>3 DEF CodeRecs, LK!Code
  <2>4. CASE codes[n] # LK!Code(h)
    BY <2>1, <2>2, <2>4
  <2> QED
    BY <2>3, <2>4
<1>3. codes' \in Seq(CodeRecs) /\ Len(codes') = Len(codes)
  <2>1. codes' = [n \in 1 .. Len(codes) |-> codes'[n]]
    BY <1>1 DEF LK!Revoked
  <2>2. codes' \in [1 .. Len(codes) -> CodeRecs]
    BY <1>2, <2>1
  <2> QED
    BY <1>1, <2>2, IsASeq, LenProperties
<1>4. CodesFit'
  <2>1. \A n \in 1 .. Len(codes) : codes'[n].state = "open" => codes[n].state = "open"
    BY <1>2
  <2> QED
    BY <1>3, <2>1 DEF CodesFit
<1>5. RevokedFit'
  <2>1. left' \in [Owners -> SUBSET (1 .. Len(codes'))] /\ away' \in [Owners -> SUBSET (1 .. Len(codes'))]
    BY <1>1, <1>3 DEF RevokedFit
  <2>2. ASSUME NEW g \in Owners PROVE away'[g] \subseteq left'[g] /\ \A n \in left'[g] : codes'[n] # LK!Code(g)
    <3>1. CASE g = h
      BY <1>1, <1>2, <3>1 DEF RevokedFit
    <3>2. CASE g # h
      <4>1. left'[g] = left[g] /\ left[g] \subseteq 1 .. Len(codes)
        BY <3>2 DEF RevokedFit
      <4>2. \A n \in left[g] : codes'[n] # LK!Code(g)
        <5> SUFFICES ASSUME NEW n \in left[g], codes'[n] = LK!Code(g) PROVE FALSE
          OBVIOUS
        <5>1. codes'[n] = codes[n]
          BY <1>2, <4>1 DEF LK!Code
        <5> QED
          BY <5>1 DEF RevokedFit
      <4> QED
        BY <4>1, <4>2 DEF RevokedFit
    <3> QED
      BY <3>1, <3>2
  <2> QED
    BY <2>1, <2>2 DEF RevokedFit, LK!Code
<1>6. HoldFit'
  <2>1. ASSUME NEW g \in Owners, NEW id, Proven(g, id) PROVE Proven(g, id)'
    BY <1>2, <1>3, <2>1 DEF Proven, By
  <2> QED
    BY <2>1 DEF HoldFit, LinkedTo
<1> QED
  BY <1>4, <1>5, <1>6

(* The app has unlinked what was a user's, the codes being revoked.        *)
LEMMA UnlinkKeeps ==
  ASSUME MapFit, WordsFit, CodesFit, RevokedFit, HoldFit, NEW h \in Owners,
         map' = LK!Unlinked(map, h), away' = [away EXCEPT ![h] = left[h]],
         UNCHANGED <<codes, redeemed, left, cap, sure>>, ghosts \subseteq ghosts'
  PROVE  MapFit' /\ WordsFit' /\ CodesFit' /\ RevokedFit' /\ HoldFit'
<1>1. map \in Seq(EntryRecs) /\ Len(map) \in Nat /\ DOMAIN map = 1 .. Len(map)
  BY LenProperties DEF MapFit
<1>2. ASSUME NEW i \in 1 .. Len(map)
      PROVE  /\ map'[i] \in EntryRecs /\ map'[i].id = map[i].id /\ map'[i].handle = map[i].handle
             /\ map'[i].kind = map[i].kind /\ map'[i].limit = map[i].limit
             /\ map'[i].linked => map[i].linked /\ map[i].handle # h
  <2>1. map'[i] = IF map[i].handle = h THEN [map[i] EXCEPT !.linked = FALSE] ELSE map[i]
    BY <1>1 DEF LK!Unlinked
  <2>2. map[i] \in EntryRecs
    BY <1>1, ElementOfSeq
  <2> QED
    BY <2>1, <2>2 DEF EntryRecs
<1>3. map' \in [1 .. Len(map) -> EntryRecs]
  <2>1. map' = [i \in 1 .. Len(map) |-> map'[i]]
    BY <1>1 DEF LK!Unlinked
  <2> QED
    BY <1>2, <2>1
<1>4. SameAccounts
  BY <1>2 DEF SameAccounts, MapFit
<1>5. MapFit' /\ Len(map') = Len(map)
  BY <1>3, <1>4, Rewritten
<1>6. WordsFit'
  <2> SUFFICES ASSUME NEW g \in LK!Handles \ ghosts' PROVE WordFit(g)'
    BY DEF WordsFit
  <2>1. WordFit(g)
    BY DEF WordsFit
  <2>2. \A i \in 1 .. Len(map) : /\ map'[i].handle = g <=> map[i].handle = g
                                 /\ map[i].handle = g => map'[i].kind = map[i].kind /\ map'[i].limit = map[i].limit
    BY <1>2
  <2> QED
    BY <1>5, <2>1, <2>2, WordStays
<1>7. CodesFit'
  BY DEF CodesFit
<1>8. /\ away' \in [Owners -> SUBSET (1 .. Len(codes))]
      /\ \A g \in Owners : away'[g] = IF g = h THEN left[h] ELSE away[g]
  BY DEF RevokedFit
<1>9. RevokedFit'
  <2>1. \A g \in Owners : away'[g] \subseteq left[g]
    BY <1>8 DEF RevokedFit
  <2>2. \A g \in Owners : \A n \in left[g] : codes[n] # LK!Code(g)
    BY DEF RevokedFit
  <2>3. left \in [Owners -> SUBSET (1 .. Len(codes))]
    BY DEF RevokedFit
  <2> QED
    BY <1>8, <2>1, <2>2, <2>3 DEF RevokedFit, LK!Code
<1>10. HoldFit'
  <2> SUFFICES ASSUME NEW g \in Owners, NEW i \in 1 .. Len(map), map'[i].linked, map'[i].handle = g,
                      NEW a, a = map'[i].id
               PROVE  Proven(g, a)'
    BY <1>5 DEF HoldFit, LinkedTo
  <2>1. map[i].linked /\ map[i].handle = g /\ g # h
    BY <1>2
  <2>2. Proven(g, map[i].id)
    BY <2>1 DEF HoldFit, LinkedTo
  <2>3. away'[g] = away[g]
    BY <1>8, <2>1
  <2>4. PICK n \in 1 .. Len(codes) : n \notin away[g] /\ codes[n].of = g /\ By(redeemed[n], a)
    BY <1>2, <2>2 DEF Proven
  <2> QED
    BY <2>3, <2>4 DEF Proven, By
<1> QED
  BY <1>5, <1>6, <1>7, <1>9, <1>10

(* The app writes what it had read.                                        *)
LEMMA WritesKeeps == ASSUME LinksKept, LK!AppWrites PROVE LinksKept'
<1> DEFINE h == draft.of
<1>1. UNCHANGED <<cap, sure>> /\ ghosts \subseteq ghosts' /\ draft.op # "none"
  BY DEF LK!AppWrites
<1> SUFFICES ASSUME "crossed" \notin ghosts' PROVE LinksKept'
  BY DEF LinksKept
<1>2. MapFit /\ WordsFit /\ CodesFit /\ RevokedFit /\ HoldFit /\ DraftFit
  BY <1>1 DEF LinksKept
<1>3. h \in Owners /\ DOMAIN draft = {"op", "of", "map", "codes"}
  BY <1>1, <1>2 DEF DraftFit
<1>4. CASE draft.op = "mint"
  <2>1. /\ draft' = LK!NoDraft /\ codes' = LK!Minted(draft.codes, h) /\ redeemed' = Append(redeemed, <<>>)
        /\ ghosts' = ghosts \cup LK!Crossing(draft.codes, codes) /\ UNCHANGED <<map, left, away>>
    BY <1>4 DEF LK!AppWrites
  <2>2. draft.codes = codes
    BY <2>1 DEF LK!Crossing
  <2> HIDE DEF h
  <2>3. CodesFit' /\ RevokedFit' /\ HoldFit'
    BY <1>2, <1>3, <2>1, <2>2, MintKeeps
  <2>4. MapFit' /\ WordsFit'
    BY <1>1, <1>2, <2>1, MapRest
  <2>5. DraftFit'
    BY <2>1 DEF DraftFit, LK!NoDraft
  <2> QED
    BY <2>3, <2>4, <2>5 DEF LinksKept
<1>5. CASE draft.op \in {"revoke", "disconnect"}
  <2>1. /\ draft' = IF draft.op = "revoke" THEN LK!NoDraft ELSE [draft EXCEPT !.op = "unlink", !.map = map]
        /\ codes' = LK!Revoked(draft.codes, h) /\ left' = [left EXCEPT ![h] = DOMAIN codes]
        /\ ghosts' = ghosts \cup LK!Crossing(draft.codes, codes) /\ UNCHANGED <<map, redeemed, away>>
    BY <1>5 DEF LK!AppWrites
  <2>2. draft.codes = codes
    BY <2>1 DEF LK!Crossing
  <2>3. DraftFit'
    <3>1. CASE draft.op = "revoke"
      BY <2>1, <3>1 DEF DraftFit, LK!NoDraft
    <3>2. CASE draft.op # "revoke"
      BY <1>3, <2>1, <3>2 DEF DraftFit
    <3> QED
      BY <3>1, <3>2
  <2> HIDE DEF h
  <2>4. CodesFit' /\ RevokedFit' /\ HoldFit'
    BY <1>2, <1>3, <2>1, <2>2, RevokeKeeps
  <2>5. MapFit' /\ WordsFit'
    BY <1>1, <1>2, <2>1, MapRest
  <2> QED
    BY <2>3, <2>4, <2>5 DEF LinksKept
<1>6. CASE draft.op = "unlink"
  <2>1. /\ draft' = LK!NoDraft /\ map' = LK!Unlinked(draft.map, h) /\ away' = [away EXCEPT ![h] = left[h]]
        /\ ghosts' = ghosts \cup LK!Crossing(draft.map, map) /\ UNCHANGED <<codes, redeemed, left>>
    BY <1>6 DEF LK!AppWrites
  <2>2. draft.map = map
    BY <2>1 DEF LK!Crossing
  <2> HIDE DEF h
  <2>3. MapFit' /\ WordsFit' /\ CodesFit' /\ RevokedFit' /\ HoldFit'
    BY <1>1, <1>2, <1>3, <2>1, <2>2, UnlinkKeeps
  <2>4. DraftFit'
    BY <2>1 DEF DraftFit, LK!NoDraft
  <2> QED
    BY <2>3, <2>4 DEF LinksKept
<1> QED
  BY <1>4, <1>5, <1>6 DEF LK!AppWrites

(* A code is marked used, by an account.                                   *)
LEMMA UsedKeeps ==
  ASSUME CodesFit, RevokedFit, NEW n \in 1 .. Len(codes), codes[n].state = "open", NEW h, h = codes[n].of, NEW id \in Accounts,
         codes' = [codes EXCEPT ![n].state = "used"], redeemed' = [redeemed EXCEPT ![n] = Append(@, id)],
         UNCHANGED <<left, away>>
  PROVE  /\ CodesFit' /\ RevokedFit'
         /\ \A g \in Owners, a \in Accounts : Proven(g, a) => Proven(g, a)'
         /\ Proven(h, id)'
<1> DEFINE c == [codes[n] EXCEPT !.state = "used"]
<1>1. /\ codes \in Seq(CodeRecs) /\ Len(codes) \in Nat /\ DOMAIN codes = 1 .. Len(codes) /\ codes \in [1 .. Len(codes) -> CodeRecs]
      /\ redeemed \in Seq(Seq(Accounts)) /\ Len(redeemed) = Len(codes) /\ redeemed \in [1 .. Len(codes) -> Seq(Accounts)]
  BY LenProperties DEF CodesFit
<1>2. codes[n] \in CodeRecs
  BY <1>1
<1>3. c \in CodeRecs /\ c.of = h /\ c.state = "used" /\ codes[n] = LK!Code(h) /\ h \in Owners
  BY <1>2 DEF CodeRecs, LK!Code
<1>4. codes' = [codes EXCEPT ![n] = c]
  BY <1>1
<1> HIDE DEF c
<1>5. /\ codes' \in [1 .. Len(codes) -> CodeRecs] /\ codes'[n] = c
      /\ \A m \in 1 .. Len(codes) : m # n => codes'[m] = codes[m]
  BY <1>1, <1>3, <1>4
<1>6. codes' \in Seq(CodeRecs) /\ Len(codes') = Len(codes)
  BY <1>1, <1>5, IsASeq, LenProperties
<1> DEFINE s == <<id>>
<1>7. redeemed[n] = <<>>
  BY DEF CodesFit
<1>8. Append(redeemed[n], id) = s
  BY <1>7
<1>9. s \in Seq(Accounts) /\ Len(s) = 1 /\ By(s, id)
  BY DEF By
<1> HIDE DEF s
<1>10. /\ redeemed' \in [1 .. Len(codes) -> Seq(Accounts)] /\ redeemed'[n] = s
       /\ \A m \in 1 .. Len(codes) : m # n => redeemed'[m] = redeemed[m]
  BY <1>1, <1>8, <1>9
<1>11. redeemed' \in Seq(Seq(Accounts)) /\ Len(redeemed') = Len(codes)
  BY <1>1, <1>10, IsASeq, LenProperties
<1>12. CodesFit'
  <2>1. ASSUME NEW m \in 1 .. Len(codes)
        PROVE  Len(redeemed'[m]) <= 1 /\ (codes'[m].state = "open" => redeemed'[m] = <<>>)
    <3>1. CASE m = n
      <4>1. Len(redeemed'[m]) <= 1
        BY <1>9, <1>10, <3>1
      <4>2. codes'[m].state # "open"
        BY <1>3, <1>5, <3>1
      <4> QED
        BY <4>1, <4>2
    <3>2. CASE m # n
      BY <1>5, <1>10, <3>2 DEF CodesFit
    <3> QED
      BY <3>1, <3>2
  <2> QED
    BY <1>6, <1>11, <2>1 DEF CodesFit
<1>13. \A m \in 1 .. Len(codes) : codes'[m].of = codes[m].of
  BY <1>3, <1>5
<1>14. \A g \in Owners : c # LK!Code(g)
  BY <1>3 DEF LK!Code
<1>15. RevokedFit'
  <2>1. left \in [Owners -> SUBSET (1 .. Len(codes))] /\ away \in [Owners -> SUBSET (1 .. Len(codes))]
    BY DEF RevokedFit
  <2>2. ASSUME NEW g \in Owners, NEW m \in left[g] PROVE codes'[m] # LK!Code(g)
    <3>1. m \in 1 .. Len(codes)
      BY <2>1, <2>2
    <3>2. codes[m] # LK!Code(g)
      BY <2>2 DEF RevokedFit
    <3> QED
      BY <1>5, <1>14, <3>1, <3>2
  <2>3. \A g \in Owners : away[g] \subseteq left[g]
    BY DEF RevokedFit
  <2> QED
    BY <1>6, <2>1, <2>2, <2>3 DEF RevokedFit, LK!Code
<1>16. ASSUME NEW g \in Owners, NEW a \in Accounts, Proven(g, a) PROVE Proven(g, a)'
  <2>1. PICK m \in 1 .. Len(codes) : m \notin away[g] /\ codes[m].of = g /\ By(redeemed[m], a)
    BY <1>16 DEF Proven
  <2>2. m # n
    BY <1>7, <2>1 DEF By
  <2>3. redeemed'[m] = redeemed[m] /\ codes'[m].of = g /\ m \in 1 .. Len(codes')
    BY <1>6, <1>10, <1>13, <2>1, <2>2
  <2> QED
    BY <2>1, <2>3 DEF Proven, By
<1>17. Proven(h, id)'
  <2>1. n \notin left[h]
    BY <1>3 DEF RevokedFit
  <2>2. n \notin away'[h] /\ n \in 1 .. Len(codes')
    BY <1>3, <1>6, <2>1 DEF RevokedFit
  <2>3. codes'[n].of = h /\ redeemed'[n] = s
    BY <1>10, <1>13
  <2>4. By(redeemed'[n], id)
    BY <1>9, <2>3
  <2> QED
    BY <2>2, <2>3, <2>4 DEF Proven, By
<1> QED
  BY <1>12, <1>15, <1>16, <1>17

(* The account's entry is written anew: linked, and without its marks.     *)
LEMMA LinkKeeps ==
  ASSUME MapFit, WordsFit, NEW id \in Accounts, NEW h \in Owners, LK!Known(id), map' = LK!LinkedMap(id, h),
         ghosts' = ghosts \cup (IF LK!EntryOf(id).kind = "none" THEN {} ELSE {h, LK!EntryOf(id).handle}),
         UNCHANGED <<cap, sure>>
  PROVE  /\ MapFit' /\ WordsFit' /\ Len(map') = Len(map)
         /\ \A i \in 1 .. Len(map) : IF map[i].id = id THEN map'[i].id = id /\ map'[i].handle = h ELSE map'[i] = map[i]
<1> DEFINE e == LK!Entry(id, h, TRUE)
<1>1. map \in Seq(EntryRecs) /\ Len(map) \in Nat /\ DOMAIN map = 1 .. Len(map)
  BY LenProperties DEF MapFit
<1>2. e \in EntryRecs /\ e.id = id /\ e.linked /\ e.handle = h /\ e.kind = "none"
  BY HouseAssumption DEF LK!Entry, EntryRecs, LK!Handles, Limits, LK!NoLimit
<1>3. map' = [i \in 1 .. Len(map) |-> IF map[i].id = id THEN e ELSE map[i]]
  BY <1>1 DEF LK!LinkedMap
<1> HIDE DEF e
<1>4. ASSUME NEW i \in 1 .. Len(map)
      PROVE  /\ map'[i] \in EntryRecs /\ map'[i].id = map[i].id
  BY <1>1, <1>2, <1>3, ElementOfSeq
<1>5. ASSUME NEW i \in 1 .. Len(map)
      PROVE  IF map[i].id = id THEN map'[i] = e ELSE map'[i] = map[i]
  BY <1>3
<1>6. map' \in [1 .. Len(map) -> EntryRecs]
  BY <1>3, <1>4
<1>7. SameAccounts
  BY <1>2, <1>4, <1>5 DEF SameAccounts, MapFit
<1>8. MapFit' /\ Len(map') = Len(map)
  BY <1>6, <1>7, Rewritten
<1>9. PICK k \in 1 .. Len(map) : map[k].id = id
  BY <1>1 DEF LK!Known
<1>10. LK!EntryOf(id) = map[k]
  <2>1. \A i \in 1 .. Len(map) : map[i].id = id => i = k
    BY <1>9 DEF MapFit
  <2> QED
    BY <1>1, <1>9, <2>1 DEF LK!EntryOf
<1>11. \A i \in 1 .. Len(map) : map[i].id = id => i = k
  BY <1>9 DEF MapFit
<1>12. WordsFit'
  <2> SUFFICES ASSUME NEW g \in LK!Handles \ ghosts' PROVE WordFit(g)'
    BY DEF WordsFit
  <2>1. WordFit(g)
    BY DEF WordsFit
  <2>2. CASE map[k].kind # "none"
    <3>1. g # h /\ g # map[k].handle
      BY <1>10, <2>2
    <3>2. \A i \in 1 .. Len(map) : /\ map'[i].handle = g <=> map[i].handle = g
                                   /\ map[i].handle = g => map'[i].kind = map[i].kind /\ map'[i].limit = map[i].limit
      BY <1>2, <1>5, <1>11, <3>1
    <3> QED
      BY <1>8, <2>1, <3>2, WordStays
  <2>3. CASE map[k].kind = "none"
    <3>1. \A i \in 1 .. Len(map) : IsAI(g, i)' <=> IsAI(g, i)
      BY <1>2, <1>5, <1>11, <2>3 DEF IsAI
    <3>2. Unmarked(g)' <=> Unmarked(g)
      BY <1>8, <3>1 DEF Unmarked
    <3>3. \A i \in 1 .. Len(map) : IsAI(g, i) => map'[i] = map[i]
      BY <1>5, <1>11, <2>3 DEF IsAI
    <3>4. \A i \in 1 .. Len(map) : map[i].handle = g /\ map[i].kind = "human" => map'[i] = map[i]
      BY <1>5, <1>11, <2>3
    <3>5. \A i \in 1 .. Len(map') : IsAI(g, i)' => map'[i].limit <= cap[g]
      BY <1>8, <2>1, <3>1, <3>3 DEF WordFit
    <3>6. (\E i \in 1 .. Len(map) : map[i].handle = g /\ map[i].kind = "human")
            => \E i \in 1 .. Len(map') : map'[i].handle = g /\ map'[i].kind = "human"
      BY <1>8, <3>4
    <3> QED
      BY <2>1, <3>2, <3>5, <3>6 DEF WordFit
  <2> QED
    BY <2>2, <2>3
<1> QED
  BY <1>2, <1>4, <1>5, <1>8, <1>12

(* A sender redeems a code.                                                *)
LEMMA RedeemsKeeps == ASSUME LinksKept, NEW id \in Accounts, NEW n \in DOMAIN codes, LK!Redeems(id, n) PROVE LinksKept'
<1> SUFFICES ASSUME NEW h, h = codes[n].of PROVE LinksKept'
  OBVIOUS
<1>1. /\ LK!Known(id) /\ codes[n].state = "open"
      /\ codes' = [codes EXCEPT ![n].state = "used"] /\ redeemed' = [redeemed EXCEPT ![n] = Append(@, id)]
      /\ UNCHANGED <<draft, left, away, cap, sure>> /\ ghosts \subseteq ghosts'
  BY DEF LK!Redeems, LK!Redeemable
<1>2. \/ /\ map' = LK!LinkedMap(id, h)
         /\ ghosts' = ghosts \cup (IF LK!EntryOf(id).kind = "none" THEN {} ELSE {h, LK!EntryOf(id).handle})
      \/ UNCHANGED map
  BY DEF LK!Redeems
<1> SUFFICES ASSUME "crossed" \notin ghosts PROVE LinksKept'
  BY <1>1 DEF LinksKept
<1>3. MapFit /\ WordsFit /\ CodesFit /\ RevokedFit /\ HoldFit /\ DraftFit
  BY DEF LinksKept
<1>4. codes \in Seq(CodeRecs) /\ n \in 1 .. Len(codes)
  BY <1>3, LenProperties DEF CodesFit
<1>5. h \in Owners
  <2>1. codes[n] \in CodeRecs
    BY <1>4, ElementOfSeq
  <2> QED
    BY <2>1 DEF CodeRecs
<1>6. /\ CodesFit' /\ RevokedFit'
      /\ \A g \in Owners, a \in Accounts : Proven(g, a) => Proven(g, a)'
      /\ Proven(h, id)'
  BY <1>1, <1>3, <1>4, UsedKeeps
<1>7. DraftFit'
  BY <1>1, <1>3 DEF DraftFit
<1>8. \A i \in 1 .. Len(map) : map[i].id \in Accounts
  <2>1. \A i \in 1 .. Len(map) : map[i] \in EntryRecs
    BY <1>3, ElementOfSeq DEF MapFit
  <2> QED
    BY <2>1 DEF EntryRecs
<1>9. CASE UNCHANGED map
  <2>1. MapFit' /\ WordsFit'
    BY <1>1, <1>3, <1>9, MapRest
  <2>2. HoldFit'
    <3> SUFFICES ASSUME NEW g \in Owners, NEW i \in 1 .. Len(map), LinkedTo(g, i), NEW a, a = map[i].id
                 PROVE  Proven(g, a)'
      BY <1>9 DEF HoldFit, LinkedTo
    <3> QED
      BY <1>3, <1>6, <1>8 DEF HoldFit
  <2> QED
    BY <1>6, <1>7, <2>1, <2>2 DEF LinksKept
<1>10. CASE /\ map' = LK!LinkedMap(id, h)
            /\ ghosts' = ghosts \cup (IF LK!EntryOf(id).kind = "none" THEN {} ELSE {h, LK!EntryOf(id).handle})
  <2>1. /\ MapFit' /\ WordsFit' /\ Len(map') = Len(map)
        /\ \A i \in 1 .. Len(map) : IF map[i].id = id THEN map'[i].id = id /\ map'[i].handle = h ELSE map'[i] = map[i]
    BY <1>1, <1>3, <1>5, <1>10, LinkKeeps
  <2>2. HoldFit'
    <3> SUFFICES ASSUME NEW g \in Owners, NEW i \in 1 .. Len(map), LinkedTo(g, i)', NEW a, a = map'[i].id
                 PROVE  Proven(g, a)'
      BY <2>1 DEF HoldFit
    <3>1. CASE map[i].id = id
      BY <1>6, <2>1, <3>1 DEF LinkedTo
    <3>2. CASE map[i].id # id
      <4>1. LinkedTo(g, i) /\ a = map[i].id
        BY <2>1, <3>2 DEF LinkedTo
      <4> QED
        BY <1>3, <1>6, <1>8, <4>1 DEF HoldFit
    <3> QED
      BY <3>1, <3>2
  <2> QED
    BY <1>6, <1>7, <2>1, <2>2 DEF LinksKept
<1> QED
  BY <1>2, <1>9, <1>10

(* No step of the links disturbs them.                                     *)
LEMMA LinksNext == ASSUME LinksKept, LK!Next PROVE LinksKept'
<1>1. ASSUME NEW id \in Accounts, LK!Refused(id) \/ LK!WindowOver(id) PROVE LinksKept'
  BY <1>1, LinksRest DEF LK!Refused, LK!WindowOver, LK!CodeState, DraftFit
<1>2. ASSUME NEW n \in DOMAIN codes, LK!Expires(n) PROVE LinksKept'
  BY <1>2, LinksRest DEF LK!Expires, DraftFit
<1>3. ASSUME NEW h \in LK!Handles, NEW keeper \in BOOLEAN, NEW limit \in 0 .. LK!NoLimit, LK!Marks(h, limit, keeper) PROVE LinksKept'
  BY <1>3, MarksKeeps DEF Limits
<1> QED
  BY <1>1, <1>2, <1>3, SeesKeeps, ClearsKeeps, RenamesKeeps, ReadsKeeps, WritesKeeps, RedeemsKeeps DEF LK!Next

(* Unless a write of the app crossed another: a code links one account     *)
(* once, none its owner revoked is good, every link goes back to a code,   *)
(* and a mark is taken off or eased by a keeper only.                      *)
THEOREM LinksGoBackToCodes == MCSpec => []LinksSound
<1>1. MCInit => LinksKept
  BY LinksStart DEF MCInit
<1>2. LinksKept /\ [MCNext]_<<part, houseVars>> => LinksKept'
  <2> SUFFICES ASSUME LinksKept, [MCNext]_<<part, houseVars>> PROVE LinksKept'
    OBVIOUS
  <2>1. LK!Next \/ UNCHANGED linksVars
    BY DEF MCNext, houseVars
  <2>2. CASE LK!Next
    BY <2>2, LinksNext
  <2>3. CASE UNCHANGED linksVars
    BY <2>3, LinksRest DEF linksVars, DraftFit
  <2> QED
    BY <2>1, <2>2, <2>3
<1>3. LinksKept => LinksSound
  BY LinksAreSound DEF LinksSound
<1> QED
  BY <1>1, <1>2, <1>3, PTL DEF MCSpec
=============================================================================
