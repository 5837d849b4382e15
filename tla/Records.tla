------------------------------- MODULE Records -------------------------------
(***************************************************************************)
(* A being's reach into the kept records of rooms (record-tools.mjs): the  *)
(* pages of one record, read while the record goes on, and a search of the *)
(* records, newest first.  Who may read what is resolved as the owner of   *)
(* the room the call is made from.  A frame's number is counted in quarters*)
(* of an integer: a turn's frames have integers, and the house's own the   *)
(* halves between (frames-io.mjs), here as far as 3/4; a frame written to  *)
(* a room that is not open may have none (serve-rooms.mjs:650).            *)
(***************************************************************************)
EXTENDS Naturals, Sequences, FiniteSets, SequencesExt, FiniteSetsExt

CONSTANTS
  Rooms, Public, People, Being,   \* the rooms with records, those open to all, who may join one; the being that calls
  Reader,                         \* the owner of the room it calls from
  Words, LONG,                    \* what is said, and what of it takes two lines
  READ_CAP, SEARCH_MAX_RECORDS,
  MaxRecord, MaxReads             \* bounds: frames in all, pages

VARIABLES
  record,    \* frames.jsonl of each room: [kind, seq, numbered, words]
  class,     \* its class.json: [owner, accepted]
  touched,   \* the rooms, the latest written first (mtime)
  reading,   \* [of, from, seen, whole, ended]: the pages read of one record
  reads

recordsVars == <<record, class, touched, reading, reads>>
Integer(q) == q % 4 = 0
NoReading == [of |-> "", from |-> 0, seen |-> <<>>, whole |-> TRUE, ended |-> FALSE]

Init ==
  /\ record = [r \in Rooms |-> <<>>]
  /\ \E owner \in People \cup {Being} : class = [r \in Rooms |-> [owner |-> owner, accepted |-> {}]]
  /\ touched = SetToSeq(Rooms)
  /\ reading = NoReading /\ reads = 0

-----------------------------------------------------------------------------
(* The records go on: a turn's frame, a line of the house's own, a join of *)
(* a room that is not open.                                                *)
LastSeq(r) == IF record[r] = <<>> \/ ~Last(record[r]).numbered THEN 0 ELSE Last(record[r]).seq
NextInteger(q) == (q \div 4 + 1) * 4
HouseSeq(q) == CASE q % 4 = 0 -> q + 2 [] q % 4 = 2 -> q + 1 [] OTHER -> NextInteger(q)
Written == FoldSet(LAMBDA r, n : n + Len(record[r]), 0, Rooms)
Writes(r, kind, seq, numbered, words) ==
  /\ Written < MaxRecord
  /\ record' = [record EXCEPT ![r] =
       Append(@, [kind |-> kind, seq |-> seq, numbered |-> numbered, words |-> words])]
  /\ touched' = <<r>> \o SelectSeq(touched, LAMBDA x : x # r)
  /\ UNCHANGED <<reading, reads>>
Speaks(r, w) == Writes(r, "speech", NextInteger(LastSeq(r)), TRUE, w) /\ UNCHANGED class
Unrendered(r) == Writes(r, "context", NextInteger(LastSeq(r)), TRUE, "") /\ UNCHANGED class
Message(r, w) == Writes(r, "message", HouseSeq(LastSeq(r)), TRUE, w) /\ UNCHANGED class
Joins(r, p) ==
  /\ p \notin class[r].accepted /\ class' = [class EXCEPT ![r].accepted = @ \cup {p}]
  /\ Writes(r, "participant.joined", 0, FALSE, "")

-----------------------------------------------------------------------------
(* mayRead.                                                                *)
MayRead(r) ==
  \/ r \in Public \/ Reader = "Keeper"
  \/ class[r].owner \in {Being, Reader} \/ Reader \in class[r].accepted

(* record_read: the lines at or after the cursor until one no longer fits; *)
(* the next cursor is that line's number, and is taken for no cursor when  *)
(* it is no integer.                                                       *)
Line(f) == f.kind # "context"
From(r, from) ==
  SelectSeq([i \in 1 .. Len(record[r]) |-> i], LAMBDA i : Line(record[r][i]) /\ record[r][i].seq >= from)
SizeOf(r, lines) == FoldLeft(LAMBDA n, i : n + (IF record[r][i].words \in LONG THEN 2 ELSE 1), 0, lines)
PageLength(r, lines) ==
  Max({n \in 1 .. Len(lines) : n = 1 \/ SizeOf(r, SubSeq(lines, 1, n)) <= READ_CAP})
Cursor(f) == IF f.numbered /\ Integer(f.seq) THEN f.seq ELSE 0
RecordRead(r) ==
  /\ MayRead(r) /\ reads < MaxReads /\ reads' = reads + 1
  /\ LET so == IF reading.of = r /\ ~reading.ended THEN reading ELSE [NoReading EXCEPT !.of = r]
         lines == From(r, so.from)
         n == IF lines = <<>> THEN 0 ELSE PageLength(r, lines)
         more == n < Len(lines)
         next == record[r][lines[n + 1]]
     IN reading' = [of |-> r, from |-> IF more THEN Cursor(next) ELSE 0,
                    seen |-> so.seen \o SubSeq(lines, 1, n),
                    whole |-> so.whole /\ (more => (next.numbered /\ Integer(next.seq))), ended |-> ~more]
  /\ UNCHANGED <<record, class, touched>>

(* record_search: the readable records, the latest written first, until    *)
(* as many as are shown have spoken of it.                                 *)
Speaking(r, w) == \E i \in DOMAIN record[r] : record[r][i].kind \in {"message", "speech"} /\ record[r][i].words = w
RecordSearch(w) ==
  LET infos == SelectSeq(touched, MayRead)
      upTo(n) == {i \in 1 .. n : Speaking(infos[i], w)}
      searched == Max({n \in 0 .. Len(infos) : n = 0 \/ Cardinality(upTo(n - 1)) < SEARCH_MAX_RECORDS})
  IN [named |-> {infos[i] : i \in upTo(searched)},
      stopped |-> Cardinality(upTo(searched)) >= SEARCH_MAX_RECORDS /\ searched < Len(infos)]

Next ==
  \/ \E r \in Rooms, w \in Words : Speaks(r, w) \/ Message(r, w)
  \/ \E r \in Rooms : Unrendered(r) \/ RecordRead(r)
  \/ \E r \in Rooms, p \in People : Joins(r, p)
Spec == Init /\ [][Next]_recordsVars

-----------------------------------------------------------------------------
Numbered(r) == SelectSeq(record[r], LAMBDA f : f.numbered)
Ascends(r) == \A i, j \in DOMAIN Numbered(r) : i < j => Numbered(r)[i].seq < Numbered(r)[j].seq
Seen == Range(reading.seen)
(* Who follows the cursors through a record whose numbers ascend leaves    *)
(* out no numbered line on the way, and, as long as the cursors are        *)
(* integers, reads nothing twice; at the end nothing is left.              *)
ReadsInOrder ==
  (reading.of # "" /\ Ascends(reading.of)) =>
    LET f == record[reading.of] IN
      /\ \A i \in DOMAIN f : (Line(f[i]) /\ f[i].numbered /\ \E j \in Seen : i < j) => i \in Seen
      /\ reading.whole => \A i, j \in DOMAIN reading.seen : i < j => reading.seen[i] < reading.seen[j]
(* A search leaves out a record that may be read and speaks of it only     *)
(* when it says that it stopped, and then one written before those it      *)
(* names.                                                                  *)
SearchesHonestly ==
  \A w \in Words :
    LET found == RecordSearch(w)
        matching == {r \in Rooms : MayRead(r) /\ Speaking(r, w)}
        place(r) == CHOOSE i \in DOMAIN touched : touched[i] = r
    IN /\ found.named \subseteq matching /\ (found.stopped \/ found.named = matching)
       /\ \A r \in found.named, x \in matching \ found.named : place(r) < place(x)
RecordsSound == ReadsInOrder /\ SearchesHonestly

(* "Long records page -- pass from_seq to continue" (record-tools.mjs:213):*)
(* every page of a record that ascends shows a line the pages before it    *)
(* did not.                                                                *)
EveryPageIsNew ==
  [][ (reading'.of = reading.of /\ ~reading.ended /\ reads' # reads /\ Ascends(reading.of)) =>
        Range(reading'.seen) # Seen ]_recordsVars
(* "Read one kept room's record verbatim": a reading that ends has shown   *)
(* every line, also a join without a number.                               *)
EndsWhole ==
  [][ (reading'.ended /\ ~reading.ended) =>
        \A i \in DOMAIN record[reading'.of] : Line(record[reading'.of][i]) => i \in Range(reading'.seen) ]_recordsVars
=============================================================================
