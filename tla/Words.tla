-------------------------------- MODULE Words --------------------------------
(***************************************************************************)
(* What becomes of the words of a room that mirrors a platform's: posts,   *)
(* edits, deletions and hides, which every seat in the room forwards at    *)
(* its own pace; the index that leads from a platform's message to the     *)
(* frame that recorded it (mcpl/message-index.mjs); and the keeper's       *)
(* two-step removal of what is past the room's retention (retention.mjs);  *)
(* and how a being's platform tool finds the message it is to act on, by   *)
(* its words (room-platform-tools.mjs).                                    *)
(* The platform's own log is external: what it says of a message comes to  *)
(* each seat in order, or is missed while the seat's connection is gone.   *)
(* Frames carry no blobs here, and the code's chronicle is not modelled.   *)
(***************************************************************************)
EXTENDS Naturals, Sequences, FiniteSets, SequencesExt, FiniteSetsExt

CONSTANTS
  Seats, Authors, Being, WordsSaid, Own, Hiders,   \* Own: what the being says itself
  MaxEvents, MaxBare, MaxScans   \* bounds: events of the platform, lines said through the house's own app, scans

VARIABLES
  log,      \* the platform's events: [kind, id, by, word]
  at,       \* of each seat, how many of them it has come past
  frames,   \* frames.jsonl: [type, by, text, target, hiders]; a frame's place is its seq
  rows,     \* external.jsonl: [id, by, sha, seq]; seq is 0 on a row of the platform's own
  aged,     \* the frames older than the last scan's cutoff
  pending,  \* the scan a keeper can confirm: a set of one [cut, due]
  scans,
  made,     \* ghost: the frame that recorded a message
  missed,   \* ghost: a seat has missed an event
  shown     \* ghost: the frames the last scan counted

wordsVars == <<log, at, frames, rows, aged, pending, scans, made, missed, shown>>
REMOVED == "removed"
None == "none"
Ids == 1 .. MaxEvents
Frame(type, by, text, target, hiders) ==
  [type |-> type, by |-> by, text |-> text, target |-> target, hiders |-> hiders]

Init ==
  /\ log = <<>> /\ at = [s \in Seats |-> 0] /\ frames = <<>> /\ rows = <<>>
  /\ aged = 0 /\ pending = {} /\ scans = 0
  /\ made = [m \in Ids |-> 0] /\ missed = FALSE /\ shown = {}

-----------------------------------------------------------------------------
(* The platform: a post's number in its log is its id.  What it tells is   *)
(* nothing to the house before a seat has come to it.                      *)
Posts == {i \in DOMAIN log : log[i].kind = "post"}
Tells(e) ==
  /\ Len(log) < MaxEvents /\ (\E s \in Seats : at[s] = Len(log)) /\ log' = Append(log, e)
  /\ UNCHANGED <<at, frames, rows, aged, pending, scans, made, missed, shown>>
Event(kind, id, by, word) == [kind |-> kind, id |-> id, by |-> by, word |-> word]
Platform ==
  \/ \E a \in Authors, w \in WordsSaid : Tells(Event("post", Len(log) + 1, a, w))
  \/ \E m \in Posts, w \in WordsSaid : Tells(Event("edit", m, None, w))
  \/ \E m \in Posts : Tells(Event("delete", m, None, None))
  \/ \E m \in Posts, h \in Hiders, k \in {"add", "remove"} : Tells(Event(k, m, h, None))

-----------------------------------------------------------------------------
(* buildMessageIndex: what the house sent has its seq on the row; the rows *)
(* of the platform's own are paired in order, each with the next message   *)
(* frame of its author and its text's hash.                                *)
Matches(r, cursor) ==
  {i \in cursor + 1 .. Len(frames) : frames[i].type = "message" /\ frames[i].by = r.by /\ frames[i].text = r.sha}
(* Mutation of Paired: every row starts from the first frame.              *)
PairedFromFirst(p, r) ==
  IF Matches(r, 0) = {} THEN p ELSE [p EXCEPT !.index[r.id] = Min(Matches(r, 0))]
Paired(p, r) ==
  IF Matches(r, p.cursor) = {} THEN p
  ELSE LET i == Min(Matches(r, p.cursor)) IN [cursor |-> i, index |-> [p.index EXCEPT ![r.id] = i]]
BuildMessageIndex ==
  LET sent == {r \in Range(rows) : r.seq # 0}
      direct == [m \in Ids |-> IF \E r \in sent : r.id = m THEN (CHOOSE r \in sent : r.id = m).seq ELSE 0]
  IN FoldLeft(Paired, [cursor |-> 0, index |-> direct], SelectSeq(rows, LAMBDA r : r.seq = 0)).index

(* currentHiddenBy: the last hidden frame of the target.                   *)
Of(type, target) == {i \in DOMAIN frames : frames[i].type = type /\ frames[i].target = target}
CurrentHiddenBy(target) ==
  IF Of("hidden", target) = {} THEN {} ELSE frames[Max(Of("hidden", target))].hiders

(* roomInput: the row and the frame in one step, for the seat that comes   *)
(* first.                                                                  *)
RoomInput(e) ==
  IF \E r \in Range(rows) : r.id = e.id THEN UNCHANGED <<frames, rows, made>>
  ELSE /\ rows' = Append(rows, [id |-> e.id, by |-> e.by, sha |-> e.word, seq |-> 0])
       /\ frames' = Append(frames, Frame("message", e.by, e.word, 0, {}))
       /\ made' = [made EXCEPT ![e.id] = Len(frames) + 1]
(* applyMetaFrameAction; nothing, for a message the index has not.         *)
MetaFrame(e, target) ==
  CASE e.kind = "edit" -> Frame("edited", None, e.word, target, {})
    [] e.kind = "delete" -> Frame("retracted", None, None, target, {})
    [] e.kind = "add" -> Frame("hidden", None, None, target, CurrentHiddenBy(target) \cup {e.by})
    [] e.kind = "remove" -> Frame("hidden", None, None, target, CurrentHiddenBy(target) \ {e.by})
ApplyMetaFrameAction(e) ==
  /\ LET target == BuildMessageIndex[e.id] IN
       frames' = IF target = 0 THEN frames ELSE Append(frames, MetaFrame(e, target))
  /\ UNCHANGED <<rows, made>>

Behind(s) == at[s] < Len(log)
SeatApplies(s) ==
  /\ Behind(s) /\ at' = [at EXCEPT ![s] = @ + 1]
  /\ LET e == log[at[s] + 1] IN IF e.kind = "post" THEN RoomInput(e) ELSE ApplyMetaFrameAction(e)
  /\ UNCHANGED <<log, aged, pending, scans, missed, shown>>
SeatMisses(s) ==
  /\ Behind(s) /\ ~missed /\ at' = [at EXCEPT ![s] = @ + 1] /\ missed' = TRUE
  /\ UNCHANGED <<log, frames, rows, aged, pending, scans, made, shown>>
(* The being's own post: its frame, and a row with the frame's seq once the*)
(* platform has answered with an id (speak.mjs), here in one step.         *)
Sends(w) ==
  /\ Len(log) < MaxEvents /\ (\E s \in Seats : at[s] = Len(log))
  /\ LET id == Len(log) + 1 seq == Len(frames) + 1 IN
       /\ log' = Append(log, Event("post", id, Being, w))
       /\ frames' = Append(frames, Frame("speech", Being, w, 0, {}))
       /\ rows' = Append(rows, [id |-> id, by |-> Being, sha |-> w, seq |-> seq])
       /\ made' = [made EXCEPT ![id] = seq]
  /\ UNCHANGED <<at, aged, pending, scans, missed, shown>>
(* A line said through the house's own app has a frame and no row.         *)
Bare == {i \in DOMAIN frames : frames[i].type = "message"} \ Range(made)
SaysInHouse(a, w) ==
  /\ Cardinality(Bare) < MaxBare /\ frames' = Append(frames, Frame("message", a, w, 0, {}))
  /\ UNCHANGED <<log, at, rows, aged, pending, scans, made, missed, shown>>

-----------------------------------------------------------------------------
(* isDue: words past the cutoff and not yet removed.                       *)
Due(cut) == {i \in 1 .. cut : frames[i].type \in {"message", "edited"} /\ frames[i].text # REMOVED}
(* proposeRetention, after some time: the code is of the cutoff and of the *)
(* count; the plan before it is gone.                                      *)
ProposeRetention(cut) ==
  /\ scans < MaxScans /\ scans' = scans + 1
  /\ cut >= aged /\ aged' = cut
  /\ pending' = {[cut |-> cut, due |-> Cardinality(Due(cut))]} /\ shown' = Due(cut)
  /\ UNCHANGED <<log, at, frames, rows, made, missed>>
(* purgeRetention, with the code of the plan, and a fresh scan for it that *)
(* counts the same; purgeRun keeps the frame and takes its words.          *)
PurgeRetention ==
  /\ \E p \in pending :
       /\ Cardinality(Due(p.cut)) = p.due
       /\ frames' = [i \in DOMAIN frames |->
                       IF i \in Due(p.cut) THEN [frames[i] EXCEPT !.text = REMOVED] ELSE frames[i]]
  /\ pending' = {}
  /\ UNCHANGED <<log, at, rows, aged, scans, made, missed, shown>>
(* Half an hour later, or with the end of the process, the plan is gone.   *)
PlanLapses ==
  /\ pending # {} /\ pending' = {}
  /\ UNCHANGED <<log, at, frames, rows, aged, scans, made, missed, shown>>

Next ==
  \/ Platform
  \/ \E s \in Seats : SeatApplies(s) \/ SeatMisses(s)
  \/ \E w \in Own : Sends(w)
  \/ \E a \in Authors, w \in WordsSaid : SaysInHouse(a, w)
  \/ \E cut \in DOMAIN frames : ProposeRetention(cut)
  \/ PurgeRetention \/ PlanLapses
Spec == Init /\ [][Next]_wordsVars

-----------------------------------------------------------------------------
(* room-platform-tools.mjs, of the being's tools: the messages of others   *)
(* whose frame has the quoted words; a flag is of one that alone has them, *)
(* a reaction of the newest, or without a quote of the newest of all.      *)
MessagesByQuote(index, quote) ==
  {m \in Ids : index[m] # 0 /\ frames[index[m]].by # Being /\ frames[index[m]].text \in quote}
Newest(index, ms) == {m \in ms : \A x \in ms : index[x] <= index[m]}
FlagTarget(index, word) ==
  LET hits == MessagesByQuote(index, {word}) IN IF Cardinality(hits) = 1 THEN hits ELSE {}
ReactionTarget(index, quote) == Newest(index, MessagesByQuote(index, quote))

-----------------------------------------------------------------------------
(* recordMeta: what the record says now of a message.                      *)
TextNow(i) == IF Of("edited", i) = {} THEN frames[i].text ELSE frames[Max(Of("edited", i))].text
EventsOf(m) == SelectSeq(log, LAMBDA e : e.id = m)
Latest(m, kinds) == Last(SelectSeq(EventsOf(m), LAMBDA e : e.kind \in kinds))
HidersOf(m) == {h \in Hiders :
  LET hs == SelectSeq(EventsOf(m), LAMBDA e : e.kind \in {"add", "remove"} /\ e.by = h)
  IN hs # <<>> /\ Last(hs).kind = "add"}
Recorded == {m \in Ids : made[m] # 0}
Purged == \E i \in DOMAIN frames : frames[i].text = REMOVED
(* A line without a row, that a row could be taken for.                    *)
Ambiguous == \E i \in Bare, r \in Range(rows) : frames[i].by = r.by /\ frames[i].text = r.sha

(* Whatever the index says of a recorded message is the frame that         *)
(* recorded it, until words are removed or a line without a row looks the  *)
(* same.                                                                   *)
IndexTrue ==
  Purged \/ Ambiguous \/ LET index == BuildMessageIndex IN \A m \in Recorded : index[m] = made[m]
(* Once every seat has come past everything, and none missed anything, the *)
(* record has what the platform has, though each seat wrote the same       *)
(* edits, deletions and hides at its own pace: the last of each kind in    *)
(* the file is some seat's last.                                           *)
Settled == ~missed /\ \A s \in Seats : ~Behind(s)
RecordSettles ==
  (Settled /\ ~Purged /\ ~Ambiguous) =>
    \A m \in Posts :
      /\ made[m] # 0 /\ TextNow(made[m]) = Latest(m, {"post", "edit"}).word
      /\ CurrentHiddenBy(made[m]) = HidersOf(m)
      /\ (Of("retracted", made[m]) # {}) = (\E i \in DOMAIN log : log[i].id = m /\ log[i].kind = "delete")
(* A purge takes what the keeper's scan counted, and no words newer than   *)
(* the cutoff, though the room goes on meanwhile.                          *)
PurgesWhatWasShown ==
  /\ \A i \in DOMAIN frames : frames[i].text = REMOVED => i <= aged
  /\ \A p \in pending : Due(p.cut) = shown
(* A flag lands on the one recorded post of another that was posted with   *)
(* the quoted words, whatever was sent, edited and hidden since; and a     *)
(* reaction on the newest recorded.                                        *)
OfOthers == {m \in Recorded : log[m].by # Being}
LandsWhereMeant ==
  (~Purged /\ ~Ambiguous) =>
    LET index == BuildMessageIndex IN
      /\ \A w \in WordsSaid : FlagTarget(index, w) # {} => FlagTarget(index, w) = {m \in OfOthers : log[m].word = w}
      /\ ReactionTarget(index, WordsSaid) = {m \in OfOthers : \A x \in OfOthers : made[x] <= made[m]}
WordsSound == IndexTrue /\ RecordSettles /\ PurgesWhatWasShown /\ LandsWhereMeant

(* "an honest miss, never guessed" (message-index.mjs): the index gives no *)
(* message another's frame.                                                *)
IndexNeverGuesses == \A m \in Recorded : BuildMessageIndex[m] \in {0, made[m]}
(* "A being names a message by `quote`: a few exact words from it"         *)
(* (room-platform-tools.mjs:30-32): the words as they were posted, when    *)
(* the conversation shows them edited.                                     *)
QuotesWhatIsShown ==
  (~Purged /\ ~Ambiguous) =>
    \A w \in WordsSaid : \A m \in FlagTarget(BuildMessageIndex, w) : TextNow(made[m]) = w
=============================================================================
