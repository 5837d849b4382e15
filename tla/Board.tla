-------------------------------- MODULE Board --------------------------------
(***************************************************************************)
(* The web board (web-board/src: board.mjs over store.mjs): posts, what    *)
(* hides and shows them, the rooms beings open, pages and threads.  Each   *)
(* request is one step; the process runs one at a time.  Tokens, terms,    *)
(* the rate of posting and texts are left out.  The file outlives the      *)
(* process; the configuration is read at its start.                        *)
(***************************************************************************)
EXTENDS Integers, Sequences, FiniteSets, FiniteSetsExt

CONSTANTS
  Members,      \* principals with the scope "post", all beings
  Threshold,    \* moderation.flag_threshold
  MaxOpen, PerDay, Day, Words,  \* open_rooms' caps, a day, and how long closing words are taken
  Keep,         \* retention
  Limit,        \* posts of a page
  MaxPosts, MaxActs, MaxTime  \* bounds; MaxActs: posts, acts on posts and rooms, restarts, the clock's steps

VARIABLES
  entries,      \* the posts as made: [id, ts, reply, state, row]; row: not deleted
  hides,        \* <<post, principal>>: the hiding reactions that stand
  flags,        \* [post, by, cleared]
  rooms,        \* rows of rooms: [origin, by, made, archived, at]; archived: by whom
  config,       \* per room, what the running process was configured with
  clock, last,  \* the wall clock; the last id given: <<ts, seq>>
  reader,       \* one who pages back: [before, seen, wanted, done]
  acts,
  slipped       \* a restart forgot how far the ids had run ahead of the clock

boardVars == <<entries, hides, flags, rooms, config, clock, last, reader, acts, slipped>>
Moderated == <<entries, hides, flags>>
RoomTables == <<rooms, config>>
Process == <<clock, last, slipped>>

Home == 1                       \* the room the posts are in
Names == 1 .. 2
NoRow == [origin |-> "none", by |-> "", made |-> 0, archived |-> "", at |-> 0]
Idle == [before |-> <<0, 0>>, seen |-> {}, wanted |-> {}, done |-> TRUE]
Later(a, b) == a[1] > b[1] \/ (a[1] = b[1] /\ a[2] > b[2])

Init ==
  /\ entries = <<>> /\ hides = {} /\ flags = {}
  /\ rooms = [n \in Names |-> NoRow] /\ config = [n \in Names |-> "absent"]
  /\ clock = 1 /\ last = <<0, 0>> /\ reader = Idle
  /\ acts = 0 /\ slipped = FALSE

Rows(e) == {i \in DOMAIN e : e[i].row}
Visible(e) == {i \in Rows(e) : e[i].state = "shown"}
Still(e) == [reader EXCEPT !.wanted = @ \cap Visible(e)]
Act == acts < MaxActs /\ acts' = acts + 1

(* createBoard: the configured rooms that are not hidden, then the rooms   *)
(* beings opened that are not among them.                                  *)
Served == {n \in Names : config[n] = "listed" \/ rooms[n].origin = "being"}
OpenRooms == {n \in Served : rooms[n].origin = "being" /\ rooms[n].archived = ""}

-----------------------------------------------------------------------------
(* Ids run with the clock, or ahead of it when it does not go on.          *)
NewId == IF clock <= last[1] THEN <<last[1], last[2] + 1>> ELSE <<clock, 0>>

Takes(n, p) ==
  /\ n \in Served
  /\ rooms[n].archived = "" \/ (rooms[n].archived = p /\ clock - rooms[n].at <= Words)

Posts(p, reply) ==
  /\ Act /\ Len(entries) < MaxPosts /\ Takes(Home, p) /\ (reply # 0 => reply \in Visible(entries))
  /\ entries' = Append(entries, [id |-> NewId, ts |-> clock, reply |-> reply, state |-> "shown", row |-> TRUE])
  /\ last' = NewId
  /\ UNCHANGED <<hides, flags, RoomTables, clock, reader, slipped>>

(* settle, after trigger: what stands against post i decides.              *)
Against(i, hs, fs) ==
  [hidden |-> \E h \in hs : h[1] = i,
   flagged |-> Cardinality({f \in fs : f.post = i /\ ~f.cleared}) >= Threshold]
(* Mutation of Cause: a reaction always gives the cause.                   *)
CauseOfAct(was, trigger, a) == IF trigger = "flags" \/ ~a.hidden THEN "flags" ELSE "reaction"
Cause(was, trigger, a) ==
  IF a.flagged /\ (trigger = "flags" \/ ~a.hidden \/ (trigger = "reaction" /\ was = "flags")) THEN "flags" ELSE "reaction"
Settled(i, trigger, hs, fs) ==
  LET a == Against(i, hs, fs) IN
  [entries EXCEPT ![i].state = IF a.hidden \/ a.flagged THEN Cause(@, trigger, a) ELSE "shown"]

Settles(i, trigger, hs, fs) ==
  /\ Home \in Served /\ entries' = Settled(i, trigger, hs, fs) /\ hides' = hs /\ flags' = fs
  /\ reader' = Still(entries')
  /\ UNCHANGED <<RoomTables, Process>>

(* react with the hiding emoji; nothing changes when it stands already, or *)
(* is not there to be removed.                                             *)
Hides(p, i) ==
  /\ Act /\ i \in Rows(entries) /\ <<i, p>> \notin hides
  /\ Settles(i, "reaction", hides \cup {<<i, p>>}, flags)
TakesBack(p, i) ==
  /\ Act /\ i \in Rows(entries) /\ <<i, p>> \in hides
  /\ Settles(i, "reaction", hides \ {<<i, p>>}, flags)

(* A flag counts once, and a cleared one cannot be raised again.           *)
Flags(p, i) ==
  /\ Act /\ i \in Rows(entries) /\ ~\E f \in flags : f.post = i /\ f.by = p
  /\ Settles(i, "flags", hides, flags \cup {[post |-> i, by |-> p, cleared |-> FALSE]})

Unhides(i) ==
  /\ Act /\ i \in Rows(entries)
  /\ Settles(i, "moderator", {h \in hides : h[1] # i},
             {IF f.post = i THEN [f EXCEPT !.cleared = TRUE] ELSE f : f \in flags})

(* The hourly prune, and the one at the start.                             *)
Pruned == [i \in DOMAIN entries |-> [entries[i] EXCEPT !.row = @ /\ entries[i].ts >= clock - Keep]]
Prunes ==
  /\ Pruned # entries /\ entries' = Pruned
  /\ hides' = {h \in hides : h[1] \in Rows(Pruned)} /\ flags' = {f \in flags : f.post \in Rows(Pruned)}
  /\ reader' = Still(Pruned)
  /\ UNCHANGED <<RoomTables, Process, acts>>

-----------------------------------------------------------------------------
(* Rooms of beings.  A name is free when the store never held it.          *)
Fresh(p) == {n \in Names : rooms[n].origin = "being" /\ rooms[n].by = p /\ rooms[n].made >= clock - Day}
MayOpen(p, new) == Cardinality(OpenRooms) < MaxOpen /\ (new => Cardinality(Fresh(p)) < PerDay)
RoomAct(n, row) ==
  /\ Act /\ rooms' = [rooms EXCEPT ![n] = row]
  /\ UNCHANGED <<Moderated, config, Process, reader>>

OpensRoom(p) == \E n \in Names :
  /\ rooms[n].origin = "none" /\ config[n] # "listed" /\ (\A k \in 1 .. n - 1 : rooms[k].origin # "none")
  /\ MayOpen(p, TRUE)
  /\ RoomAct(n, [origin |-> "being", by |-> p, made |-> clock, archived |-> "", at |-> 0])
Archives(p, n) ==
  /\ n \in OpenRooms
  /\ RoomAct(n, [rooms[n] EXCEPT !.archived = p, !.at = clock])
ReopensRoom(p, n) ==
  /\ n \in Served /\ rooms[n].archived # "" /\ MayOpen(p, FALSE)
  /\ RoomAct(n, [rooms[n] EXCEPT !.archived = "", !.at = 0])

-----------------------------------------------------------------------------
(* page: the newest visible posts before an id, Limit of them or as many   *)
(* as fit an MCP answer, the oldest cut off; and where to go on.           *)
More(found, fit) == Cardinality(found) > fit
Page(before, fit) ==
  LET found == {i \in Visible(entries) : before = <<0, 0>> \/ Later(before, entries[i].id)}
      newest == {i \in found : Cardinality({j \in found : Later(entries[j].id, entries[i].id)}) < fit}
      oldest == CHOOSE i \in newest : \A j \in newest : ~Later(entries[i].id, entries[j].id)
  IN [posts |-> newest, next |-> IF More(found, fit) THEN entries[oldest].id ELSE <<0, 0>>]

(* One reads the room from its newest post back.                           *)
Begins ==
  /\ reader = Idle /\ Home \in Served /\ Visible(entries) # {}
  /\ \E fit \in 1 .. Limit : LET page == Page(<<0, 0>>, fit) IN
       reader' = [before |-> page.next, seen |-> page.posts, wanted |-> Visible(entries), done |-> page.next = <<0, 0>>]
  /\ UNCHANGED <<Moderated, RoomTables, Process, acts>>
GoesOn ==
  /\ ~reader.done /\ Home \in Served
  /\ \E fit \in 1 .. Limit : LET page == Page(reader.before, fit) IN
       reader' = [reader EXCEPT !.before = page.next, !.seen = @ \cup page.posts, !.done = page.next = <<0, 0>>]
  /\ UNCHANGED <<Moderated, RoomTables, Process, acts>>

(* thread: up to the top-most post in view, then down through those that   *)
(* are in view.                                                            *)
Above == [i \in DOMAIN entries |-> IF entries[i].reply \in Visible(entries) THEN {entries[i].reply} ELSE {}]
RootOf == [i \in 0 .. Len(entries) |-> IF i = 0 THEN 0 ELSE
  LET up[k \in DOMAIN entries] == IF Above[k] = {} THEN k ELSE up[entries[k].reply] IN up[i]]
Thread(i) ==
  LET under[k \in DOMAIN entries] == Above[k] \cup UNION {under[j] : j \in Above[k]}
  IN {RootOf[i]} \cup {k \in Visible(entries) : RootOf[i] \in under[k]}

-----------------------------------------------------------------------------
(* The wall clock goes on, or is set back.                                 *)
Ticks == /\ Act /\ clock' \in {clock - 1, clock + 1} \cap (1 .. MaxTime)
         /\ UNCHANGED <<Moderated, RoomTables, last, reader, slipped>>

(* The operator may list a room, or list it as hidden, at a restart.       *)
Newest == IF Rows(entries) = {} THEN 0 ELSE Max({entries[i].ts : i \in Rows(entries)})
Restarts ==
  /\ Act
  /\ \E n \in Names, c \in {"absent", "listed", "hidden"} :
       /\ config' = [config EXCEPT ![n] = c]
       /\ rooms' = [rooms EXCEPT ![n] = IF c = "listed" /\ @.origin = "none" THEN [NoRow EXCEPT !.origin = "config"] ELSE @]
  /\ last' = <<Newest, 0>> /\ slipped' = (slipped \/ last[2] > 0)
  /\ UNCHANGED <<Moderated, clock, reader>>

(* What the routes of http.mjs do for a principal.                         *)
Requests(p) ==
  \/ \E reply \in 0 .. Len(entries) : Posts(p, reply)
  \/ \E i \in DOMAIN entries : Hides(p, i) \/ TakesBack(p, i) \/ Flags(p, i) \/ Unhides(i)
  \/ OpensRoom(p)
  \/ \E n \in Names : Archives(p, n) \/ ReopensRoom(p, n)
Next == Prunes \/ Begins \/ GoesOn \/ Ticks \/ Restarts \/ \E p \in Members : Requests(p)
Spec == Init /\ [][Next]_boardVars

-----------------------------------------------------------------------------
(* A post is out of view exactly while a hiding reaction or enough flags   *)
(* stand, and the cause that is shown is one that still stands.            *)
HiddenIsJudged == \A i \in Rows(entries) : LET a == Against(i, hides, flags) IN
  CASE entries[i].state = "shown" -> ~a.hidden /\ ~a.flagged
    [] entries[i].state = "flags" -> a.flagged
    [] OTHER -> a.hidden

(* The order of the ids is the order of the posts kept, until a restart    *)
(* while the ids ran ahead of the clock.                                   *)
IdsAscend == \A i, j \in Rows(entries) : i < j => Later(entries[j].id, entries[i].id)

(* Whoever pages back to the end has seen every post that was there when   *)
(* it began and stayed in view, whatever was posted, hidden or deleted     *)
(* between two pages.                                                      *)
PagesMissNothing == reader.done => reader.wanted \subseteq reader.seen

(* Whichever of its posts is asked for, a thread is the same.              *)
ThreadsAgree == \A i \in Visible(entries) : i \in Thread(i) /\ \A j \in Thread(i) : Thread(j) = Thread(i)

(* Beings hold no more rooms open than the cap, restarts or not.           *)
CapHolds == Cardinality(OpenRooms) <= MaxOpen

Sound == HiddenIsJudged /\ (slipped \/ (IdsAscend /\ PagesMissNothing)) /\ ThreadsAgree /\ CapHolds

(* Violated.  store.mjs:14-15: "lexicographic order equals creation        *)
(* order"; the run ahead of a clock set back is forgotten by a restart.    *)
AlwaysAscend == IdsAscend

(* Violated.  board.mjs:19-20: configured rooms are "never archived here"; *)
(* one that has the name of a room a being opened keeps its row's origin.  *)
ConfiguredIsOperators == [][\A n \in Names : config[n] = "listed" /\ config'[n] = "listed" =>
                              rooms'[n].archived = rooms[n].archived]_boardVars

(* Violated.  board.mjs:81-83: a room hidden by the operator is "left out  *)
(* of the board entirely"; one that a being opened is put back.            *)
HiddenIsLeftOut == \A n \in Names : config[n] = "hidden" => n \notin Served
=============================================================================
