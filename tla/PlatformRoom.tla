--------------------------- MODULE PlatformRoom ---------------------------
(* One room of the house that is also a channel of a platform, and the      *)
(* seats of the beings in it (mcpl/): what goes out through each being's    *)
(* account, what comes back in, and the sidecar external.jsonl that tells   *)
(* the two apart.                                                           *)
(*                                                                          *)
(* The record (frames.jsonl), the sidecar and the relay claims are files;   *)
(* calls, pending sends, marks and tails die with the process. A text is    *)
(* one piece or several, one per chunk that speak() sends. House lines are  *)
(* left out: they are frames that relay.mjs never lets out.                 *)
EXTENDS Naturals, Sequences, FiniteSets, SequencesExt

CONSTANTS Beings,     \* the beings of the room, each with a seat and an account
          Speakers,   \* those that speak in the run
          Owner,      \* of Beings, the first of the sorted roster: the seat that relays
          Human,      \* no being: a person linked to a handle, here and in the app
          Lines,      \* what people and the house may say, one line to a piece
          Speeches,   \* what a being may say: sequences of one line or more
          AtBoot,     \* the sets of seats that may tail the room when a house starts
          MaxFrames, MaxPosts, MaxFaults   \* bounds of the runs

(* What is said, and what relay.mjs puts before a line of the app.         *)
Words == {"app"} \cup Lines \cup UNION {{sp[k] : k \in DOMAIN sp} : sp \in Speeches}

(* Who is who: the seat that relays is one, a person and the house are no  *)
(* beings, and nobody says nothing.                                        *)
Cast ==
  /\ IsFiniteSet(Beings) /\ Owner \in Beings /\ Human \notin Beings /\ "house" \notin Beings
  /\ Human # "house" /\ Speakers \subseteq Beings
  /\ Speeches \subseteq Seq(Words) \ {<<>>}
  /\ AtBoot \subseteq SUBSET Beings

ASSUME CastAssumption == Cast

VARIABLES
  frames,    \* the record: [kind, by, text, life, src]; src is the post it came from
  rows,      \* the sidecar: [dir, id, by, text, seq, why, re]
  claims,    \* the frames whose relay has been claimed
  posts,     \* what the platform shows: [acct, text, seq, life, run]; an id is an index
  inbox,     \* per seat, the posts it has been handed and not yet applied
  up,        \* per seat, whether its host is ready
  wasReady,  \* per seat, what the redeliver watcher saw at its last poll
  tails,     \* the seats that tail the room
  calls,     \* sends under way: [acct, run, by, seq, rest, queue, at]
  pending,   \* pending-outbound.mjs: the <<speaker, piece>> being sent
  marks,     \* the owner's platform-origin marks
  consumed,  \* the "in" rows the owner has matched to a frame
  life,      \* which run of the house process this is; 0 is history
  flips      \* how often a host has gone

vars == <<frames, rows, claims, posts, inbox, up, wasReady, tails, calls,
          pending, marks, consumed, life, flips>>
memory == <<calls, pending, marks, consumed>>
hosts  == <<inbox, up, wasReady, tails, life, flips>>

Line(x)    == <<x>>             \* a line as typed
Relayed(x) == <<"app">> \o x    \* "@human (in the app): x"
Media      == <<>>              \* an attachment carries no text

InRow(id, by, text) ==
  [dir |-> "in", id |-> id, by |-> by, text |-> text, seq |-> 0, why |-> "", re |-> FALSE]
OutRow(id, by, seq, why, re) ==
  [dir |-> "out", id |-> id, by |-> by, text |-> Media, seq |-> seq, why |-> why, re |-> re]

(* Mutation of Recorded: only what the house sent is looked for. *)
RecordedAsSent(id) == \E r \in rows : r.dir = "out" /\ r.id = id
Recorded(id) == \E r \in rows : r.id = id

Init ==
  /\ frames = <<>> /\ rows = {} /\ claims = {} /\ posts = <<>>
  /\ inbox = [b \in Beings |-> {}]
  /\ up = [b \in Beings |-> FALSE] /\ wasReady = [b \in Beings |-> FALSE]
  /\ tails \in AtBoot
  /\ calls = {} /\ pending = {} /\ marks = <<>> /\ consumed = {}
  /\ life = 1 /\ flips = 0

----------------------------------------------------------------------------
(* pending-outbound.mjs: the row is set before the call and taken by the    *)
(* first inbound line of that being and text; a failed send leaves it.      *)
(* Mutation of Register: nothing is set before the call. *)
RegisterLate(p, by, text) == p
Register(p, by, text) == p \cup {<<by, text>>}
Without(p, k) == p \ {k}

(* outbound-guard.mjs: born before this seat attached to the room, or from *)
(* an import; the mute and the breakers are a choice in Send.              *)
Stale(f) == f.life < life

(* relay.mjs, textFor: a line whose mark or whose "in" row is still there  *)
(* came from the platform and is not relayed.                              *)
Marked(f)   == \E k \in DOMAIN marks : marks[k] = <<f.by, f.text>>
Inbound(f, rs) ==
  {r \in rs : r.dir = "in" /\ r.by = f.by /\ r.text = f.text} \ consumed
Relays(f, rs) == ~Marked(f) /\ Inbound(f, rs) = {}

RelayedOut(n) == \E r \in rows : r.dir = "out" /\ r.seq = n
Claim(n) == n \notin claims

(* seat.mjs, onFrame: whether seat b sends frame f, the n-th, out.         *)
GoesOut(b, f, n, rs) ==
  \/ f.kind = "speech"  /\ f.by = b
  \/ f.kind = "media"   /\ f.by \in {b, Human}
  \/ f.kind = "notice"  /\ b = Owner /\ Claim(n)
  \/ f.kind = "message" /\ b = Owner /\ ~Stale(f) /\ ~RelayedOut(n)
                        /\ Relays(f, rs) /\ Claim(n)

Chunks(f) == IF f.kind = "message" THEN <<Relayed(f.text[1])>>
             ELSE IF f.kind = "media" THEN <<Media>> ELSE f.text

(* speak(): the guard's refusal, or the host's, is a row; else a call.     *)
Call(b, f, n) == [acct |-> b, run |-> 0, by |-> f.by, seq |-> n,
                  rest |-> Chunks(f), queue |-> <<>>, at |-> 0]
Fenced(f) == f.kind # "notice" /\ Stale(f)

Send(S, f, n, rs) ==
  \E muted \in SUBSET S :
    LET refused == {b \in S : b \in muted \/ Fenced(f)}
        sent    == S \ refused
        lost    == {b \in S : b \in refused \/ ~up[b]}
        Why(b)  == IF b \in refused THEN "refused" ELSE "not-ready"
    IN /\ rows' = rs \cup {OutRow(0, f.by, n, Why(b), FALSE) : b \in lost}
       /\ calls' = calls \cup {Call(b, f, n) : b \in {c \in sent : up[c]}}
       /\ pending' = IF sent = {} \/ f.kind = "media" THEN pending
                     ELSE Register(pending, f.by, Chunks(f)[1])

(* A frame is appended: the bus hands it to every seat that tails the room *)
(* at once. rs is the sidecar as the appending handler left it.            *)
Appends(f, rs, T) ==
  LET n == Len(frames) + 1
      S == {b \in T : GoesOut(b, f, n, rs)}
      mine == f.kind = "message" /\ Owner \in T /\ ~Stale(f)
      hits == Inbound(f, rs)
  IN /\ Len(frames) < MaxFrames
     /\ frames' = Append(frames, f)
     /\ claims' = IF f.kind \in {"message", "notice"} /\ S # {} THEN claims \cup {n} ELSE claims
     /\ Send(S, f, n, rs)
     /\ consumed' = IF mine /\ ~Marked(f) /\ hits # {}
                    THEN consumed \cup {CHOOSE r \in hits : \A s \in hits : r.id <= s.id}
                    ELSE consumed

Frame(kind, by, text, born, src) ==
  [kind |-> kind, by |-> by, text |-> text, life |-> born, src |-> src]

(* A being's turn ends in speech, or attaches something.                   *)
Speaks(b, sp) ==
  /\ Appends(Frame("speech", b, [k \in DOMAIN sp |-> Line(sp[k])], life, 0), rows, tails)
  /\ UNCHANGED <<posts, marks>> /\ UNCHANGED hosts
Attaches(by) ==
  /\ Appends(Frame("media", by, <<Media>>, life, 0), rows, tails)
  /\ UNCHANGED <<posts, marks>> /\ UNCHANGED hosts

(* A person types in the app: textFor looks for a mark and uses it up.     *)
TypesInApp(x) ==
  LET f == Frame("message", Human, <<Line(x)>>, life, 0) IN
  /\ Appends(f, rows, tails)
  /\ marks' = IF Marked(f) /\ Owner \in tails THEN Remove(marks, <<f.by, f.text>>) ELSE marks
  /\ UNCHANGED posts /\ UNCHANGED hosts

(* A loop-control notice of the house (room-control, ai-heuristic).        *)
Notice(x) ==
  /\ Appends(Frame("notice", "house", <<Line(x)>>, life, 0), rows, tails)
  /\ UNCHANGED <<posts, marks>> /\ UNCHANGED hosts

(* An import or a restore appends history to a record that is tailed.      *)
Retrofit(kind, by, x) ==
  /\ Appends(Frame(kind, by, <<Line(x)>>, 0, 0), rows, tails)
  /\ UNCHANGED <<posts, marks>> /\ UNCHANGED hosts

----------------------------------------------------------------------------
(* The platform. A post reaches the other accounts whose hosts are up.     *)
Post(p) ==
  LET id == Len(posts) + 1 IN
  /\ Len(posts) < MaxPosts
  /\ posts' = Append(posts, p)
  /\ inbox' = [b \in Beings |-> IF up[b] /\ b # p.acct THEN inbox[b] \cup {id} ELSE inbox[b]]

HumanPosts(x) ==
  /\ Post([acct |-> Human, text |-> Line(x), seq |-> 0, life |-> life, run |-> 0])
  /\ UNCHANGED <<frames, rows, claims, up, wasReady, tails, life, flips>> /\ UNCHANGED memory

(* apply() and roomInput: ensureLive has every seat tail the room; an id    *)
(* already in the sidecar is a duplicate; a being's own pending text is an  *)
(* echo and only its row is kept; the rest becomes a row, then a frame, and *)
(* the seat that recorded it marks it.                                      *)
EchoOf(p) == p.acct \in Beings /\ <<p.acct, p.text>> \in pending

Applies(b, id) ==
  LET p == posts[id]
      f == Frame("message", p.acct, <<p.text>>, life, id)
      in == rows \cup {InRow(id, p.acct, <<p.text>>)}
  IN /\ id \in inbox[b]
     /\ inbox' = [inbox EXCEPT ![b] = @ \ {id}]
     /\ tails' = Beings
     /\ \/ /\ Recorded(id)
           /\ UNCHANGED <<frames, rows, claims, calls, pending, marks, consumed>>
        \/ /\ ~Recorded(id) /\ EchoOf(p)
           /\ rows' = in
           /\ pending' = Without(pending, <<p.acct, p.text>>)
           /\ UNCHANGED <<frames, claims, calls, marks, consumed>>
        \/ /\ ~Recorded(id) /\ ~EchoOf(p)
           /\ Appends(f, in, Beings)
           /\ marks' = LET left == IF Marked(f) THEN Remove(marks, <<f.by, f.text>>) ELSE marks
                       IN IF b = Owner THEN Append(left, <<f.by, f.text>>) ELSE left
     /\ UNCHANGED <<posts, up, wasReady, life, flips>>

----------------------------------------------------------------------------
(* Calls: the platform takes a chunk, the result comes back, or the call    *)
(* fails (refused, timed out, connection gone) whether it was taken or not. *)
Lands(c) ==
  /\ c.seq > 0 /\ c.at = 0 /\ up[c.acct]
  /\ Post([acct |-> c.acct, text |-> Head(c.rest), seq |-> c.seq, life |-> life, run |-> c.run])
  /\ calls' = (calls \ {c}) \cup {[c EXCEPT !.at = Len(posts) + 1]}
  /\ UNCHANGED <<frames, rows, claims, up, wasReady, tails, life, flips, pending, marks, consumed>>

(* A redelivery's worker between two of its items. *)
Worker(b, run, q) ==
  IF q = <<>> THEN {}
  ELSE {[acct |-> b, run |-> run, by |-> b, seq |-> 0, rest |-> <<>>, queue |-> q, at |-> 0]}

Returns(c) ==
  LET more == c.run = 0 /\ Len(c.rest) > 1
      rest == Tail(c.rest)
      done == rows \cup {OutRow(c.at, c.by, c.seq, "", c.run > 0)}
  IN /\ c.at > 0
     /\ rows' = IF more /\ ~up[c.acct]
                THEN done \cup {OutRow(0, c.by, c.seq, "not-ready", FALSE)} ELSE done
     /\ calls' = (calls \ {c}) \cup
                   IF c.run > 0 THEN Worker(c.acct, c.run, c.queue)
                   ELSE IF more /\ up[c.acct] THEN {[c EXCEPT !.rest = rest, !.at = 0]} ELSE {}
     /\ pending' = IF more THEN Register(pending, c.by, Head(rest)) ELSE pending
     /\ UNCHANGED <<frames, claims, posts, marks, consumed>> /\ UNCHANGED hosts

Fails(c) ==
  /\ c.seq > 0
  /\ rows' = IF c.run > 0 THEN rows ELSE rows \cup {OutRow(0, c.by, c.seq, "error", FALSE)}
  /\ calls' = (calls \ {c}) \cup IF c.run > 0 THEN Worker(c.acct, c.run, c.queue) ELSE {}
  /\ UNCHANGED <<frames, claims, posts, pending, marks, consumed>> /\ UNCHANGED hosts

----------------------------------------------------------------------------
(* redeliver.mjs: what seat b still owes, and the watcher's edge.          *)
(* Mutation of Owed: whoever's row it is. *)
OwedByAnyone(b) ==
  {r.seq : r \in {s \in rows : s.dir = "out" /\ s.why = "not-ready"}}
Owed(b) ==
  {r.seq : r \in {s \in rows : /\ s.dir = "out" /\ s.by = b /\ s.why = "not-ready"
                               /\ ~\E t \in rows : t.re /\ t.seq = s.seq}}

(* The one order of what is owed: that of the record.                      *)
Ascending(S) ==
  {q \in [1 .. Cardinality(S) -> S] : \A i, j \in DOMAIN q : i < j => q[i] < q[j]}

Polls(b) ==
  /\ up[b] # wasReady[b]
  /\ wasReady' = [wasReady EXCEPT ![b] = up[b]]
  /\ IF up[b] /\ b \in tails
     THEN \E q \in Ascending(Owed(b)) : calls' = calls \cup Worker(b, flips + 1, q)
     ELSE UNCHANGED calls
  /\ UNCHANGED <<frames, rows, claims, posts, inbox, up, tails, pending, marks, consumed, life, flips>>

(* The next item: a media frame has no text to send, a fenced one leaves a *)
(* row, a host that is not ready leaves none; only the first chunk goes.   *)
Redelivers(c) ==
  LET n == Head(c.queue)
      f == frames[n]
      next == Worker(c.acct, c.run, Tail(c.queue))
      skip == (calls \ {c}) \cup next
  IN /\ c.seq = 0
     /\ \/ /\ f.kind # "media"
           /\ rows' = rows \cup {OutRow(0, c.by, n, "refused", FALSE)}
           /\ calls' = skip
        \/ /\ f.kind = "media" \/ (~Stale(f) /\ ~up[c.acct])
           /\ calls' = skip /\ UNCHANGED rows
        \/ /\ f.kind # "media" /\ ~Stale(f) /\ up[c.acct]
           /\ calls' = (calls \ {c}) \cup
                {[acct |-> c.acct, run |-> c.run, by |-> c.by, seq |-> n,
                  rest |-> <<Chunks(f)[1]>>, queue |-> Tail(c.queue), at |-> 0]}
           /\ UNCHANGED rows
     /\ UNCHANGED <<frames, claims, posts, pending, marks, consumed>> /\ UNCHANGED hosts

(* A seat's host (the child process, or the being's container) comes, opens *)
(* its channels and sweeps their histories for what the sidecar lacks; it  *)
(* goes; a restart of the house loses everything but files and platform.   *)
Missed(b) == {id \in DOMAIN posts : posts[id].acct # b /\ ~Recorded(id)}
HostUp(b) ==
  /\ ~up[b] /\ up' = [up EXCEPT ![b] = TRUE]
  /\ inbox' = [inbox EXCEPT ![b] = @ \cup Missed(b)]
  /\ UNCHANGED <<frames, rows, claims, posts, wasReady, tails, life, flips>>
  /\ UNCHANGED memory
HostDown(b) ==
  /\ up[b] /\ up' = [up EXCEPT ![b] = FALSE]
  /\ life + flips <= MaxFaults /\ flips' = flips + 1
  /\ UNCHANGED <<frames, rows, claims, posts, inbox, wasReady, tails, life>> /\ UNCHANGED memory

Ends(T, rs) ==
  /\ life + flips <= MaxFaults /\ life' = life + 1
  /\ rows' = rs
  /\ calls' = {} /\ pending' = {} /\ marks' = <<>> /\ consumed' = {}
  /\ inbox' = [b \in Beings |-> {}]
  /\ up' = [b \in Beings |-> FALSE] /\ wasReady' = [b \in Beings |-> FALSE]
  /\ tails' = T
  /\ UNCHANGED <<frames, claims, posts, flips>>

(* The house ends, at rest or between roomInput's row and its frame.       *)
Restart(T) == Ends(T, rows)
EndsInInput(b, id, T) ==
  /\ id \in inbox[b] /\ ~Recorded(id) /\ ~EchoOf(posts[id])
  /\ Ends(T, rows \cup {InRow(id, posts[id].acct, <<posts[id].text>>)})

Next ==
  \/ \E b \in Beings : Polls(b) \/ HostUp(b) \/ HostDown(b)
  \/ \E b \in Speakers, sp \in Speeches : Speaks(b, sp)
  \/ \E by \in Speakers \cup {Human} : Attaches(by)
  \/ \E x \in Lines : \/ TypesInApp(x) \/ Notice(x) \/ HumanPosts(x)
                      \/ Retrofit("message", Human, x)
                      \/ \E b \in Speakers : Retrofit("speech", b, x)
  \/ \E b \in Beings, id \in DOMAIN posts : Applies(b, id)
  \/ \E c \in calls : Lands(c) \/ Returns(c) \/ Fails(c) \/ Redelivers(c)
  \/ \E T \in AtBoot : \/ Restart(T)
                       \/ \E b \in Beings : \E id \in inbox[b] : EndsInInput(b, id, T)

Spec == Init /\ [][Next]_vars
----------------------------------------------------------------------------
(* The state of the room is what the handlers above can write.             *)
By == Beings \cup {Human, "house"}
Text == Seq(Words)
Kinds == {"speech", "media", "notice", "message"}
AFrame == [kind : Kinds, by : By,
           text : Seq(Text) \ {<<>>}, life : Nat, src : Nat]
Reasons == {"", "refused", "not-ready", "error"}
ARow == [dir : {"in", "out"}, id : Nat, by : By, text : Seq(Text), seq : Nat,
         why : Reasons, re : BOOLEAN]
APost == [acct : Beings \cup {Human}, text : Text, seq : Nat, life : Nat, run : Nat]
ACall == [acct : Beings, run : Nat, by : By, seq : Nat, rest : Seq(Text), queue : Seq(Nat), at : Nat]
TypeOK ==
  /\ frames \in Seq(AFrame) /\ rows \subseteq ARow /\ posts \in Seq(APost) /\ calls \subseteq ACall
  /\ claims \subseteq DOMAIN frames /\ consumed \subseteq rows
  /\ inbox \in [Beings -> SUBSET DOMAIN posts]
  /\ up \in [Beings -> BOOLEAN] /\ wasReady \in [Beings -> BOOLEAN] /\ tails \subseteq Beings
  /\ pending \subseteq By \X Text
  /\ life \in Nat /\ flips \in Nat

OwnPosts == {i \in DOMAIN posts : posts[i].acct \in Beings}
FrameOf(i) == frames[posts[i].seq]

(* Whichever seats are handed a message, live, swept or both, and however  *)
(* often the house restarts, one frame at most is written for it           *)
(* (serve-rooms.mjs, externalAlreadyRecorded).                             *)
RecordedOnce ==
  \A i, j \in DOMAIN frames : frames[i].src # 0 /\ frames[i].src = frames[j].src => i = j

(* A seat's account says what its own being said or attached, or what a    *)
(* person attached in the app; only the owner's says more. A row that      *)
(* another being's seat still owes is not this seat's to send              *)
(* (redeliver.mjs, the finding of 2026-09-19).                             *)
OwnVoice ==
  \A i \in OwnPosts : \/ FrameOf(i).by = posts[i].acct
                      \/ FrameOf(i).kind = "media" /\ FrameOf(i).by = Human
                      \/ FrameOf(i).kind \in {"message", "notice"} /\ posts[i].acct = Owner

(* Nothing written before this run of the house goes out in it: neither    *)
(* history that a restore appends, nor a row left not-ready before a       *)
(* restart (outbound-guard.mjs, rule 2).                                   *)
NothingOld == \A i \in OwnPosts : FrameOf(i).life = posts[i].life

(* What came from the platform is not sent back to it, and a line of the   *)
(* app or a notice is sent once by one seat (relay.mjs; the incident of    *)
(* 2026-09-20).                                                            *)
RelayedOnce ==
  \A i \in OwnPosts : FrameOf(i).kind \in {"message", "notice"} =>
     /\ FrameOf(i).src = 0
     /\ \A j \in OwnPosts : posts[j].seq = posts[i].seq => j = i
(* What goes out is new, and goes out once, and not to where it came from. *)
NewOnce == NothingOld /\ RelayedOnce
(* Neither way is anything doubled.                                        *)
OnceEach == RecordedOnce /\ NewOnce

(* A being's speech that comes back through another account is no message *)
(* of the record: unless the text was said twice, a restart forgot it, or *)
(* it went out by a redelivery, which registers nothing                   *)
(* (pending-outbound.mjs).                                                *)
SaidTwice(i) ==
  \E j \in DOMAIN posts : j # i /\ posts[j].acct = posts[i].acct /\ posts[j].text = posts[i].text
EchoIsNoMessage ==
  \A k \in DOMAIN frames : frames[k].src \in OwnPosts =>
     LET p == posts[frames[k].src] IN
     \/ FrameOf(frames[k].src).kind # "speech" \/ p.run > 0
     \/ SaidTwice(frames[k].src) \/ frames[k].life # p.life

(* mcpl/redeliver.mjs, its header: a not-ready row is retried once.        *)
RetriedOnce ==
  \A i, j \in OwnPosts :
     posts[i].run > 0 /\ posts[j].run > 0 /\ posts[i].seq = posts[j].seq => i = j

(* mcpl/seat.mjs, onFrame: every frame but a message has one seat that     *)
(* owns its sending.                                                       *)
SentByOneSeat ==
  \A i, j \in OwnPosts : posts[i].seq = posts[j].seq => posts[i].acct = posts[j].acct
============================================================================
