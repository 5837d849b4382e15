------------------------------ MODULE BoardSeat ------------------------------
(* A being's seat on the web board: the board's socket hub (web-board's    *)
(* ws.mjs), the client at its other end (mcpl-web's board-client.mjs) and  *)
(* the seat's server, which hands its host one thing at a time (mcpl-web's *)
(* server.mjs).  Board has what posts and moderation are; here a post has  *)
(* a room and an author, and may be out of view.  One speech of two chunks *)
(* stands for the requests that await an answer.                           *)
EXTENDS Integers, Sequences, FiniteSets, SequencesExt

CONSTANTS MaxOthers, Budget   \* bounds: others' posts; all that the world does to the seat

VARIABLES
  webRooms,  \* the rooms of the board: 1, and 2 once it is opened
  posts,     \* on the board: [room, chunk, hidden]; chunk 0: another's
  sock,      \* [up, ready: the client's; there, all: the hub's]
  toSeat, toBoard,   \* frames under way
  speech,    \* [chunk, at]: what the seat's own request has come to
  known, announced, opened,  \* the server's rooms: known, told of, open
  granted,   \* the host's policy; the grace that ends without one gives nothing
  chain,     \* jobs in order of arrival
  awaits,    \* whether the first job waits for its rooms' announcement
  told, delivered,   \* what the host has taken: rooms; posts and verdicts in order
  missed,    \* verdicts the host never got, rooms it would not be told of
  spent

seatVars == <<webRooms, posts, sock, toSeat, toBoard, speech, known, announced, opened, granted,
              chain, awaits, told, delivered, missed, spent>>
Wire == <<sock, toSeat, toBoard>>
Server == <<known, announced, opened, granted>>
Jobs == <<chain, awaits, told, delivered>>
World == <<webRooms, posts>>

Rooms == 1 .. 2
F(type, n, on) == [type |-> type, n |-> n, on |-> on]
Hello == F("hello", Cardinality(webRooms), TRUE)
Down == [up |-> FALSE, ready |-> FALSE, there |-> FALSE, all |-> FALSE]
Spends == spent < Budget /\ spent' = spent + 1

Init ==
  /\ webRooms = {1} /\ posts = <<>> /\ sock = Down /\ toSeat = <<>> /\ toBoard = <<>>
  /\ speech = [chunk |-> 0, at |-> "none"]
  /\ known = {} /\ announced = {} /\ opened = {} /\ granted = FALSE
  /\ chain = <<>> /\ awaits = FALSE /\ told = {} /\ delivered = <<>>
  /\ missed = {} /\ spent = 0

-----------------------------------------------------------------------------
(* The hub: posts and verdicts go to who has subscribed, rooms to all.     *)
Verdicts(fs) == {f \in fs : f.type = "verdict"}
Heard(f) == IF sock.there /\ (sock.all \/ f.type = "room") THEN <<f>> ELSE <<>>
Emits(f, answer) ==
  /\ toSeat' = toSeat \o Heard(f) \o answer
  /\ missed' = missed \cup IF Heard(f) = <<>> THEN Verdicts({f}) ELSE {}
Post(r, c, answer) ==
  /\ posts' = Append(posts, [room |-> r, chunk |-> c, hidden |-> FALSE])
  /\ Emits(F("post", Len(posts) + 1, TRUE), answer)

Others == {i \in DOMAIN posts : posts[i].chunk = 0}
OtherPosts(r) ==
  /\ Spends /\ Cardinality(Others) < MaxOthers /\ r \in webRooms /\ Post(r, 0, <<>>)
  /\ UNCHANGED <<webRooms, sock, toBoard, speech, Server, Jobs>>
Verdict(i) ==
  /\ Spends
  /\ posts' = [posts EXCEPT ![i].hidden = ~@]
  /\ Emits(F("verdict", i, ~posts[i].hidden), <<>>)
  /\ UNCHANGED <<webRooms, sock, toBoard, speech, Server, Jobs>>
OpensRoom ==
  /\ Spends /\ webRooms = {1} /\ webRooms' = Rooms /\ Emits(F("room", 2, TRUE), <<>>)
  /\ UNCHANGED <<posts, sock, toBoard, speech, Server, Jobs>>

HubReads ==
  /\ toBoard # <<>> /\ toBoard' = Tail(toBoard)
  /\ LET f == Head(toBoard) IN
     \/ /\ f.type = "subscribe" /\ sock' = [sock EXCEPT !.all = TRUE]
        /\ UNCHANGED <<posts, toSeat, missed, spent>>
     \/ /\ f.type = "chunk" /\ Post(1, f.n, <<F("ack", f.n, TRUE)>>)
        /\ UNCHANGED <<sock, spent>>
     \/ /\ f.type = "chunk" /\ Spends /\ toSeat' = Append(toSeat, F("ack", f.n, FALSE))
        /\ UNCHANGED <<posts, sock, missed>>
  /\ UNCHANGED <<webRooms, speech, Server, Jobs>>

-----------------------------------------------------------------------------
(* The client.  What it asks waits for a hello; once sent it is never sent *)
(* again.                                                                  *)
Unacked == "failed"
Asks(c, ready) == [chunk |-> c, at |-> IF ready THEN "sent" ELSE "waiting"]
Chunk(c) == IF sock.there THEN <<F("chunk", c, TRUE)>> ELSE <<>>

Speaks ==
  /\ Spends /\ speech.at = "none" /\ granted /\ speech' = Asks(1, sock.ready)
  /\ toBoard' = IF sock.ready THEN toBoard \o Chunk(1) ELSE toBoard
  /\ UNCHANGED <<World, sock, toSeat, Server, Jobs, missed>>
TimesOut ==
  /\ speech.at \in {"waiting", "sent"} /\ Spends /\ speech' = [speech EXCEPT !.at = "failed"]
  /\ UNCHANGED <<World, Wire, Server, Jobs, missed>>

Connects ==
  /\ ~sock.up /\ sock' = [Down EXCEPT !.up = TRUE, !.there = TRUE]
  /\ toSeat' = <<Hello>> /\ toBoard' = <<>>
  /\ UNCHANGED <<World, speech, Server, Jobs, missed, spent>>

(* The connection is gone at the hub; then the client sees the close.      *)
Breaks ==
  /\ sock.there /\ Spends /\ sock' = [sock EXCEPT !.there = FALSE, !.all = FALSE]
  /\ toSeat' = <<>> /\ toBoard' = <<>> /\ missed' = missed \cup Verdicts(Range(toSeat))
  /\ UNCHANGED <<World, speech, Server, Jobs>>
Closes ==
  /\ sock.up /\ ~sock.there /\ sock' = Down
  /\ speech' = IF speech.at = "sent" THEN [speech EXCEPT !.at = Unacked] ELSE speech
  /\ UNCHANGED <<World, toSeat, toBoard, Server, Jobs, missed, spent>>

Woken == speech.at = "waiting"
ClientReads ==
  /\ toSeat # <<>> /\ toSeat' = Tail(toSeat)
  /\ LET f == Head(toSeat)
         mine == f.type = "ack" /\ speech.at = "sent" /\ speech.chunk = f.n
     IN /\ sock' = IF f.type = "hello" THEN [sock EXCEPT !.ready = TRUE] ELSE sock
        /\ speech' = CASE f.type = "hello" /\ Woken -> [speech EXCEPT !.at = "sent"]
                       [] mine /\ ~f.on -> [speech EXCEPT !.at = "failed"]
                       [] mine /\ f.on /\ f.n = 1 -> Asks(2, TRUE)
                       [] mine /\ f.on /\ f.n = 2 -> [speech EXCEPT !.at = "ok"]
                       [] OTHER -> speech
        /\ toBoard' = toBoard \o
             CASE f.type = "hello" ->
                    <<F("subscribe", 0, TRUE)>> \o IF Woken THEN Chunk(speech.chunk) ELSE <<>>
               [] mine /\ f.on /\ f.n = 1 -> Chunk(2)
               [] OTHER -> <<>>
        /\ chain' = IF f.type = "ack" THEN chain ELSE Append(chain, f)
  /\ UNCHANGED <<World, Server, awaits, told, delivered, missed, spent>>

-----------------------------------------------------------------------------
(* The server: the first job of the chain learns rooms, tells the host of  *)
(* those it has not heard of, then delivers what there is to deliver.      *)
ToTell(k) == IF granted THEN k \ announced ELSE {}
Learns(f) == CASE f.type = "hello" -> 1 .. f.n
               [] f.type = "room"  -> {f.n}
               [] f.type = "post"  -> {posts[f.n].room}
               [] OTHER -> {}
(* A closed channel hears what is addressed to the seat.                   *)
Delivers(f) ==
  granted /\ \/ f.type = "verdict"
             \/ f.type = "post" /\ posts[f.n].chunk = 0

(* A request to the host is taken, or refused: then it is not repeated.    *)
Goes(f) ==
  /\ chain' = Tail(chain) /\ awaits' = FALSE
  /\ \/ Delivers(f) /\ delivered' = Append(delivered, f) /\ UNCHANGED <<missed, spent>>
     \/ Delivers(f) /\ Spends /\ missed' = missed \cup Verdicts({f}) /\ UNCHANGED delivered
     \/ /\ ~Delivers(f) \/ (f.type = "post" /\ posts[f.n].room \notin opened)
        /\ missed' = missed \cup Verdicts({f}) /\ UNCHANGED <<delivered, spent>>
Begins ==
  /\ chain # <<>> /\ awaits = FALSE
  /\ LET f == Head(chain)
         own == f.type = "post" /\ posts[f.n].chunk > 0
         k == IF own THEN known ELSE known \cup Learns(f)
         tell == IF f.type = "verdict" \/ own THEN {} ELSE ToTell(k)
     IN /\ known' = k /\ announced' = announced \cup tell
        /\ \/ tell = {} /\ Goes(f) /\ UNCHANGED told
           \/ /\ tell # {} /\ awaits' = TRUE /\ UNCHANGED <<chain, delivered>>
              /\ \/ told' = told \cup tell /\ UNCHANGED <<missed, spent>>
                 \/ /\ Spends /\ UNCHANGED told
                    /\ missed' = missed \cup {F("told", r, TRUE) : r \in tell}
  /\ UNCHANGED <<World, Wire, speech, opened, granted>>
Answered ==
  /\ awaits /\ Goes(Head(chain))
  /\ UNCHANGED <<World, Wire, speech, Server, told>>
(* The host's grant, by a request; narrowed by a notification; the grace.  *)
Grants ==
  /\ ~granted /\ granted' = TRUE
  /\ chain' = Append(chain, F("grant", 0, TRUE))
  /\ UNCHANGED <<World, Wire, speech, known, announced, opened, awaits, told, delivered,
                 missed, spent>>
Narrows ==
  /\ granted /\ Spends /\ granted' = FALSE
  /\ UNCHANGED <<World, Wire, speech, known, announced, opened, Jobs, missed>>
OpensChannel(r) ==
  /\ Spends /\ granted /\ r \in webRooms \ opened
  /\ opened' = opened \cup {r} /\ known' = known \cup {r}
  /\ UNCHANGED <<World, Wire, speech, announced, granted, Jobs, missed>>
ClosesChannel(r) ==
  /\ granted /\ Spends /\ r \in opened /\ opened' = opened \ {r}
  /\ UNCHANGED <<World, Wire, speech, known, announced, granted, Jobs, missed>>

Next ==
  \/ \E r \in Rooms : OtherPosts(r)
  \/ \E i \in Others : Verdict(i)
  \/ OpensRoom \/ HubReads \/ Speaks \/ TimesOut \/ Connects \/ Breaks \/ Closes \/ ClientReads
  \/ Begins \/ Answered \/ Grants \/ Narrows
  \/ \E r \in Rooms : OpensChannel(r) \/ ClosesChannel(r)
Spec == Init /\ [][Next]_seatVars

-----------------------------------------------------------------------------
DeliveredPosts == SelectSeq(delivered, LAMBDA f : f.type = "post")
(* What the host hears of others' posts comes in the board's order and     *)
(* once; nothing of the seat's own comes back to it.                       *)
HeardInOrder ==
  /\ \A i, j \in DOMAIN DeliveredPosts : i < j => DeliveredPosts[i].n < DeliveredPosts[j].n
  /\ \A i \in DOMAIN DeliveredPosts : posts[DeliveredPosts[i].n].chunk = 0

(* A post is of a room the host was told of before, or refused to hear of. *)
KnownFirst == \A i \in DOMAIN DeliveredPosts :
  LET r == posts[DeliveredPosts[i].n].room IN r \in told \/ F("told", r, TRUE) \in missed

(* What the seat says is on the board once, chunk by chunk; a success is   *)
(* on it whole, a failure that nothing interrupted is on it in part.       *)
Own == SelectSeq(posts, LAMBDA x : x.chunk > 0)
SaidOnce ==
  /\ Len(Own) <= 2 /\ \A i \in DOMAIN Own : Own[i].chunk = i
  /\ speech.at = "ok" => Len(Own) = 2
  /\ speech.at # "none" => Len(Own) >= speech.chunk - 1

(* When all is read, what the host thinks of a post's being in view is the *)
(* board's verdict, unless it missed one.                                  *)
View(i) == LET v == SelectSeq(delivered, LAMBDA f : f.type = "verdict" /\ f.n = i)
           IN v # <<>> /\ v[Len(v)].on
Settled == toSeat = <<>> /\ chain = <<>>
VerdictFollows == Settled => \A i \in DOMAIN posts :
  (\A on \in BOOLEAN : F("verdict", i, on) \notin missed) => View(i) = posts[i].hidden

Sound == HeardInOrder /\ KnownFirst /\ SaidOnce /\ VerdictFollows

(* Violated.  mcpl-web/server.mjs:19-20: an open channel "forwards every   *)
(* other post"; what is posted while the seat is away, or between the      *)
(* hello and its subscription, never comes.                                *)
ForwardsEvery == Settled /\ sock.all => \A i \in Others :
  posts[i].room \in opened => \E d \in DOMAIN DeliveredPosts : DeliveredPosts[d].n = i

(* Violated.  mcpl-web/server.mjs:24-26: the board's verdict "reaches the  *)
(* house"; one given while the seat is away does not.                      *)
VerdictReaches == Settled /\ sock.all => \A i \in DOMAIN posts : View(i) = posts[i].hidden

(* Violated.  mcpl-web/server.mjs:9-11: the rooms the hello listed are     *)
(* registered; those whose registration the host refused never are.        *)
Registers == Settled /\ sock.ready /\ granted => webRooms \subseteq told
=============================================================================
