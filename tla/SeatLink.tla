------------------------------ MODULE SeatLink ------------------------------
(***************************************************************************)
(* The seat: one being's connection to the house, over sockets that break. *)
(* The being's side is SeatClient: it reconnects, holds what it sends from *)
(* a close to the next seat.ready, and asks to resume after the highest    *)
(* number it has seen.  The house's side is SocketSeatServer and its       *)
(* onSeat: one live seat per being, attached to every open room, and a     *)
(* ring of what was sent, replayed to a being that resumes.                *)
(*                                                                         *)
(* A connection that breaks loses what is in flight on it; each end goes   *)
(* on reading what it was sent before until it sees the close, at a time   *)
(* of its own.  What the messages say is nothing to the link: they are     *)
(* numbered, in each direction.                                            *)
(***************************************************************************)
EXTENDS Naturals, Sequences, FiniteSets, SequencesExt

CONSTANTS
  Rooms,        \* rooms whose roster names the being
  HandshakeRoom,\* raw.room: a room, or the handle a walker without --room gives
  Slots,        \* connections, each used again once both ends are done with it
  RingCap,      \* RESUME_RING_CAP
  MaxUp, MaxDown, MaxBreaks, MaxRestarts   \* bounds of the instance

ASSUME SeatLinkAssumption ==
  /\ RingCap \in Nat \ {0}
  /\ MaxUp \in Nat /\ MaxDown \in Nat /\ MaxBreaks \in Nat /\ MaxRestarts \in Nat

None == "none"     \* no connection

VARIABLES
  conn,       \* client.socket while it is live
  holding,    \* client._holding
  started,    \* connect() has resolved: the walker sends nothing before
  outbox,     \* client._outbox
  seen,       \* client.lastSeqSeen + 1
  wires,      \* the connections: what each end knows, what is in flight
  registered, \* seatsByBeing's entry
  open,       \* the open rooms
  seated,     \* rec.seats' entry, per room
  ring,       \* the resume ring of HandshakeRoom, from its start
  sent,       \* messages sent so far, up and down
  heard,      \* what each end was given: up in order, down as a set
  was,        \* history of what the properties except, see Was
  breaks, restarts

client == <<conn, holding, started, outbox, seen>>
house == <<registered, open, seated, ring, was>>
vars == <<client, house, wires, sent, heard, breaks, restarts>>

(* `house` is what the house has of the connection: a socket whose         *)
(* handshake it has not read, a seat, or neither any more.  `wire` is the  *)
(* next seq of the house's own counter, which starts over with each        *)
(* connection.                                                             *)
Wire == [alive : BOOLEAN, house : {"unread", "seated", "left"},
         up : Seq({"handshake", "message"} \X Nat),
         down : Seq(Nat \X {"ready", "message"} \X Nat), wire : Nat]

Dead == [alive |-> FALSE, house |-> "left", up |-> <<>>, down |-> <<>>, wire |-> 0]

(* The being was seated again without asking to resume; two connections of *)
(* it were seated at once; a message was sent through a seat that had gone.*)
Was == [unresumed : BOOLEAN, twice : BOOLEAN, late : BOOLEAN]

Init ==
  /\ conn = None /\ holding = FALSE /\ started = FALSE
  /\ outbox = <<>> /\ seen = 0
  /\ wires = [c \in Slots |-> Dead]
  /\ registered = None /\ seated = [r \in Rooms |-> None]
  /\ open \in SUBSET Rooms
  /\ ring = <<>>
  /\ sent = [up |-> 0, down |-> 0]
  /\ heard = [up |-> <<>>, down |-> {}]
  /\ was = [unresumed |-> FALSE, twice |-> FALSE, late |-> FALSE]
  /\ breaks = 0 /\ restarts = 0

Larger(a, b) == IF a < b THEN b ELSE a

-----------------------------------------------------------------------------
(* The being's side.                                                       *)

(* A new socket, and the handshake: it names what the client has seen, if  *)
(* that is anything.                                                       *)
ClientConnects(c) ==
  /\ conn = None
  /\ wires[c].house = "left"
  /\ conn' = c
  /\ wires' = [wires EXCEPT ![c] =
       [Dead EXCEPT !.alive = TRUE, !.house = "unread", !.up = << <<"handshake", seen>> >>]]
  /\ UNCHANGED <<holding, started, outbox, seen, house, sent, heard, breaks, restarts>>

(* What is written to a connection that has broken is lost.                *)
Written(c, messages) ==
  IF wires[c].alive THEN [wires EXCEPT ![c].up = @ \o messages] ELSE wires

(* Mutation of Holds: only a client without a socket holds.                *)
HoldsWhileDown == conn = None

Holds == conn = None \/ holding

ClientSends ==
  /\ started /\ sent.up < MaxUp
  /\ sent' = [sent EXCEPT !.up = @ + 1]
  /\ IF Holds
     THEN outbox' = Append(outbox, <<"message", sent.up + 1>>) /\ UNCHANGED wires
     ELSE wires' = Written(conn, << <<"message", sent.up + 1>> >>) /\ UNCHANGED outbox
  /\ UNCHANGED <<conn, holding, started, seen, house, heard, breaks, restarts>>

(* Mutation of Held: what is held is flushed from its end.                 *)
HeldFromItsEnd == Reverse(outbox)

Held == outbox

(* _deliver; seat.ready flushes the outbox.                                *)
ClientReceives ==
  /\ conn # None /\ wires[conn].down # <<>>
  /\ LET message == Head(wires[conn].down)
         ready == message[2] = "ready"
         flushed == IF ready THEN Written(conn, Held) ELSE wires
     IN  /\ seen' = Larger(seen, message[1] + 1)
         /\ wires' = [flushed EXCEPT ![conn].down = Tail(@)]
         /\ outbox' = IF ready THEN <<>> ELSE outbox
         /\ holding' = (holding /\ ~ready)
         /\ started' = (started \/ ready)
         /\ heard' = IF ready THEN heard
                     ELSE [heard EXCEPT !.down = @ \cup {message[3]}]
  /\ UNCHANGED <<conn, house, sent, breaks, restarts>>

ClientSeesClose ==
  /\ conn # None /\ ~wires[conn].alive
  /\ conn' = None
  /\ holding' = TRUE
  /\ UNCHANGED <<started, outbox, seen, wires, house, sent, heard, breaks, restarts>>

-----------------------------------------------------------------------------
(* The house's side.                                                       *)

(* Mutation of Missed: the resume number itself is sent again and the      *)
(* newest is not.                                                          *)
MissedButNewest(resume) ==
  IF resume = 0 \/ ring = <<>> THEN <<>>
  ELSE SubSeq(ring, Larger(resume, Len(ring) - RingCap + 1), Len(ring) - 1)

(* What the ring still holds past the number a being resumes from.         *)
Missed(resume) ==
  IF resume = 0 THEN <<>>
  ELSE SubSeq(ring, Larger(resume, IF Len(ring) > RingCap THEN Len(ring) - RingCap ELSE 0) + 1,
              Len(ring))

(* One message after another, with the connection's own numbers.           *)
Numbered(c, messages) ==
  [i \in 1 .. Len(messages) |->
     <<wires[c].wire + i - 1, messages[i][1], messages[i][2]>>]

Sent(c, messages) ==
  [wires[c] EXCEPT !.down = IF wires[c].alive THEN @ \o Numbered(c, messages) ELSE @,
                   !.wire = @ + Len(messages)]

Handshakes(c) ==
  wires[c].house = "unread" /\ wires[c].up # <<>> /\ Head(wires[c].up)[1] = "handshake"

SeatedNow == {c \in Slots : wires[c].house = "seated"}

(* onSeat's check: a live seat of the being in some open room.             *)
HasLiveSeat == \E r \in open : seated[r] # None

HouseRefuses(c) ==
  /\ Handshakes(c) /\ HasLiveSeat
  /\ wires' = [wires EXCEPT ![c].alive = FALSE, ![c].house = "left"]
  /\ UNCHANGED <<client, house, sent, heard, breaks, restarts>>

(* The seat is registered and attached, what was missed is replayed, and   *)
(* seat.ready is sent last, through the ring.                              *)
HouseSeats(c) ==
  /\ Handshakes(c) /\ ~HasLiveSeat
  /\ registered' = c
  /\ seated' = [r \in Rooms |-> IF r \in open THEN c ELSE None]
  /\ LET resume == Head(wires[c].up)[2]
     IN  /\ wires' = [wires EXCEPT ![c] =
              [Sent(c, Append(Missed(resume), <<"ready", 0>>)) EXCEPT
                 !.house = "seated", !.up = Tail(@)]]
         /\ was' = [was EXCEPT !.unresumed = @ \/ (resume = 0 /\ ring # <<>>),
                                !.twice = @ \/ SeatedNow # {}]
  /\ ring' = Append(ring, <<"ready", 0>>)
  /\ UNCHANGED <<client, open, sent, heard, breaks, restarts>>

HouseReceives(c) ==
  /\ wires[c].house = "seated" /\ wires[c].up # <<>>
  /\ heard' = [heard EXCEPT !.up = Append(@, Head(wires[c].up)[2])]
  /\ wires' = [wires EXCEPT ![c].up = Tail(@)]
  /\ UNCHANGED <<client, house, sent, breaks, restarts>>

Ringed(r, message) == IF r = HandshakeRoom THEN Append(ring, message) ELSE ring

(* A message of a room, through the seat the room holds.                   *)
HouseSends(r) ==
  /\ r \in open /\ seated[r] # None
  /\ sent.down < MaxDown
  /\ sent' = [sent EXCEPT !.down = @ + 1]
  /\ ring' = Ringed(r, <<"message", sent.down + 1>>)
  /\ wires' = [wires EXCEPT ![seated[r]] = Sent(seated[r], << <<"message", sent.down + 1>> >>)]
  /\ UNCHANGED <<client, registered, open, seated, was, heard, breaks, restarts>>

(* A tool's result, through the seat its call came by, which has gone:     *)
(* there were more seats, each with its seat.ready in the ring, than are.  *)
HouseSendsLate(r) ==
  /\ r \in open
  /\ Cardinality({i \in 1 .. Len(ring) : ring[i][1] = "ready"}) > Cardinality(SeatedNow)
  /\ sent.down < MaxDown
  /\ sent' = [sent EXCEPT !.down = @ + 1]
  /\ ring' = Ringed(r, <<"message", sent.down + 1>>)
  /\ was' = [was EXCEPT !.late = TRUE]
  /\ UNCHANGED <<client, registered, open, seated, wires, heard, breaks, restarts>>

(* Mutation of WithoutSeat: the rooms keep the seat that left.             *)
SeatsAsTheyWere == seated

WithoutSeat == [r \in Rooms |-> None]

(* onExit: whichever connection it is, the being's registration goes, and  *)
(* its seat in every room.                                                 *)
HouseSeesClose(c) ==
  /\ wires[c].house = "seated" /\ ~wires[c].alive
  /\ wires' = [wires EXCEPT ![c].house = "left"]
  /\ registered' = None
  /\ seated' = WithoutSeat
  /\ UNCHANGED <<client, open, ring, was, sent, heard, breaks, restarts>>

(* A room opens: attachRegisteredSeat.                                     *)
OpenRoom(r) ==
  /\ r \notin open
  /\ open' = open \cup {r}
  /\ seated' = [seated EXCEPT ![r] = registered]
  /\ UNCHANGED <<client, registered, ring, was, wires, sent, heard, breaks, restarts>>

(* The socket closes before its handshake is read.                         *)
HouseDrops(c) ==
  /\ wires[c].house = "unread" /\ ~wires[c].alive
  /\ wires' = [wires EXCEPT ![c].house = "left"]
  /\ UNCHANGED <<client, house, sent, heard, breaks, restarts>>

-----------------------------------------------------------------------------
Break(c) ==
  /\ wires[c].alive /\ breaks < MaxBreaks
  /\ breaks' = breaks + 1
  /\ wires' = [wires EXCEPT ![c].alive = FALSE]
  /\ UNCHANGED <<client, house, sent, heard, restarts>>

(* The house's process ends and starts again, with empty rings.            *)
HouseRestarts ==
  /\ restarts < MaxRestarts
  /\ restarts' = restarts + 1
  /\ wires' = [c \in Slots |-> [wires[c] EXCEPT !.alive = FALSE, !.house = "left", !.up = <<>>]]
  /\ registered' = None
  /\ open' = {} /\ seated' = [r \in Rooms |-> None]
  /\ ring' = <<>>
  /\ UNCHANGED <<client, was, sent, heard, breaks>>

HouseSide(c) ==
  HouseRefuses(c) \/ HouseSeats(c) \/ HouseReceives(c) \/ HouseSeesClose(c)
  \/ HouseDrops(c)

Next ==
  \/ ClientSends
  \/ ClientReceives
  \/ ClientSeesClose
  \/ \E c \in Slots : ClientConnects(c) \/ HouseSide(c) \/ Break(c)
  \/ \E r \in Rooms : HouseSends(r) \/ HouseSendsLate(r) \/ OpenRoom(r)
  \/ HouseRestarts

Spec == Init /\ [][Next]_vars

(* The client's reconnect timer, both event loops and the sockets go on.   *)
FairSpec ==
  /\ Spec
  /\ WF_vars(ClientReceives) /\ WF_vars(ClientSeesClose)
  /\ WF_vars(\E c \in Slots : ClientConnects(c))
  /\ \A c \in Slots : WF_vars(HouseSide(c))

-----------------------------------------------------------------------------
TypeOK ==
  /\ conn \in Slots \cup {None} /\ registered \in Slots \cup {None}
  /\ holding \in BOOLEAN /\ started \in BOOLEAN /\ was \in Was
  /\ outbox \in Seq({"handshake", "message"} \X Nat)
  /\ seen \in Nat
  /\ wires \in [Slots -> Wire]
  /\ open \subseteq Rooms
  /\ seated \in [Rooms -> Slots \cup {None}]
  /\ ring \in Seq({"ready", "message"} \X Nat)
  /\ sent \in [up : Nat, down : Nat]
  /\ heard \in [up : Seq(Nat), down : SUBSET Nat]
  /\ breaks \in Nat /\ restarts \in Nat

(* What the being sends, the house is given in the order it was sent and   *)
(* never twice, over however many connections, restarts of the house among *)
(* them: nothing overtakes what the client held, as long as the house has  *)
(* not seated two connections at once (OneLiveSeat).  (send, _flushOutbox, *)
(* and _holding until seat.ready.)                                         *)
UpInOrder ==
  ~was.twice => \A i, j \in 1 .. Len(heard.up) : i < j => heard.up[i] < heard.up[j]

(* What the client holds it still has to send: a held message is none the  *)
(* house was given, nor one on its way.                                    *)
HeldIsUnsent ==
  \A i \in 1 .. Len(outbox) :
    /\ \A j \in 1 .. Len(heard.up) : heard.up[j] < outbox[i][2]
    /\ \A c \in Slots : \A k \in 1 .. Len(wires[c].up) :
         wires[c].up[k][1] = "message" => wires[c].up[k][2] < outbox[i][2]

(* The house's two tables agree: a room's seat is the registered one, that *)
(* one is in every open room, and it is of a connection not seen to close. *)
(* (seatBeing, attachRegisteredSeat, unregisterSeat, onExit.)              *)
SeatsAgree ==
  /\ \A r \in Rooms : seated[r] = IF r \in open THEN registered ELSE None
  /\ registered # None => wires[registered].house = "seated"

(* A message of the room the handshake named is not skipped: the being was *)
(* given it, or its place in the ring is past the number the being would   *)
(* resume from, as long as the ring reaches back to it, the house has not  *)
(* restarted, the first connection brought the being anything at all, and  *)
(* nothing was sent through a seat that had gone.  (The ring's numbers     *)
(* against the wire's, which start over.)                                  *)
NothingSkipped ==
  restarts = 0 /\ ~was.unresumed /\ ~was.twice /\ ~was.late =>
    \A i \in 1 .. Len(ring) :
      ring[i][1] = "message" /\ i + RingCap > Len(ring)
        => ring[i][2] \in heard.down \/ i > seen

Settled == conn # None /\ registered = conn /\ started /\ ~holding

(* A being in an open room comes to be seated there, on a connection that  *)
(* is the registered one and ready, once connections stop breaking.        *)
ConnectionSettles == [](open # {}) => <>[]Settled

(* socket-seat.mjs:146: "one live seat per being at a time", "a second     *)
(* simultaneous connection for the SAME being is refused".                 *)
OneLiveSeat == Cardinality(SeatedNow) <= 1

(* docs/harness-port/19-seat-idempotency.md:10: "Delivery over this seat   *)
(* is at-least-once": what the house sent a being is given to it, or is on *)
(* its way, or will be replayed.                                           *)
InFlight(n) ==
  \E c \in Slots : /\ wires[c].alive /\ c = conn
                   /\ \E k \in 1 .. Len(wires[c].down) : wires[c].down[k][3] = n
ToReplay(n) ==
  \E i \in seen + 1 .. Len(ring) : ring[i] = <<"message", n>> /\ i + RingCap > Len(ring)

AtLeastOnce ==
  \A n \in 1 .. sent.down : n \in heard.down \/ InFlight(n) \/ ToReplay(n)
=============================================================================
