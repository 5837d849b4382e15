--------------------------- MODULE SeatLinkProofs ---------------------------
(***************************************************************************)
(* What is proved of SeatLink for every set of rooms and connections, any  *)
(* capacity of the ring and any number of breaks, restarts and messages:   *)
(* that the tables agree, and then that what the being sends keeps its     *)
(* order and nothing the house sends it is skipped.                        *)
(***************************************************************************)
EXTENDS SeatLink, TLAPS

Houses == {"unread", "seated", "left"}
Ups == {"handshake", "message"} \X Nat
Downs == Nat \X {"ready", "message"} \X Nat
Ringable == {"ready", "message"} \X Nat

-----------------------------------------------------------------------------
(* Sequences of messages: what is taken off one, and what is put on it.    *)

LEMMA UpSequences ==
  ASSUME NEW s \in Seq(Ups)
  PROVE  /\ \A t \in Seq(Ups) : s \o t \in Seq(Ups)
         /\ \A m \in Ups : Append(s, m) \in Seq(Ups)
         /\ s # <<>> => Head(s) \in Ups /\ Tail(s) \in Seq(Ups)
<1> HIDE DEF Ups
<1> QED OBVIOUS

LEMMA DownSequences ==
  ASSUME NEW s \in Seq(Downs)
  PROVE  /\ \A t \in Seq(Downs) : s \o t \in Seq(Downs)
         /\ s # <<>> => Head(s) \in Downs /\ Tail(s) \in Seq(Downs)
<1> HIDE DEF Downs
<1> QED OBVIOUS

LEMMA RingSequences ==
  ASSUME NEW s \in Seq(Ringable)
  PROVE  /\ \A m \in Ringable : Append(s, m) \in Seq(Ringable)
         /\ \A i \in Nat \ {0} : SubSeq(s, i, Len(s)) \in Seq(Ringable)
         /\ \A i \in 1 .. Len(s) : s[i] \in Ringable
<1> HIDE DEF Ringable
<1>1. \A i \in Nat \ {0} : SubSeq(s, i, Len(s)) \in Seq(Ringable)
  OBVIOUS
<1> QED BY <1>1

-----------------------------------------------------------------------------
(* A connection's fields, and what changing some of them leaves.           *)

LEMMA ListIsSequence ==
  ASSUME NEW n \in Nat, NEW S, NEW f \in [1 .. n -> S]
  PROVE  f \in Seq(S)
OBVIOUS

LEMMA WireFields ==
  ASSUME NEW w \in Wire
  PROVE  /\ w.alive \in BOOLEAN /\ w.house \in Houses /\ w.wire \in Nat
         /\ w.up \in Seq(Ups) /\ w.down \in Seq(Downs)
BY DEF Wire, Houses, Ups, Downs

LEMMA MoreDown ==
  ASSUME NEW w \in Wire, NEW down \in Seq(Downs), NEW wire \in Nat
  PROVE  /\ [w EXCEPT !.down = down, !.wire = wire] \in Wire
         /\ [w EXCEPT !.down = down, !.wire = wire].house = w.house
BY DEF Wire, Downs

LEMMA Seating ==
  ASSUME NEW w \in Wire, NEW h \in Houses, NEW up \in Seq(Ups)
  PROVE  /\ [w EXCEPT !.house = h, !.up = up] \in Wire
         /\ [w EXCEPT !.house = h, !.up = up].house = h
BY DEF Wire, Houses, Ups

LEMMA NewConnection ==
  ASSUME NEW w \in Wire, NEW alive \in BOOLEAN, NEW h \in Houses, NEW up \in Seq(Ups)
  PROVE  /\ [w EXCEPT !.alive = alive, !.house = h, !.up = up] \in Wire
         /\ [w EXCEPT !.alive = alive, !.house = h, !.up = up].house = h
BY DEF Wire, Houses, Ups, Downs

(* The same of one connection among them all.                              *)
LEMMA OneFieldOfMany ==
  ASSUME NEW f \in [Slots -> Wire], NEW c \in Slots
  PROVE  /\ \A alive \in BOOLEAN : [f EXCEPT ![c].alive = alive] \in [Slots -> Wire]
         /\ \A h \in Houses : [f EXCEPT ![c].house = h] \in [Slots -> Wire]
         /\ \A up \in Seq(Ups) : [f EXCEPT ![c].up = up] \in [Slots -> Wire]
         /\ \A down \in Seq(Downs) : [f EXCEPT ![c].down = down] \in [Slots -> Wire]
BY DEF Wire, Houses, Ups, Downs

LEMMA HouseOfMany ==
  ASSUME NEW f \in [Slots -> Wire], NEW c \in Slots, NEW d \in Slots
  PROVE  /\ \A alive : [f EXCEPT ![c].alive = alive][d].house = f[d].house
         /\ \A up : [f EXCEPT ![c].up = up][d].house = f[d].house
         /\ \A down : [f EXCEPT ![c].down = down][d].house = f[d].house
         /\ \A h : [f EXCEPT ![c].house = h][d].house
                    = IF c = d THEN h ELSE f[d].house
<1>1. f[c] \in Wire /\ f[d] \in Wire
  OBVIOUS
<1>2. \A alive : [f EXCEPT ![c].alive = alive][d].house = f[d].house
  BY <1>1 DEF Wire
<1>3. \A up : [f EXCEPT ![c].up = up][d].house = f[d].house
  BY <1>1 DEF Wire
<1>4. \A down : [f EXCEPT ![c].down = down][d].house = f[d].house
  BY <1>1 DEF Wire
<1>5. \A h : [f EXCEPT ![c].house = h][d].house
                    = IF c = d THEN h ELSE f[d].house
  BY <1>1 DEF Wire
<1> QED BY <1>2, <1>3, <1>4, <1>5

LEMMA RefusedOfMany ==
  ASSUME NEW f \in [Slots -> Wire], NEW c \in Slots, NEW h \in Houses
  PROVE  /\ [f EXCEPT ![c].alive = FALSE, ![c].house = h] \in [Slots -> Wire]
         /\ \A d \in Slots : [f EXCEPT ![c].alive = FALSE, ![c].house = h][d].house
                           = IF c = d THEN h ELSE f[d].house
<1>1. [f[c] EXCEPT !.alive = FALSE, !.house = h] \in Wire
  BY DEF Wire, Houses
<1>2. [f EXCEPT ![c].alive = FALSE, ![c].house = h]
        = [f EXCEPT ![c] = [f[c] EXCEPT !.alive = FALSE, !.house = h]]
  OBVIOUS
<1>3. \A d \in Slots : [f EXCEPT ![c].alive = FALSE, ![c].house = h][d].house
                     = IF c = d THEN h ELSE f[d].house
  BY DEF Wire
<1> QED BY <1>1, <1>2, <1>3

-----------------------------------------------------------------------------
(* What each end writes.                                                   *)

LEMMA WrittenIsTyped ==
  ASSUME TypeOK, NEW c \in Slots, NEW messages \in Seq(Ups)
  PROVE  /\ Written(c, messages) \in [Slots -> Wire]
         /\ \A d \in Slots : Written(c, messages)[d].house = wires[d].house
<1>1. wires \in [Slots -> Wire] /\ wires[c].up \in Seq(Ups)
  BY WireFields DEF TypeOK
<1>2. wires[c].up \o messages \in Seq(Ups)
  BY <1>1, UpSequences
<1>3. [wires EXCEPT ![c].up = wires[c].up \o messages] \in [Slots -> Wire]
  BY <1>1, <1>2, OneFieldOfMany
<1>4. \A d \in Slots :
        [wires EXCEPT ![c].up = wires[c].up \o messages][d].house = wires[d].house
  <2> SUFFICES ASSUME NEW d \in Slots
        PROVE [wires EXCEPT ![c].up = wires[c].up \o messages][d].house = wires[d].house
    OBVIOUS
  <2> QED BY <1>1, HouseOfMany
<1> QED BY <1>1, <1>3, <1>4 DEF Written

LEMMA MissedIsTyped ==
  ASSUME TypeOK, NEW resume \in Nat
  PROVE  Missed(resume) \in Seq(Ringable)
<1> DEFINE lost == IF Len(ring) > RingCap THEN Len(ring) - RingCap ELSE 0
<1>1. ring \in Seq(Ringable) /\ RingCap \in Nat /\ Len(ring) \in Nat
  BY SeatLinkAssumption DEF TypeOK, Ringable
<1>2. lost \in Nat
  BY <1>1
<1>3. Larger(resume, lost) + 1 \in Nat \ {0}
  BY <1>2 DEF Larger
<1>4. SubSeq(ring, Larger(resume, lost) + 1, Len(ring)) \in Seq(Ringable)
  BY <1>1, <1>3, RingSequences
<1>5. <<>> \in Seq(Ringable)
  OBVIOUS
<1> QED BY <1>4, <1>5 DEF Missed

LEMMA SentIsTyped ==
  ASSUME TypeOK, NEW c \in Slots, NEW messages \in Seq(Ringable)
  PROVE  /\ Sent(c, messages) \in Wire
         /\ Sent(c, messages).house = wires[c].house
<1>1. wires[c] \in Wire
  BY DEF TypeOK
<1>2. wires[c].wire \in Nat /\ wires[c].down \in Seq(Downs)
  BY <1>1, WireFields
<1>3. Len(messages) \in Nat
  OBVIOUS
<1>4. \A i \in 1 .. Len(messages) :
        <<wires[c].wire + i - 1, messages[i][1], messages[i][2]>> \in Downs
  BY <1>2, RingSequences DEF Ringable, Downs
<1>5. Numbered(c, messages) \in Seq(Downs)
  <2> HIDE DEF Downs
  <2>1. Numbered(c, messages) \in [1 .. Len(messages) -> Downs]
    BY <1>4 DEF Numbered
  <2> QED BY <2>1, <1>3, ListIsSequence
<1> DEFINE down == IF wires[c].alive THEN wires[c].down \o Numbered(c, messages)
                   ELSE wires[c].down
           wire == wires[c].wire + Len(messages)
<1>6. down \in Seq(Downs)
  BY <1>2, <1>5, DownSequences
<1>7. wire \in Nat
  BY <1>2, <1>3
<1>8. Sent(c, messages) = [wires[c] EXCEPT !.down = down, !.wire = wire]
  BY Zenon DEF Sent
<1> HIDE DEF down, wire
<1>9. /\ [wires[c] EXCEPT !.down = down, !.wire = wire] \in Wire
      /\ [wires[c] EXCEPT !.down = down, !.wire = wire].house = wires[c].house
  BY <1>1, <1>6, <1>7, MoreDown
<1> QED BY <1>8, <1>9, Zenon

-----------------------------------------------------------------------------
(* The type invariant, and with it where each step leaves `wires`: what    *)
(* the house has of each connection.                                       *)

LEMMA InitTyped == Init => TypeOK
<1> SUFFICES ASSUME Init PROVE TypeOK
  OBVIOUS
<1>1. Dead \in Wire
  BY DEF Dead, Wire
<1>2. wires \in [Slots -> Wire]
  BY <1>1 DEF Init
<1>3. outbox \in Seq(Ups) /\ ring \in Seq(Ringable)
  BY DEF Init
<1>4. sent \in [up : Nat, down : Nat] /\ heard \in [up : Seq(Nat), down : SUBSET Nat]
  BY DEF Init
<1>5. was \in Was
  BY DEF Init, Was
<1>6. open \subseteq Rooms /\ seated \in [Rooms -> Slots \cup {None}]
  BY DEF Init
<1> QED BY <1>2, <1>3, <1>4, <1>5, <1>6 DEF Init, TypeOK, Ups, Ringable

LEMMA ConnectsTyped ==
  ASSUME TypeOK, NEW c \in Slots, ClientConnects(c)
  PROVE  /\ TypeOK'
         /\ \A d \in Slots : wires'[d].house = IF c = d THEN "unread" ELSE wires[d].house
<1> DEFINE up == << <<"handshake", seen>> >>
           new == [Dead EXCEPT !.alive = TRUE, !.house = "unread", !.up = up]
<1>1. up \in Seq(Ups)
  BY DEF TypeOK, Ups
<1> HIDE DEF up
<1>2. new \in Wire /\ new.house = "unread"
  <2>1. Dead \in Wire
    BY DEF Dead, Wire
  <2>2. PICK alive \in BOOLEAN : alive = TRUE
    OBVIOUS
  <2>3. PICK h \in Houses : h = "unread"
    BY DEF Houses
  <2>4. /\ [Dead EXCEPT !.alive = alive, !.house = h, !.up = up] \in Wire
        /\ [Dead EXCEPT !.alive = alive, !.house = h, !.up = up].house = h
    BY <1>1, <2>1 DEF Wire, Houses, Ups, Downs
  <2> QED BY <2>2, <2>3, <2>4
<1>3. wires' = [wires EXCEPT ![c] = new]
  BY DEF ClientConnects, up
<1> HIDE DEF new
<1>4. wires' \in [Slots -> Wire]
  BY <1>2, <1>3 DEF TypeOK
<1>5. \A d \in Slots : wires'[d].house = IF c = d THEN "unread" ELSE wires[d].house
  BY <1>2, <1>3 DEF TypeOK
<1>6. TypeOK'
  BY <1>4 DEF ClientConnects, TypeOK, house
<1> QED BY <1>5, <1>6

LEMMA SendsTyped ==
  ASSUME TypeOK, ClientSends
  PROVE  /\ TypeOK'
         /\ \A d \in Slots : wires'[d].house = wires[d].house
<1> DEFINE message == <<"message", sent.up + 1>>
<1>1. sent.up \in Nat /\ sent' \in [up : Nat, down : Nat]
  <2>1. sent \in [up : Nat, down : Nat] /\ sent.up \in Nat
    BY DEF TypeOK
  <2>2. sent' = [sent EXCEPT !.up = sent.up + 1]
    BY DEF ClientSends
  <2> QED BY <2>1, <2>2
<1>2. message \in Ups /\ outbox \in Seq(Ups)
  BY <1>1 DEF Ups, TypeOK
<1>3. <<message>> \in Seq(Ups)
  BY <1>2
<1> HIDE DEF message
<1>4. CASE Holds
  <2>1. outbox' \in Seq(Ups)
    BY <1>2, <1>4, UpSequences DEF ClientSends, message
  <2> QED BY <1>1, <1>4, <2>1 DEF ClientSends, TypeOK, house, Ups
<1>5. CASE ~Holds
  <2>1. conn \in Slots
    BY <1>5 DEF Holds, TypeOK
  <2>2. wires' = Written(conn, <<message>>)
    BY <1>5, Zenon DEF ClientSends, message
  <2>3. /\ wires' \in [Slots -> Wire]
        /\ \A d \in Slots : wires'[d].house = wires[d].house
    BY <1>3, <2>1, <2>2, WrittenIsTyped
  <2> QED BY <1>1, <1>5, <2>3 DEF ClientSends, TypeOK, house
<1> QED BY <1>4, <1>5

LEMMA ReceivesTyped ==
  ASSUME TypeOK, ClientReceives
  PROVE  /\ TypeOK'
         /\ \A d \in Slots : wires'[d].house = wires[d].house
<1> DEFINE message == Head(wires[conn].down)
           ready == message[2] = "ready"
           flushed == IF ready THEN Written(conn, Held) ELSE wires
<1>1. conn \in Slots /\ wires[conn].down # <<>>
  BY DEF ClientReceives, TypeOK
<1>2. wires \in [Slots -> Wire] /\ wires[conn].down \in Seq(Downs)
  BY <1>1, WireFields DEF TypeOK
<1>3. message \in Downs
  BY <1>1, <1>2, DownSequences
<1>4. Held \in Seq(Ups)
  BY DEF Held, TypeOK, Ups
<1>5. flushed \in [Slots -> Wire] /\ \A d \in Slots : flushed[d].house = wires[d].house
  BY <1>1, <1>2, <1>4, WrittenIsTyped
<1>6. Tail(flushed[conn].down) \in Seq(Downs)
  <2>1. flushed[conn].down = wires[conn].down
    <3>1. CASE wires[conn].alive /\ ready
      <4>1. wires[conn] \in Wire
        BY <1>1, <1>2
      <4> QED BY <1>1, <1>2, <3>1, <4>1 DEF Written, Wire
    <3> QED BY <3>1 DEF Written
  <2> QED BY <2>1, <1>1, <1>2, DownSequences
<1>7. wires' = [flushed EXCEPT ![conn].down = Tail(flushed[conn].down)]
  BY DEF ClientReceives
<1>8. message[1] \in Nat /\ message[3] \in Nat
  BY <1>3 DEF Downs
<1>9. seen' \in Nat
  <2>1. seen' = Larger(seen, message[1] + 1)
    BY DEF ClientReceives
  <2> HIDE DEF message
  <2> QED BY <1>8, <2>1 DEF Larger, TypeOK
<1>10. heard' \in [up : Seq(Nat), down : SUBSET Nat]
  <2>1. heard.down \cup {message[3]} \in SUBSET Nat
    BY <1>8 DEF TypeOK
  <2>2. heard' = heard \/ heard' = [heard EXCEPT !.down = heard.down \cup {message[3]}]
    BY DEF ClientReceives
  <2> HIDE DEF message
  <2> QED BY <2>1, <2>2 DEF TypeOK
<1>11. outbox' \in Seq({"handshake", "message"} \X Nat)
       /\ holding' \in BOOLEAN /\ started' \in BOOLEAN
  BY DEF ClientReceives, TypeOK
<1> HIDE DEF flushed
<1>12. wires' \in [Slots -> Wire]
  BY <1>1, <1>5, <1>6, <1>7, OneFieldOfMany
<1>13. \A d \in Slots : wires'[d].house = wires[d].house
  <2> SUFFICES ASSUME NEW d \in Slots PROVE wires'[d].house = wires[d].house
    OBVIOUS
  <2> QED BY <1>1, <1>5, <1>7, HouseOfMany
<1>14. UNCHANGED <<conn, registered, open, seated, ring, was, sent, breaks, restarts>>
  BY DEF ClientReceives, house
<1>15. TypeOK'
  BY <1>9, <1>10, <1>11, <1>12, <1>14 DEF TypeOK
<1> QED BY <1>13, <1>15

LEMMA SeesCloseTyped ==
  ASSUME TypeOK, ClientSeesClose
  PROVE  TypeOK'
BY DEF TypeOK, ClientSeesClose, house

LEMMA RefusesTyped ==
  ASSUME TypeOK, NEW c \in Slots, HouseRefuses(c) \/ HouseDrops(c)
  PROVE  /\ TypeOK'
         /\ \A d \in Slots : wires'[d].house = IF c = d THEN "left" ELSE wires[d].house
<1>1. wires \in [Slots -> Wire] /\ "left" \in Houses
  BY DEF TypeOK, Houses
<1>2. CASE HouseRefuses(c)
  <2>1. wires' = [wires EXCEPT ![c].alive = FALSE, ![c].house = "left"]
    BY <1>2 DEF HouseRefuses
  <2>2. /\ wires' \in [Slots -> Wire]
        /\ \A d \in Slots : wires'[d].house = IF c = d THEN "left" ELSE wires[d].house
    BY <1>1, <2>1, RefusedOfMany
  <2>3. UNCHANGED <<client, house, sent, heard, breaks, restarts>>
    BY <1>2 DEF HouseRefuses
  <2> QED BY <2>2, <2>3 DEF TypeOK, client, house
<1>3. CASE HouseDrops(c)
  <2>1. wires' = [wires EXCEPT ![c].house = "left"]
    BY <1>3 DEF HouseDrops
  <2>2. wires' \in [Slots -> Wire]
    BY <1>1, <2>1, OneFieldOfMany
  <2>3. \A d \in Slots : wires'[d].house = IF c = d THEN "left" ELSE wires[d].house
    BY <1>1, <2>1, HouseOfMany
  <2> QED BY <1>3, <2>2, <2>3 DEF HouseDrops, TypeOK, client, house
<1> QED BY <1>2, <1>3

LEMMA SeatsTyped ==
  ASSUME TypeOK, NEW c \in Slots, HouseSeats(c)
  PROVE  /\ TypeOK'
         /\ \A d \in Slots : wires'[d].house = IF c = d THEN "seated" ELSE wires[d].house
<1> DEFINE resume == Head(wires[c].up)[2]
           told == Append(Missed(resume), <<"ready", 0>>)
           up == Tail(wires[c].up)
           new == [Sent(c, told) EXCEPT !.house = "seated", !.up = up]
<1>1. wires \in [Slots -> Wire] /\ wires[c].up \in Seq(Ups)
  BY WireFields DEF TypeOK
<1>2. Head(wires[c].up) \in Ups /\ up \in Seq(Ups)
  BY <1>1, UpSequences DEF HouseSeats, Handshakes
<1>3. resume \in Nat
  BY <1>2 DEF Ups
<1>4. <<"ready", 0>> \in Ringable
  BY DEF Ringable
<1>5. told \in Seq(Ringable)
  <2> HIDE DEF resume
  <2> QED BY <1>3, <1>4, MissedIsTyped, RingSequences
<1>6. Sent(c, told).up = wires[c].up
  BY <1>1 DEF Sent, Wire
<1>7. wires' = [wires EXCEPT ![c] = new]
  BY <1>6, Zenon DEF HouseSeats
<1>8. new \in Wire /\ new.house = "seated"
  <2> HIDE DEF told, up
  <2>1. Sent(c, told) \in Wire
    BY <1>5, SentIsTyped
  <2> QED BY <1>2, <2>1, Seating DEF Houses
<1>9. was' \in Was
  <2>1. PICK a, b \in BOOLEAN : was' = [was EXCEPT !.unresumed = a, !.twice = b]
    <3>1. was' = [was EXCEPT !.unresumed = (was.unresumed \/ (resume = 0 /\ ring # <<>>)),
                             !.twice = (was.twice \/ SeatedNow # {})]
      BY Zenon DEF HouseSeats
    <3>2. /\ (was.unresumed \/ (resume = 0 /\ ring # <<>>)) \in BOOLEAN
          /\ (was.twice \/ SeatedNow # {}) \in BOOLEAN
      OBVIOUS
    <3> QED BY <3>1, <3>2, Zenon
  <2> QED BY <2>1 DEF Was, TypeOK
<1>10. ring' \in Seq(Ringable)
  BY <1>4, RingSequences DEF HouseSeats, TypeOK, Ringable
<1>11. seated' \in [Rooms -> Slots \cup {None}] /\ registered' = c
  BY DEF HouseSeats
<1>12. UNCHANGED <<conn, holding, started, outbox, seen, open, sent, heard, breaks, restarts>>
  BY DEF HouseSeats, client
<1> HIDE DEF new
<1>13. wires' \in [Slots -> Wire]
  BY <1>1, <1>7, <1>8
<1>14. \A d \in Slots : wires'[d].house = IF c = d THEN "seated" ELSE wires[d].house
  BY <1>1, <1>7, <1>8
<1>15. TypeOK'
  BY <1>9, <1>10, <1>11, <1>12, <1>13 DEF TypeOK, Ringable
<1> QED BY <1>14, <1>15

LEMMA HouseReceivesTyped ==
  ASSUME TypeOK, NEW c \in Slots, HouseReceives(c)
  PROVE  /\ TypeOK'
         /\ \A d \in Slots : wires'[d].house = wires[d].house
<1> DEFINE up == Tail(wires[c].up)
           n == Head(wires[c].up)[2]
<1>1. wires \in [Slots -> Wire] /\ wires[c].up \in Seq(Ups)
  BY WireFields DEF TypeOK
<1>2. up \in Seq(Ups) /\ n \in Nat
  <2>1. Head(wires[c].up) \in Ups /\ up \in Seq(Ups)
    BY <1>1, UpSequences DEF HouseReceives
  <2> QED BY <2>1 DEF Ups
<1>3. wires' = [wires EXCEPT ![c].up = up]
  BY DEF HouseReceives
<1>4. heard' \in [up : Seq(Nat), down : SUBSET Nat]
  <2>1. heard' = [heard EXCEPT !.up = Append(heard.up, n)]
    BY DEF HouseReceives
  <2> HIDE DEF n
  <2>2. Append(heard.up, n) \in Seq(Nat)
    BY <1>2 DEF TypeOK
  <2> QED BY <2>1, <2>2 DEF TypeOK
<1> HIDE DEF up, n
<1>5. wires' \in [Slots -> Wire]
  BY <1>1, <1>2, <1>3, OneFieldOfMany
<1>6. \A d \in Slots : wires'[d].house = wires[d].house
  BY <1>1, <1>3, HouseOfMany
<1>7. TypeOK'
  BY <1>4, <1>5 DEF HouseReceives, TypeOK, client, house
<1> QED BY <1>6, <1>7

LEMMA RingedTyped ==
  ASSUME TypeOK, NEW r \in Rooms
  PROVE  /\ << <<"message", sent.down + 1>> >> \in Seq(Ringable)
         /\ Ringed(r, <<"message", sent.down + 1>>) \in Seq(Ringable)
         /\ [sent EXCEPT !.down = sent.down + 1] \in [up : Nat, down : Nat]
<1> DEFINE message == <<"message", sent.down + 1>>
<1>1. sent \in [up : Nat, down : Nat] /\ sent.down \in Nat
  BY DEF TypeOK
<1>2. message \in Ringable /\ ring \in Seq(Ringable)
  BY <1>1 DEF Ringable, TypeOK
<1> HIDE DEF message
<1>3. <<message>> \in Seq(Ringable) /\ Ringed(r, message) \in Seq(Ringable)
  BY <1>2, RingSequences DEF Ringed
<1>4. [sent EXCEPT !.down = sent.down + 1] \in [up : Nat, down : Nat]
  BY <1>1
<1> QED BY <1>3, <1>4 DEF message

LEMMA HouseSendsTyped ==
  ASSUME TypeOK, NEW r \in Rooms, HouseSends(r)
  PROVE  /\ TypeOK'
         /\ \A d \in Slots : wires'[d].house = wires[d].house
<1> DEFINE messages == << <<"message", sent.down + 1>> >>
           new == Sent(seated[r], messages)
<1>1. wires \in [Slots -> Wire] /\ seated[r] \in Slots
  BY DEF HouseSends, TypeOK
<1>2. messages \in Seq(Ringable)
  BY RingedTyped
<1>3. wires' = [wires EXCEPT ![seated[r]] = new]
  BY DEF HouseSends
<1> HIDE DEF messages
<1>4. new \in Wire /\ new.house = wires[seated[r]].house
  BY <1>1, <1>2, SentIsTyped
<1> HIDE DEF new
<1>5. wires' \in [Slots -> Wire] /\ \A d \in Slots : wires'[d].house = wires[d].house
  BY <1>1, <1>3, <1>4
<1>6. sent' \in [up : Nat, down : Nat] /\ ring' \in Seq(Ringable)
  BY RingedTyped DEF HouseSends
<1>7. TypeOK'
  BY <1>5, <1>6 DEF HouseSends, TypeOK, client, Ringable
<1> QED BY <1>5, <1>7

LEMMA HouseSendsLateTyped ==
  ASSUME TypeOK, NEW r \in Rooms, HouseSendsLate(r)
  PROVE  TypeOK'
<1>1. sent' \in [up : Nat, down : Nat] /\ ring' \in Seq(Ringable)
  BY RingedTyped DEF HouseSendsLate
<1>2. was' \in Was
  BY DEF HouseSendsLate, Was, TypeOK
<1> QED BY <1>1, <1>2 DEF HouseSendsLate, TypeOK, client, Ringable

LEMMA HouseSeesCloseTyped ==
  ASSUME TypeOK, NEW c \in Slots, HouseSeesClose(c)
  PROVE  TypeOK'
<1>1. wires' \in [Slots -> Wire]
  BY OneFieldOfMany DEF HouseSeesClose, TypeOK, Houses
<1> QED BY <1>1 DEF HouseSeesClose, WithoutSeat, TypeOK, client

LEMMA OpenRoomTyped ==
  ASSUME TypeOK, NEW r \in Rooms, OpenRoom(r)
  PROVE  TypeOK'
BY DEF OpenRoom, TypeOK, client

LEMMA BreakTyped ==
  ASSUME TypeOK, NEW c \in Slots, Break(c)
  PROVE  /\ TypeOK'
         /\ \A d \in Slots : wires'[d].house = wires[d].house
<1>1. wires \in [Slots -> Wire] /\ wires' = [wires EXCEPT ![c].alive = FALSE]
  BY DEF Break, TypeOK
<1>2. wires' \in [Slots -> Wire]
  BY <1>1, OneFieldOfMany
<1>3. \A d \in Slots : wires'[d].house = wires[d].house
  BY <1>1, HouseOfMany
<1>4. TypeOK'
  BY <1>2 DEF Break, TypeOK, client, house
<1> QED BY <1>3, <1>4

LEMMA RestartsTyped ==
  ASSUME TypeOK, HouseRestarts
  PROVE  TypeOK'
<1>1. \A c \in Slots :
        [wires[c] EXCEPT !.alive = FALSE, !.house = "left", !.up = <<>>] \in Wire
  <2> SUFFICES ASSUME NEW c \in Slots
        PROVE [wires[c] EXCEPT !.alive = FALSE, !.house = "left", !.up = <<>>] \in Wire
    OBVIOUS
  <2>1. wires[c] \in Wire /\ <<>> \in Seq(Ups)
    BY DEF TypeOK
  <2> QED BY <2>1, NewConnection DEF Houses
<1>2. wires' \in [Slots -> Wire]
  BY <1>1 DEF HouseRestarts
<1>3. /\ registered' = None /\ open' = {} /\ seated' = [r \in Rooms |-> None]
      /\ ring' = <<>> /\ restarts' = restarts + 1
      /\ UNCHANGED <<client, was, sent, heard, breaks>>
  BY Zenon DEF HouseRestarts
<1>4. ring' \in Seq(Ringable)
  BY <1>3
<1> QED BY <1>2, <1>3, <1>4 DEF TypeOK, client, Ringable

LEMMA NextTyped ==
  ASSUME TypeOK, [Next]_vars
  PROVE  TypeOK'
<1>1. ASSUME ClientSends \/ ClientReceives \/ ClientSeesClose \/ HouseRestarts PROVE TypeOK'
  BY <1>1, SendsTyped, ReceivesTyped, SeesCloseTyped, RestartsTyped
<1>2. ASSUME NEW c \in Slots, ClientConnects(c) \/ HouseSide(c) \/ Break(c) PROVE TypeOK'
  BY <1>2, ConnectsTyped, RefusesTyped, SeatsTyped, HouseReceivesTyped,
     HouseSeesCloseTyped, BreakTyped DEF HouseSide
<1>3. ASSUME NEW r \in Rooms, HouseSends(r) \/ HouseSendsLate(r) \/ OpenRoom(r) PROVE TypeOK'
  BY <1>3, HouseSendsTyped, HouseSendsLateTyped, OpenRoomTyped
<1>4. CASE UNCHANGED vars
  BY <1>4 DEF vars, client, house, TypeOK
<1> QED BY <1>1, <1>2, <1>3, <1>4 DEF Next

(* Every reachable state is well-typed.                                    *)
THEOREM TypeCorrect == Spec => []TypeOK
<1>1. Init => TypeOK
  BY InitTyped
<1>2. TypeOK /\ [Next]_vars => TypeOK'
  BY NextTyped
<1> QED BY <1>1, <1>2, PTL DEF Spec

-----------------------------------------------------------------------------
(* The house's tables.  A step either leaves them and what the house has   *)
(* of the registered connection alone, or writes all of them.              *)

LEMMA TablesStay ==
  ASSUME TypeOK, SeatsAgree, UNCHANGED <<registered, open, seated>>,
         registered # None => wires'[registered].house = "seated"
  PROVE  SeatsAgree'
BY DEF SeatsAgree

LEMMA NextAgrees ==
  ASSUME TypeOK, SeatsAgree, [Next]_vars
  PROVE  SeatsAgree'
<1>1. registered # None => registered \in Slots /\ wires[registered].house = "seated"
  BY DEF TypeOK, SeatsAgree
<1>2. CASE ClientSends
  BY <1>1, <1>2, SendsTyped, TablesStay DEF ClientSends, house
<1>3. CASE ClientReceives
  BY <1>1, <1>3, ReceivesTyped, TablesStay DEF ClientReceives, house
<1>4. CASE ClientSeesClose
  BY <1>1, <1>4, TablesStay DEF ClientSeesClose, house
<1>5. ASSUME NEW c \in Slots, ClientConnects(c) PROVE SeatsAgree'
  BY <1>1, <1>5, ConnectsTyped, TablesStay DEF ClientConnects, house
<1>6. ASSUME NEW c \in Slots, HouseRefuses(c) \/ HouseDrops(c) PROVE SeatsAgree'
  BY <1>1, <1>6, RefusesTyped, TablesStay DEF HouseRefuses, HouseDrops, Handshakes, house
<1>7. ASSUME NEW c \in Slots, HouseSeats(c) PROVE SeatsAgree'
  <2>1. wires'[c].house = "seated"
    BY <1>7, SeatsTyped
  <2>2. registered' = c /\ seated' = [r \in Rooms |-> IF r \in open THEN c ELSE None] /\ open' = open
    BY <1>7 DEF HouseSeats
  <2> QED BY <2>1, <2>2 DEF SeatsAgree
<1>8. ASSUME NEW c \in Slots, HouseReceives(c) PROVE SeatsAgree'
  BY <1>1, <1>8, HouseReceivesTyped, TablesStay DEF HouseReceives, house
<1>9. ASSUME NEW c \in Slots, HouseSeesClose(c) PROVE SeatsAgree'
  BY <1>9 DEF HouseSeesClose, WithoutSeat, SeatsAgree
<1>10. ASSUME NEW c \in Slots, Break(c) PROVE SeatsAgree'
  BY <1>1, <1>10, BreakTyped, TablesStay DEF Break, house
<1>11. ASSUME NEW r \in Rooms, HouseSends(r) PROVE SeatsAgree'
  BY <1>1, <1>11, HouseSendsTyped, TablesStay DEF HouseSends
<1>12. ASSUME NEW r \in Rooms, HouseSendsLate(r) PROVE SeatsAgree'
  BY <1>1, <1>12, TablesStay DEF HouseSendsLate
<1>13. ASSUME NEW r \in Rooms, OpenRoom(r) PROVE SeatsAgree'
  BY <1>13 DEF OpenRoom, SeatsAgree, TypeOK
<1>14. CASE HouseRestarts
  <2>1. registered' = None /\ open' = {} /\ seated' = [r \in Rooms |-> None]
    BY <1>14 DEF HouseRestarts
  <2> QED BY <2>1 DEF SeatsAgree
<1>15. CASE UNCHANGED vars
  BY <1>15 DEF vars, client, house, SeatsAgree
<1> QED BY <1>2, <1>3, <1>4, <1>5, <1>6, <1>7, <1>8, <1>9, <1>10, <1>11, <1>12,
           <1>13, <1>14, <1>15 DEF Next, HouseSide

(* The house's two tables of seats agree, however many connections come    *)
(* and go and whenever their ends are seen: onSeat, onExit and             *)
(* attachRegisteredSeat never leave a room with a seat that is not the     *)
(* registered one, nor a registration of a connection already left.        *)
THEOREM TablesAgree == Spec => []SeatsAgree
<1>1. Init => SeatsAgree
  BY DEF Init, SeatsAgree
<1>2. TypeOK /\ SeatsAgree /\ [Next]_vars => SeatsAgree'
  BY NextAgrees
<1> QED BY <1>1, <1>2, TypeCorrect, PTL DEF Spec

-----------------------------------------------------------------------------

(* The order of what the being sends.  UpInOrder is not inductive alone:   *)
(* what the house was given is older than what is on its way to it, and    *)
(* that is older than what the client holds.                               *)

InOrder(s) == \A i, j \in 1 .. Len(s) : i < j => s[i][2] < s[j][2]
OnlyMessages(s) == \A i \in 1 .. Len(s) : s[i][1] = "message"
UpTo(s, n) == \A i \in 1 .. Len(s) : s[i][1] = "message" => s[i][2] <= n
Before(s, t) == \A i \in 1 .. Len(s), j \in 1 .. Len(t) :
                  s[i][1] = "message" => s[i][2] < t[j][2]
Older(h, s) == \A i \in 1 .. Len(h), j \in 1 .. Len(s) : h[i] < s[j][2]

(* A connection whose handshake is unread carries nothing else yet, either *)
(* way; and a client that does not hold is on none, and has nothing held.  *)
HandshakeFirst ==
  \A c \in Slots : wires[c].house = "unread" =>
    /\ wires[c].down = <<>>
    /\ Len(wires[c].up) = 1 /\ wires[c].up[1][1] = "handshake"

HoldsUntilRead ==
  /\ conn # None /\ started /\ ~holding => wires[conn].house # "unread"
  /\ conn = None /\ started => holding
  /\ ~holding => outbox = <<>>

(* What is numbered was sent.                                              *)
Issued ==
  /\ \A i \in 1 .. Len(heard.up) : heard.up[i] <= sent.up
  /\ \A c \in Slots : UpTo(wires[c].up, sent.up)
  /\ UpTo(outbox, sent.up)

HeldInOrder ==
  /\ OnlyMessages(outbox) /\ InOrder(outbox)
  /\ Older(heard.up, outbox)
  /\ \A c \in Slots : Before(wires[c].up, outbox)

SeatedInOrder ==
  \A c \in Slots : wires[c].house = "seated" =>
    /\ OnlyMessages(wires[c].up) /\ InOrder(wires[c].up)
    /\ ~was.twice => Older(heard.up, wires[c].up)

OneSeated ==
  ~was.twice => \A c, d \in Slots :
    wires[c].house = "seated" /\ wires[d].house = "seated" => c = d

HeardInOrder ==
  ~was.twice => \A i, j \in 1 .. Len(heard.up) : i < j => heard.up[i] < heard.up[j]

Order ==
  /\ HandshakeFirst /\ HoldsUntilRead /\ Issued
  /\ HeldInOrder /\ SeatedInOrder /\ OneSeated /\ HeardInOrder

LEMMA UpElements ==
  ASSUME NEW s \in Seq(Ups), NEW i \in 1 .. Len(s)
  PROVE  s[i] \in Ups /\ s[i][2] \in Nat
<1>1. s[i] \in Ups
  <2> HIDE DEF Ups
  <2> QED OBVIOUS
<1> QED BY <1>1 DEF Ups

LEMMA AppendInOrder ==
  ASSUME NEW s \in Seq(Ups), NEW n \in Nat, InOrder(s),
         \A i \in 1 .. Len(s) : s[i][2] < n
  PROVE  InOrder(Append(s, <<"message", n>>))
<1> DEFINE t == Append(s, <<"message", n>>)
<1>1. /\ Len(t) = Len(s) + 1 /\ t[Len(s) + 1] = <<"message", n>>
      /\ \A i \in 1 .. Len(s) : t[i] = s[i]
  <2> HIDE DEF Ups
  <2> QED OBVIOUS
<1>2. Len(s) \in Nat
  OBVIOUS
<1> HIDE DEF t
<1> QED BY <1>1, <1>2 DEF InOrder, t

LEMMA ConcatInOrder ==
  ASSUME NEW s \in Seq(Ups), NEW t \in Seq(Ups), InOrder(s), InOrder(t),
         OnlyMessages(s), Before(s, t)
  PROVE  InOrder(s \o t)
<1>1. /\ Len(s \o t) = Len(s) + Len(t) /\ Len(s) \in Nat /\ Len(t) \in Nat
      /\ \A i \in 1 .. Len(s) + Len(t) :
           (s \o t)[i] = IF i <= Len(s) THEN s[i] ELSE t[i - Len(s)]
  <2> HIDE DEF Ups
  <2> QED OBVIOUS
<1> DEFINE u == s \o t
<1> SUFFICES ASSUME NEW i \in 1 .. Len(u), NEW j \in 1 .. Len(u), i < j
      PROVE u[i][2] < u[j][2]
  BY DEF InOrder
<1> HIDE DEF u
<1>2. CASE j <= Len(s)
  BY <1>1, <1>2 DEF u, InOrder
<1>3. CASE i <= Len(s) /\ j > Len(s)
  <2>1. j - Len(s) \in 1 .. Len(t) /\ i \in 1 .. Len(s)
    BY <1>1, <1>3 DEF u
  <2> QED BY <1>1, <1>3, <2>1 DEF u, Before, OnlyMessages
<1>4. CASE i > Len(s)
  <2>1. j - Len(s) \in 1 .. Len(t) /\ i - Len(s) \in 1 .. Len(t) /\ i - Len(s) < j - Len(s)
    BY <1>1, <1>4 DEF u
  <2> QED BY <1>1, <1>4, <2>1 DEF u, InOrder
<1> QED BY <1>1, <1>2, <1>3, <1>4 DEF u

LEMMA TailElements ==
  ASSUME NEW s \in Seq(Ups), s # <<>>
  PROVE  /\ Head(s) = s[1] /\ Len(s) \in Nat \ {0} /\ Len(Tail(s)) = Len(s) - 1
         /\ \A i \in 1 .. Len(Tail(s)) : i + 1 \in 1 .. Len(s) /\ Tail(s)[i] = s[i + 1]
<1> HIDE DEF Ups
<1> QED OBVIOUS

(* Whatever sequence carries messages, all of them sent, can carry one     *)
(* more that is sent now.                                                  *)
LEMMA AppendCarries ==
  ASSUME NEW s \in Seq(Ups), NEW n \in Nat, UpTo(s, n)
  PROVE  /\ UpTo(s, n + 1)
         /\ UpTo(Append(s, <<"message", n + 1>>), n + 1)
         /\ OnlyMessages(s) => OnlyMessages(Append(s, <<"message", n + 1>>))
         /\ OnlyMessages(s) /\ InOrder(s) => InOrder(Append(s, <<"message", n + 1>>))
<1> DEFINE t == Append(s, <<"message", n + 1>>)
<1>1. /\ Len(t) = Len(s) + 1 /\ t[Len(s) + 1] = <<"message", n + 1>> /\ Len(s) \in Nat
      /\ \A i \in 1 .. Len(s) : t[i] = s[i]
  <2> HIDE DEF Ups
  <2> QED OBVIOUS
<1>2. UpTo(s, n + 1)
  BY UpElements DEF UpTo
<1>3. OnlyMessages(s) /\ InOrder(s) => InOrder(Append(s, <<"message", n + 1>>))
  <2> SUFFICES ASSUME OnlyMessages(s), InOrder(s)
        PROVE InOrder(Append(s, <<"message", n + 1>>))
    OBVIOUS
  <2>1. \A i \in 1 .. Len(s) : s[i][2] < n + 1
    BY UpElements DEF UpTo, OnlyMessages
  <2>2. n + 1 \in Nat
    OBVIOUS
  <2> QED BY <2>1, <2>2, AppendInOrder
<1> HIDE DEF t
<1>4. UpTo(t, n + 1)
  BY <1>1, <1>2 DEF UpTo
<1>5. OnlyMessages(s) => OnlyMessages(t)
  BY <1>1 DEF OnlyMessages
<1> QED BY <1>2, <1>3, <1>4, <1>5 DEF t

-----------------------------------------------------------------------------
(* What a change of one field leaves of the messages in flight.            *)
LEMMA MessagesOfMany ==
  ASSUME NEW f \in [Slots -> Wire], NEW c \in Slots, NEW d \in Slots
  PROVE  /\ \A alive : /\ [f EXCEPT ![c].alive = alive][d].up = f[d].up
                       /\ [f EXCEPT ![c].alive = alive][d].down = f[d].down
         /\ \A h : /\ [f EXCEPT ![c].house = h][d].up = f[d].up
                   /\ [f EXCEPT ![c].house = h][d].down = f[d].down
         /\ \A up : /\ [f EXCEPT ![c].up = up][d].up = IF c = d THEN up ELSE f[d].up
                    /\ [f EXCEPT ![c].up = up][d].down = f[d].down
         /\ \A down : [f EXCEPT ![c].down = down][d].up = f[d].up
<1>1. f[c] \in Wire /\ f[d] \in Wire
  OBVIOUS
<1>2. \A alive : /\ [f EXCEPT ![c].alive = alive][d].up = f[d].up
                 /\ [f EXCEPT ![c].alive = alive][d].down = f[d].down
  BY <1>1 DEF Wire
<1>3. \A h : /\ [f EXCEPT ![c].house = h][d].up = f[d].up
             /\ [f EXCEPT ![c].house = h][d].down = f[d].down
  BY <1>1 DEF Wire
<1>4. \A up : /\ [f EXCEPT ![c].up = up][d].up = IF c = d THEN up ELSE f[d].up
              /\ [f EXCEPT ![c].up = up][d].down = f[d].down
  BY <1>1 DEF Wire
<1>5. \A down : [f EXCEPT ![c].down = down][d].up = f[d].up
  BY <1>1 DEF Wire
<1> QED BY <1>2, <1>3, <1>4, <1>5

(* A connection is left as it is, or done with at the house; its messages  *)
(* down may change once its handshake has been read.                       *)
Stays(c) ==
  \/ /\ wires'[c].up = wires[c].up
     /\ wires'[c].house \in {wires[c].house, "left"}
     /\ wires'[c].house = "unread" => wires'[c].down = wires[c].down
  \/ wires'[c].up = <<>> /\ wires'[c].house = "left"

LEMMA OrderStays ==
  ASSUME TypeOK, Order, outbox' = outbox, heard'.up = heard.up, sent'.up = sent.up,
         was.twice => was'.twice, started' = started,
         (conn' = conn /\ holding' = holding) \/ holding' = TRUE,
         \A c \in Slots : Stays(c)
  PROVE  Order'
<1> USE DEF Order
<1>1. HandshakeFirst'
  BY DEF HandshakeFirst, Stays
<1>2. HoldsUntilRead'
  BY DEF HoldsUntilRead, Stays, TypeOK
<1>3. Issued'
  BY DEF Issued, UpTo, Stays
<1>4. HeldInOrder'
  BY DEF HeldInOrder, Before, Stays, OnlyMessages, InOrder, Older
<1>5. SeatedInOrder'
  BY DEF SeatedInOrder, Stays, OnlyMessages, InOrder, Older
<1>6. OneSeated'
  BY DEF OneSeated, Stays
<1>7. HeardInOrder'
  BY DEF HeardInOrder
<1> QED BY <1>1, <1>2, <1>3, <1>4, <1>5, <1>6, <1>7

LEMMA OrderInit == Init => Order
<1> SUFFICES ASSUME Init PROVE Order
  OBVIOUS
<1>1. \A c \in Slots : wires[c].house = "left" /\ wires[c].up = <<>>
  BY DEF Init, Dead
<1>2. heard.up = <<>> /\ outbox = <<>> /\ conn = None
  BY DEF Init
<1>3. HandshakeFirst /\ SeatedInOrder /\ OneSeated
  BY <1>1 DEF HandshakeFirst, SeatedInOrder, OneSeated
<1>4. HoldsUntilRead
  BY DEF Init, HoldsUntilRead
<1>5. Issued
  BY <1>1, <1>2 DEF Issued, UpTo
<1>6. HeldInOrder /\ HeardInOrder
  BY <1>2 DEF HeldInOrder, OnlyMessages, InOrder, Older, Before, HeardInOrder
<1> QED BY <1>3, <1>4, <1>5, <1>6 DEF Order

LEMMA CloseKeepsOrder ==
  ASSUME TypeOK, Order, ClientSeesClose
  PROVE  Order'
<1>1. \A c \in Slots : Stays(c)
  BY DEF ClientSeesClose, Stays
<1> QED BY <1>1, OrderStays DEF ClientSeesClose, house

LEMMA LeavingKeepsOrder ==
  ASSUME TypeOK, Order, NEW c \in Slots,
         HouseRefuses(c) \/ HouseDrops(c) \/ HouseSeesClose(c) \/ Break(c)
  PROVE  Order'
<1>1. wires \in [Slots -> Wire]
  BY DEF TypeOK
<1>2. \A d \in Slots : Stays(d)
  <2> SUFFICES ASSUME NEW d \in Slots PROVE Stays(d)
    OBVIOUS
  <2>1. CASE HouseRefuses(c)
    <3>1. wires' = [wires EXCEPT ![c].alive = FALSE, ![c].house = "left"]
      BY <2>1 DEF HouseRefuses
    <3>2. wires[c] \in Wire /\ wires[d] \in Wire
      BY <1>1
    <3>3. wires'[d].up = wires[d].up /\ wires'[d].down = wires[d].down
      BY <1>1, <3>1, <3>2 DEF Wire
    <3>4. wires'[d].house \in {wires[d].house, "left"}
      BY <2>1, RefusesTyped
    <3> QED BY <3>3, <3>4 DEF Stays
  <2>2. CASE HouseDrops(c) \/ HouseSeesClose(c)
    <3>1. wires' = [wires EXCEPT ![c].house = "left"]
      BY <2>2 DEF HouseDrops, HouseSeesClose
    <3> QED BY <1>1, <3>1, MessagesOfMany, HouseOfMany DEF Stays
  <2>3. CASE Break(c)
    <3>1. wires' = [wires EXCEPT ![c].alive = FALSE]
      BY <2>3 DEF Break
    <3> QED BY <1>1, <3>1, MessagesOfMany, HouseOfMany DEF Stays
  <2> QED BY <2>1, <2>2, <2>3
<1> QED BY <1>2, OrderStays DEF HouseRefuses, HouseDrops, HouseSeesClose, Break, client, house

LEMMA DownKeepsOrder ==
  ASSUME TypeOK, SeatsAgree, Order, NEW r \in Rooms, HouseSends(r) \/ HouseSendsLate(r) \/ OpenRoom(r)
  PROVE  Order'
<1>1. sent'.up = sent.up
  BY DEF HouseSends, HouseSendsLate, OpenRoom, TypeOK
<1>2. was.twice => was'.twice
  BY DEF HouseSends, HouseSendsLate, OpenRoom, TypeOK, Was
<1>3. CASE HouseSends(r)
  <2> DEFINE new == Sent(seated[r], << <<"message", sent.down + 1>> >>)
  <2>1. wires \in [Slots -> Wire] /\ seated[r] \in Slots
    BY <1>3 DEF HouseSends, TypeOK
  <2>2. wires' = [wires EXCEPT ![seated[r]] = new]
    BY <1>3 DEF HouseSends
  <2>3. new.up = wires[seated[r]].up /\ new.house = wires[seated[r]].house
    BY <2>1 DEF Sent, Wire
  <2>4. wires[seated[r]].house = "seated"
    BY <1>3 DEF SeatsAgree, HouseSends
  <2> HIDE DEF new
  <2>5. \A c \in Slots : Stays(c)
    BY <2>1, <2>2, <2>3, <2>4 DEF Stays
  <2> QED BY <1>1, <1>2, <1>3, <2>5, OrderStays DEF HouseSends, client
<1>4. CASE HouseSendsLate(r) \/ OpenRoom(r)
  <2>1. \A c \in Slots : Stays(c)
    BY <1>4 DEF HouseSendsLate, OpenRoom, Stays
  <2> QED BY <1>1, <1>2, <1>4, <2>1, OrderStays DEF HouseSendsLate, OpenRoom, client
<1> QED BY <1>3, <1>4

LEMMA RestartKeepsOrder ==
  ASSUME TypeOK, Order, HouseRestarts
  PROVE  Order'
<1>1. wires' = [c \in Slots |-> [wires[c] EXCEPT !.alive = FALSE, !.house = "left", !.up = <<>>]]
  BY DEF HouseRestarts
<1>2. \A c \in Slots : Stays(c)
  <2> SUFFICES ASSUME NEW c \in Slots PROVE Stays(c)
    OBVIOUS
  <2>1. wires[c] \in Wire
    BY DEF TypeOK
  <2>2. wires'[c].up = <<>> /\ wires'[c].house = "left"
    BY <1>1, <2>1 DEF Wire
  <2> QED BY <2>2 DEF Stays
<1>3. UNCHANGED <<client, was, sent, heard>>
  BY Zenon DEF HouseRestarts
<1> QED BY <1>2, <1>3, OrderStays DEF client

LEMMA ConnectKeepsOrder ==
  ASSUME TypeOK, Order, NEW c \in Slots, ClientConnects(c)
  PROVE  Order'
<1> DEFINE new == [Dead EXCEPT !.alive = TRUE, !.house = "unread",
                              !.up = << <<"handshake", seen>> >>]
<1>1. wires \in [Slots -> Wire] /\ wires' = [wires EXCEPT ![c] = new]
  BY DEF ClientConnects, TypeOK
<1>2. /\ new.house = "unread" /\ new.down = <<>> /\ Len(new.up) = 1
      /\ new.up[1] = <<"handshake", seen>>
  BY DEF Dead
<1> HIDE DEF new
<1>3. /\ wires'[c].house = "unread" /\ wires'[c].down = <<>> /\ Len(wires'[c].up) = 1
      /\ wires'[c].up[1][1] = "handshake"
      /\ \A d \in Slots \ {c} : wires'[d] = wires[d]
  BY <1>1, <1>2
<1>4. UNCHANGED <<holding, started, outbox, heard, sent, was>> /\ conn = None /\ conn' = c
  BY DEF ClientConnects, house
<1>5. \A i \in 1 .. Len(wires'[c].up) : wires'[c].up[i][1] # "message"
  BY <1>3
<1>6. HandshakeFirst'
  BY <1>3 DEF Order, HandshakeFirst
<1>7. HoldsUntilRead'
  BY <1>4 DEF Order, HoldsUntilRead
<1>8. Issued' /\ HeldInOrder'
  BY <1>3, <1>4, <1>5 DEF Order, Issued, UpTo, HeldInOrder, Before
<1>9. SeatedInOrder' /\ OneSeated' /\ HeardInOrder'
  BY <1>3, <1>4 DEF Order, SeatedInOrder, OneSeated, HeardInOrder
<1> QED BY <1>6, <1>7, <1>8, <1>9 DEF Order

LEMMA SendKeepsOrder ==
  ASSUME TypeOK, Order, ClientSends
  PROVE  Order'
<1> DEFINE n == sent.up
           message == <<"message", n + 1>>
<1>1. n \in Nat /\ sent'.up = n + 1
  BY DEF TypeOK, ClientSends
<1>2. outbox \in Seq(Ups) /\ wires \in [Slots -> Wire] /\ heard.up \in Seq(Nat)
  BY DEF TypeOK, Ups
<1>3. \A c \in Slots : wires[c].up \in Seq(Ups)
  BY <1>2, WireFields
<1>4. UNCHANGED <<conn, holding, started, was, heard>> /\ started
  BY DEF ClientSends, house
<1>5. UpTo(outbox, n) /\ \A c \in Slots : UpTo(wires[c].up, n)
  BY DEF Order, Issued
<1>6. UpTo(outbox, n + 1) /\ \A c \in Slots : UpTo(wires[c].up, n + 1)
  BY <1>1, <1>2, <1>3, <1>5, AppendCarries
<1>7. \A i \in 1 .. Len(heard.up) : heard.up[i] \in Nat /\ heard.up[i] < n + 1
  <2> SUFFICES ASSUME NEW i \in 1 .. Len(heard.up)
        PROVE heard.up[i] \in Nat /\ heard.up[i] < n + 1
    OBVIOUS
  <2>1. heard.up[i] \in Nat /\ heard.up[i] <= n
    BY <1>2 DEF Order, Issued
  <2> QED BY <1>1, <2>1
<1>8. CASE Holds
  <2>1. outbox' = Append(outbox, message) /\ wires' = wires
    BY <1>8, Zenon DEF ClientSends
  <2>2. holding
    BY <1>4, <1>8 DEF Order, HoldsUntilRead, Holds
  <2>3. /\ Len(outbox') = Len(outbox) + 1 /\ outbox'[Len(outbox) + 1] = message
        /\ Len(outbox) \in Nat /\ \A i \in 1 .. Len(outbox) : outbox'[i] = outbox[i]
    <3> HIDE DEF Ups, message
    <3> QED BY <1>2, <2>1
  <2>4. OnlyMessages(outbox') /\ InOrder(outbox') /\ UpTo(outbox', n + 1)
    BY <1>1, <1>2, <1>5, <2>1, AppendCarries DEF Order, HeldInOrder
  <2>5. Older(heard.up, outbox')
    BY <1>7, <2>3 DEF Order, HeldInOrder, Older
  <2>6. ASSUME NEW c \in Slots PROVE Before(wires[c].up, outbox')
    <3> SUFFICES ASSUME NEW i \in 1 .. Len(wires[c].up), NEW j \in 1 .. Len(outbox'),
                        wires[c].up[i][1] = "message"
          PROVE wires[c].up[i][2] < outbox'[j][2]
      BY DEF Before
    <3>1. wires[c].up[i][2] \in Nat /\ wires[c].up[i][2] <= n
      BY <1>3, <1>5, UpElements DEF UpTo
    <3>2. CASE j = Len(outbox) + 1
      BY <1>1, <2>3, <3>1, <3>2
    <3>3. CASE j \in 1 .. Len(outbox)
      BY <2>3, <3>3 DEF Order, HeldInOrder, Before
    <3> QED BY <2>3, <3>2, <3>3
  <2>7. Issued'
    BY <1>1, <1>4, <1>6, <1>7, <2>1, <2>4 DEF Order, Issued
  <2>8. HeldInOrder'
    BY <1>4, <2>1, <2>4, <2>5, <2>6 DEF HeldInOrder
  <2>9. HandshakeFirst' /\ HoldsUntilRead' /\ SeatedInOrder' /\ OneSeated' /\ HeardInOrder'
    BY <1>4, <2>1, <2>2 DEF Order, HandshakeFirst, HoldsUntilRead, SeatedInOrder,
       OneSeated, HeardInOrder
  <2> QED BY <2>7, <2>8, <2>9 DEF Order
<1>9. CASE ~Holds
  <2>1. outbox' = outbox /\ wires' = Written(conn, <<message>>)
    BY <1>9, Zenon DEF ClientSends
  <2>2. conn \in Slots /\ conn # None /\ ~holding /\ outbox = <<>>
    BY <1>9 DEF Holds, TypeOK, Order, HoldsUntilRead
  <2>3. wires[conn].house # "unread"
    BY <1>4, <2>2 DEF Order, HoldsUntilRead
  <2>4. wires' = wires \/ wires' = [wires EXCEPT ![conn].up = Append(wires[conn].up, message)]
    <3>1. wires[conn].up \o <<message>> = Append(wires[conn].up, message)
      <4>1. message \in Ups /\ wires[conn].up \in Seq(Ups)
        BY <1>1, <1>3, <2>2 DEF Ups
      <4> HIDE DEF message, Ups
      <4> QED BY <4>1
    <3> QED BY <2>1, <3>1, Zenon DEF Written
  <2>5. \A d \in Slots :
          /\ wires'[d].house = wires[d].house /\ wires'[d].down = wires[d].down
          /\ \/ wires'[d].up = wires[d].up
             \/ d = conn /\ wires'[d].up = Append(wires[d].up, message)
    <3> SUFFICES ASSUME NEW d \in Slots
          PROVE /\ wires'[d].house = wires[d].house /\ wires'[d].down = wires[d].down
                /\ \/ wires'[d].up = wires[d].up
                   \/ d = conn /\ wires'[d].up = Append(wires[d].up, message)
      OBVIOUS
    <3> HIDE DEF message
    <3> DEFINE longer == Append(wires[conn].up, message)
    <3>1. CASE wires' = wires
      BY <3>1
    <3>2. CASE wires' = [wires EXCEPT ![conn].up = longer]
      <4> HIDE DEF longer
      <4>1. wires'[d].house = wires[d].house
        BY <1>2, <2>2, <3>2, HouseOfMany
      <4>2. /\ wires'[d].up = IF conn = d THEN longer ELSE wires[d].up
            /\ wires'[d].down = wires[d].down
        BY <1>2, <2>2, <3>2, MessagesOfMany
      <4> QED BY <4>1, <4>2 DEF longer
    <3> QED BY <2>4, <3>1, <3>2
  <2>6. \A d \in Slots : UpTo(wires'[d].up, n + 1)
    BY <1>1, <1>3, <1>5, <1>6, <2>5, AppendCarries
  <2>7. Issued'
    BY <1>1, <1>4, <1>6, <1>7, <2>1, <2>6 DEF Order, Issued
  <2>8. HeldInOrder'
    BY <2>1, <2>2 DEF HeldInOrder, OnlyMessages, InOrder, Older, Before
  <2>9. SeatedInOrder'
    <3> SUFFICES ASSUME NEW d \in Slots, wires'[d].house = "seated"
          PROVE /\ OnlyMessages(wires'[d].up) /\ InOrder(wires'[d].up)
                /\ ~was.twice => Older(heard.up, wires'[d].up)
      BY <1>4 DEF SeatedInOrder
    <3>1. /\ OnlyMessages(wires[d].up) /\ InOrder(wires[d].up)
          /\ ~was.twice => Older(heard.up, wires[d].up)
      BY <2>5 DEF Order, SeatedInOrder
    <3>2. CASE wires'[d].up = wires[d].up
      BY <3>1, <3>2
    <3>3. CASE wires'[d].up = Append(wires[d].up, message)
      <4>1. OnlyMessages(wires'[d].up) /\ InOrder(wires'[d].up)
        BY <1>1, <1>3, <1>5, <3>1, <3>3, AppendCarries
      <4>2. /\ Len(wires'[d].up) = Len(wires[d].up) + 1 /\ Len(wires[d].up) \in Nat
            /\ wires'[d].up[Len(wires[d].up) + 1] = message
            /\ \A i \in 1 .. Len(wires[d].up) : wires'[d].up[i] = wires[d].up[i]
        <5> HIDE DEF Ups, message
        <5> QED BY <1>3, <3>3
      <4>3. ASSUME ~was.twice PROVE Older(heard.up, wires'[d].up)
        <5> SUFFICES ASSUME NEW i \in 1 .. Len(heard.up), NEW j \in 1 .. Len(wires'[d].up)
              PROVE heard.up[i] < wires'[d].up[j][2]
          BY DEF Older
        <5>1. CASE j \in 1 .. Len(wires[d].up)
          BY <3>1, <4>2, <4>3, <5>1 DEF Older
        <5>2. CASE j = Len(wires[d].up) + 1
          BY <1>7, <4>2, <5>2
        <5> QED BY <4>2, <5>1, <5>2
      <4> QED BY <4>1, <4>3
    <3> QED BY <2>5, <3>2, <3>3
  <2>10. HandshakeFirst'
    BY <2>3, <2>5 DEF Order, HandshakeFirst
  <2>11. HoldsUntilRead' /\ OneSeated' /\ HeardInOrder'
    BY <1>4, <2>1, <2>2, <2>5 DEF Order, HoldsUntilRead, OneSeated, HeardInOrder
  <2> QED BY <2>7, <2>8, <2>9, <2>10, <2>11 DEF Order
<1> QED BY <1>8, <1>9

LEMMA ConcatCarries ==
  ASSUME NEW s \in Seq(Ups), NEW t \in Seq(Ups), NEW n \in Nat, UpTo(s, n), UpTo(t, n)
  PROVE  /\ UpTo(s \o t, n)
         /\ OnlyMessages(s) /\ OnlyMessages(t) => OnlyMessages(s \o t)
         /\ \A h \in Seq(Nat) : Older(h, s) /\ Older(h, t) => Older(h, s \o t)
<1> DEFINE u == s \o t
<1>1. /\ Len(u) = Len(s) + Len(t) /\ Len(s) \in Nat /\ Len(t) \in Nat
      /\ \A i \in 1 .. Len(s) + Len(t) : u[i] = IF i <= Len(s) THEN s[i] ELSE t[i - Len(s)]
  <2> HIDE DEF Ups
  <2> QED OBVIOUS
<1> HIDE DEF u
<1>2. \A i \in 1 .. Len(u) :
        (i \in 1 .. Len(s) /\ u[i] = s[i]) \/ (i - Len(s) \in 1 .. Len(t) /\ u[i] = t[i - Len(s)])
  BY <1>1
<1>3. UpTo(u, n)
  BY <1>2 DEF UpTo
<1>4. OnlyMessages(s) /\ OnlyMessages(t) => OnlyMessages(u)
  BY <1>2 DEF OnlyMessages
<1>5. \A h \in Seq(Nat) : Older(h, s) /\ Older(h, t) => Older(h, u)
  BY <1>2 DEF Older
<1> QED BY <1>3, <1>4, <1>5 DEF u

LEMMA ReceiveKeepsOrder ==
  ASSUME TypeOK, Order, ClientReceives
  PROVE  Order'
<1> DEFINE message == Head(wires[conn].down)
           ready == message[2] = "ready"
           flushed == IF ready THEN Written(conn, Held) ELSE wires
           rest == Tail(flushed[conn].down)
           longer == wires[conn].up \o outbox
           n == sent.up
<1>1. conn \in Slots /\ conn # None /\ wires[conn].down # <<>>
  BY DEF ClientReceives, TypeOK
<1>2. wires \in [Slots -> Wire] /\ outbox \in Seq(Ups) /\ heard.up \in Seq(Nat) /\ n \in Nat
  BY DEF TypeOK, Ups
<1>3. \A c \in Slots : wires[c].up \in Seq(Ups)
  BY <1>2, WireFields
<1>4. wires[conn].house # "unread"
  BY <1>1 DEF Order, HandshakeFirst
<1>5. flushed \in [Slots -> Wire]
  BY <1>1, <1>2, WrittenIsTyped DEF Held
<1>6. wires' = [flushed EXCEPT ![conn].down = rest]
  BY DEF ClientReceives
<1>7. \A d \in Slots : wires'[d].house = wires[d].house
  BY ReceivesTyped
<1>8. UNCHANGED <<conn, was, sent>> /\ heard'.up = heard.up
  BY DEF ClientReceives, house, TypeOK
<1>9. CASE ~ready
  <2>1. flushed = wires
    BY <1>9
  <2>2. outbox' = outbox /\ holding' = holding /\ started' = started
    BY <1>9 DEF ClientReceives, TypeOK
  <2> HIDE DEF rest, flushed
  <2>3. \A d \in Slots : Stays(d)
    <3> SUFFICES ASSUME NEW d \in Slots PROVE Stays(d)
      OBVIOUS
    <3>1. wires'[d].up = wires[d].up
      BY <1>1, <1>2, <1>6, <2>1, MessagesOfMany
    <3>2. CASE d = conn
      BY <1>4, <1>7, <3>1, <3>2 DEF Stays
    <3>3. CASE d # conn
      BY <1>2, <1>6, <1>7, <2>1, <3>1, <3>3 DEF Stays
    <3> QED BY <3>2, <3>3
  <2> QED BY <1>8, <2>2, <2>3, OrderStays
<1>10. CASE ready
  <2>1. outbox' = <<>> /\ holding' = FALSE /\ started' = TRUE
    BY <1>10 DEF ClientReceives
  <2>2. flushed = wires \/ flushed = [wires EXCEPT ![conn].up = longer]
    BY <1>10, Zenon DEF Written, Held
  <2> HIDE DEF rest, longer, ready, message
  <2>3. ASSUME NEW d \in Slots
        PROVE  \/ wires'[d].up = wires[d].up
               \/ d = conn /\ wires'[d].up = longer
    <3>1. wires'[d].up = flushed[d].up
      <4> HIDE DEF flushed
      <4> QED BY <1>1, <1>5, <1>6, MessagesOfMany
    <3>2. CASE flushed = wires
      BY <3>1, <3>2
    <3>3. CASE flushed = [wires EXCEPT ![conn].up = longer]
      <4>1. flushed[d].up = IF conn = d THEN longer ELSE wires[d].up
        <5> HIDE DEF flushed
        <5> QED BY <1>1, <1>2, <3>3, MessagesOfMany
      <4> QED BY <3>1, <4>1
    <3> QED BY <2>2, <3>2, <3>3
  <2>4. UpTo(longer, n) /\ UpTo(outbox, n)
    BY <1>1, <1>2, <1>3, ConcatCarries DEF Order, Issued, longer
  <2>5. ASSUME wires[conn].house = "seated"
        PROVE  /\ OnlyMessages(longer) /\ InOrder(longer)
               /\ ~was.twice => Older(heard.up, longer)
    <3>1. /\ OnlyMessages(wires[conn].up) /\ InOrder(wires[conn].up)
          /\ ~was.twice => Older(heard.up, wires[conn].up)
      BY <1>1, <2>5 DEF Order, SeatedInOrder
    <3>2. /\ OnlyMessages(outbox) /\ InOrder(outbox) /\ Older(heard.up, outbox)
          /\ Before(wires[conn].up, outbox)
      BY <1>1 DEF Order, HeldInOrder
    <3>3. InOrder(longer)
      BY <1>1, <1>2, <1>3, <3>1, <3>2, ConcatInOrder DEF longer
    <3>4. UpTo(wires[conn].up, n)
      BY <1>1 DEF Order, Issued
    <3> QED BY <1>1, <1>2, <1>3, <2>4, <3>1, <3>2, <3>3, <3>4, ConcatCarries DEF longer
  <2>6. HandshakeFirst'
    <3> SUFFICES ASSUME NEW d \in Slots, wires'[d].house = "unread"
          PROVE /\ wires'[d].down = <<>>
                /\ Len(wires'[d].up) = 1 /\ wires'[d].up[1][1] = "handshake"
      BY DEF HandshakeFirst
    <3>1. d # conn /\ wires[d].house = "unread"
      BY <1>4, <1>7
    <3>2. wires'[d] = wires[d]
      <4>1. wires'[d] = flushed[d]
        <5> HIDE DEF flushed
        <5> QED BY <1>5, <1>6, <3>1
      <4>2. flushed[d] = wires[d]
        BY <1>2, <2>2, <3>1
      <4> QED BY <4>1, <4>2
    <3> QED BY <3>1, <3>2 DEF Order, HandshakeFirst
  <2> HIDE DEF flushed
  <2>7. HoldsUntilRead'
    BY <1>1, <1>4, <1>7, <1>8, <2>1 DEF HoldsUntilRead
  <2>8. Issued'
    <3>1. \A d \in Slots : UpTo(wires'[d].up, n)
      BY <2>3, <2>4 DEF Order, Issued
    <3>2. UpTo(outbox', n)
      BY <2>1 DEF UpTo
    <3> QED BY <1>8, <3>1, <3>2 DEF Order, Issued
  <2>9. HeldInOrder'
    BY <2>1 DEF HeldInOrder, OnlyMessages, InOrder, Older, Before
  <2>10. SeatedInOrder'
    BY <1>7, <1>8, <2>3, <2>5 DEF Order, SeatedInOrder
  <2>11. OneSeated' /\ HeardInOrder'
    BY <1>7, <1>8 DEF Order, OneSeated, HeardInOrder
  <2> QED BY <2>6, <2>7, <2>8, <2>9, <2>10, <2>11 DEF Order
<1> QED BY <1>9, <1>10

LEMMA SeatKeepsOrder ==
  ASSUME TypeOK, Order, NEW c \in Slots, HouseSeats(c)
  PROVE  Order'
<1> DEFINE new == wires'[c]
<1>1. wires \in [Slots -> Wire] /\ wires[c].up \in Seq(Ups)
  BY WireFields DEF TypeOK
<1>2. wires[c].house = "unread" /\ Len(wires[c].up) = 1
  BY DEF HouseSeats, Handshakes, Order, HandshakeFirst
<1>3. Len(Tail(wires[c].up)) = 0
  <2> HIDE DEF Ups
  <2>1. wires[c].up # <<>>
    BY DEF HouseSeats, Handshakes
  <2> QED BY <1>1, <1>2, <2>1
<1>4. Len(new.up) = 0
  <2> DEFINE told == Append(Missed(Head(wires[c].up)[2]), <<"ready", 0>>)
  <2>1. wires' = [wires EXCEPT ![c] =
          [Sent(c, told) EXCEPT !.house = "seated", !.up = Tail(Sent(c, told).up)]]
    BY Zenon DEF HouseSeats
  <2>2. Sent(c, told).up = wires[c].up
    BY <1>1 DEF Sent, Wire
  <2>3. [Sent(c, told) EXCEPT !.house = "seated", !.up = Tail(Sent(c, told).up)].up
          = Tail(wires[c].up)
    <3> HIDE DEF told
    <3>1. "up" \in DOMAIN Sent(c, told)
      BY <1>1 DEF Sent, Wire
    <3> QED BY <2>2, <3>1
  <2> HIDE DEF told
  <2> QED BY <1>1, <1>3, <2>1, <2>3
<1>5. \A d \in Slots \ {c} : wires'[d] = wires[d]
  BY <1>1 DEF HouseSeats
<1>6. new.house = "seated" /\ \A d \in Slots : wires'[d].house = IF c = d THEN "seated" ELSE wires[d].house
  BY SeatsTyped
<1>7. UNCHANGED <<conn, holding, started, outbox, sent, heard>>
  BY DEF HouseSeats, client
<1>8. ~was'.twice => ~was.twice /\ \A d \in Slots : wires[d].house # "seated"
  <2>1. was'.twice = (was.twice \/ SeatedNow # {})
    <3>1. was \in Was
      BY DEF TypeOK
    <3>2. was' = [was EXCEPT !.unresumed = (was.unresumed \/ (Head(wires[c].up)[2] = 0 /\ ring # <<>>)),
                             !.twice = (was.twice \/ SeatedNow # {})]
      BY Zenon DEF HouseSeats
    <3>3. "twice" \in DOMAIN was
      BY <3>1 DEF Was
    <3> QED BY <3>2, <3>3, Zenon
  <2> QED BY <2>1 DEF SeatedNow
<1> HIDE DEF new
<1>9. HandshakeFirst'
  BY <1>5, <1>6 DEF Order, HandshakeFirst
<1>10. HoldsUntilRead'
  BY <1>6, <1>7 DEF Order, HoldsUntilRead, TypeOK
<1>11. Issued' /\ HeldInOrder'
  <2>1. \A d \in Slots : wires'[d].up = wires[d].up \/ Len(wires'[d].up) = 0
    BY <1>4, <1>5 DEF new
  <2>2. Issued'
    BY <1>7, <2>1 DEF Order, Issued, UpTo
  <2>3. \A d \in Slots : Before(wires'[d].up, outbox)
    BY <2>1 DEF Order, HeldInOrder, Before
  <2> QED BY <1>7, <2>2, <2>3 DEF Order, HeldInOrder
<1>12. SeatedInOrder'
  BY <1>4, <1>5, <1>6, <1>7, <1>8 DEF Order, SeatedInOrder, OnlyMessages, InOrder, Older, new
<1>13. OneSeated'
  BY <1>6, <1>8 DEF OneSeated
<1>14. HeardInOrder'
  BY <1>7, <1>8 DEF Order, HeardInOrder
<1> QED BY <1>9, <1>10, <1>11, <1>12, <1>13, <1>14 DEF Order

LEMMA HearKeepsOrder ==
  ASSUME TypeOK, Order, NEW c \in Slots, HouseReceives(c)
  PROVE  Order'
<1> DEFINE up == wires[c].up
           m == Head(up)[2]
           said == heard'.up
<1>1. wires \in [Slots -> Wire] /\ up \in Seq(Ups) /\ up # <<>> /\ wires[c].house = "seated"
  BY WireFields DEF TypeOK, HouseReceives
<1>2. /\ Head(up) = up[1] /\ Len(up) \in Nat \ {0} /\ Len(Tail(up)) = Len(up) - 1
      /\ \A i \in 1 .. Len(Tail(up)) : i + 1 \in 1 .. Len(up) /\ Tail(up)[i] = up[i + 1]
  <2> HIDE DEF up
  <2> QED BY <1>1, TailElements
<1>3. 1 \in 1 .. Len(up)
  BY <1>2
<1>4. m = up[1][2] /\ m \in Nat /\ up[1][1] = "message"
  <2>1. up[1][2] \in Nat
    BY <1>1, <1>3, UpElements
  <2> QED BY <1>1, <1>2, <1>3, <2>1 DEF Order, SeatedInOrder, OnlyMessages
<1>5. wires' = [wires EXCEPT ![c].up = Tail(up)]
  BY DEF HouseReceives
<1>6. /\ wires'[c].up = Tail(up)
      /\ \A d \in Slots \ {c} : wires'[d].up = wires[d].up
      /\ \A d \in Slots : wires'[d].down = wires[d].down /\ wires'[d].house = wires[d].house
  <2> DEFINE rest == Tail(up)
  <2> HIDE DEF rest, up
  <2>1. wires' = [wires EXCEPT ![c].up = rest]
    BY <1>5 DEF rest
  <2>2. \A d \in Slots : wires'[d].up = IF c = d THEN rest ELSE wires[d].up
    BY <1>1, <2>1, MessagesOfMany
  <2>3. \A d \in Slots : wires'[d].down = wires[d].down
    BY <1>1, <2>1, MessagesOfMany
  <2>4. \A d \in Slots : wires'[d].house = wires[d].house
    BY HouseReceivesTyped
  <2> QED BY <2>2, <2>3, <2>4 DEF rest
<1>7. UNCHANGED <<conn, holding, started, outbox, sent, was>>
  BY DEF HouseReceives, client, house
<1>8. /\ Len(said) = Len(heard.up) + 1 /\ Len(heard.up) \in Nat
      /\ said[Len(heard.up) + 1] = m
      /\ \A i \in 1 .. Len(heard.up) : said[i] = heard.up[i]
  <2>1. heard \in [up : Seq(Nat), down : SUBSET Nat] /\ heard' = [heard EXCEPT !.up = Append(heard.up, m)]
    BY DEF TypeOK, HouseReceives
  <2> HIDE DEF m, said
  <2>2. said = Append(heard.up, m) /\ heard.up \in Seq(Nat)
    BY <2>1 DEF said
  <2> QED BY <1>4, <2>2
<1>9. \A i \in 1 .. Len(said) :
        (i \in 1 .. Len(heard.up) /\ said[i] = heard.up[i]) \/ (i = Len(heard.up) + 1 /\ said[i] = m)
  BY <1>8
<1>10. m <= sent.up
  BY <1>3, <1>4 DEF Order, Issued, UpTo
<1>11. \A j \in 1 .. Len(outbox) : m < outbox[j][2]
  BY <1>3, <1>4 DEF Order, HeldInOrder, Before
<1>12. OnlyMessages(up) /\ InOrder(up) /\ (~was.twice => Older(heard.up, up))
  BY <1>1 DEF Order, SeatedInOrder
<1> HIDE DEF said, m, up
<1>13. HandshakeFirst'
  BY <1>1, <1>6 DEF Order, HandshakeFirst
<1>14. HoldsUntilRead'
  BY <1>6, <1>7 DEF Order, HoldsUntilRead, TypeOK
<1>15. Issued'
  <2>1. UpTo(Tail(up), sent.up)
    BY <1>2 DEF Order, Issued, UpTo, up
  <2>2. \A d \in Slots : UpTo(wires'[d].up, sent.up)
    BY <1>6, <2>1 DEF Order, Issued
  <2>3. \A i \in 1 .. Len(said) : said[i] <= sent.up
    BY <1>9, <1>10 DEF Order, Issued
  <2> QED BY <1>7, <2>2, <2>3 DEF Order, Issued, said
<1>16. HeldInOrder'
  <2>1. Older(said, outbox)
    BY <1>9, <1>11 DEF Order, HeldInOrder, Older
  <2>2. Before(Tail(up), outbox)
    BY <1>2 DEF Order, HeldInOrder, Before, up
  <2>3. \A d \in Slots : Before(wires'[d].up, outbox)
    BY <1>6, <2>2 DEF Order, HeldInOrder
  <2> QED BY <1>7, <2>1, <2>3 DEF Order, HeldInOrder, said
<1>17. SeatedInOrder'
  <2> SUFFICES ASSUME NEW d \in Slots, wires[d].house = "seated"
        PROVE /\ OnlyMessages(wires'[d].up) /\ InOrder(wires'[d].up)
              /\ ~was.twice => Older(said, wires'[d].up)
    BY <1>6, <1>7 DEF SeatedInOrder, said
  <2>1. CASE d = c
    <3>1. OnlyMessages(Tail(up)) /\ InOrder(Tail(up))
      BY <1>2, <1>12 DEF OnlyMessages, InOrder
    <3>2. \A i \in 1 .. Len(Tail(up)) : m < Tail(up)[i][2]
      BY <1>2, <1>3, <1>4, <1>12 DEF InOrder
    <3>3. ~was.twice => Older(said, Tail(up))
      BY <1>2, <1>9, <1>12, <3>2 DEF Older
    <3> QED BY <1>6, <2>1, <3>1, <3>3
  <2>2. CASE d # c
    BY <1>1, <1>6, <2>2 DEF Order, SeatedInOrder, OneSeated
  <2> QED BY <2>1, <2>2
<1>18. OneSeated'
  BY <1>6, <1>7 DEF Order, OneSeated
<1>19. HeardInOrder'
  <2> SUFFICES ASSUME ~was.twice, NEW i \in 1 .. Len(said), NEW j \in 1 .. Len(said), i < j
        PROVE said[i] < said[j]
    BY <1>7 DEF HeardInOrder, said
  <2>1. \A k \in 1 .. Len(heard.up) : heard.up[k] < m
    BY <1>3, <1>4, <1>12 DEF Older
  <2>2. i \in 1 .. Len(heard.up)
    BY <1>8
  <2> QED BY <1>8, <1>9, <2>1, <2>2 DEF Order, HeardInOrder
<1> QED BY <1>13, <1>14, <1>15, <1>16, <1>17, <1>18, <1>19 DEF Order

-----------------------------------------------------------------------------
LEMMA NextKeepsOrder ==
  ASSUME TypeOK, SeatsAgree, Order, [Next]_vars
  PROVE  Order'
<1>1. ASSUME ClientSends \/ ClientReceives \/ ClientSeesClose \/ HouseRestarts PROVE Order'
  BY <1>1, SendKeepsOrder, ReceiveKeepsOrder, CloseKeepsOrder, RestartKeepsOrder
<1>2. ASSUME NEW c \in Slots, ClientConnects(c) \/ HouseSide(c) \/ Break(c) PROVE Order'
  BY <1>2, ConnectKeepsOrder, LeavingKeepsOrder, SeatKeepsOrder, HearKeepsOrder DEF HouseSide
<1>3. ASSUME NEW r \in Rooms, HouseSends(r) \/ HouseSendsLate(r) \/ OpenRoom(r) PROVE Order'
  BY <1>3, DownKeepsOrder
<1>4. CASE UNCHANGED vars
  <2>1. \A c \in Slots : Stays(c)
    BY <1>4 DEF vars, Stays
  <2> QED BY <1>4, <2>1, OrderStays DEF vars, client, house
<1> QED BY <1>1, <1>2, <1>3, <1>4 DEF Next

LEMMA OrderCorrect == Spec => []Order
<1>1. Init => Order
  BY OrderInit
<1>2. TypeOK /\ SeatsAgree /\ Order /\ [Next]_vars => Order'
  BY NextKeepsOrder
<1> QED BY <1>1, <1>2, TypeCorrect, TablesAgree, PTL DEF Spec

(* What the being sends, the house is given in the order it was sent and   *)
(* none of it twice, over any number of connections and restarts: send,    *)
(* _flushOutbox and _holding until seat.ready let nothing overtake what is *)
(* held.                                                                   *)
THEOREM UpKeepsOrder == Spec => []UpInOrder
<1>1. Order => UpInOrder
  BY DEF Order, HeardInOrder, UpInOrder
<1> QED BY <1>1, OrderCorrect, PTL

(* What the client holds was neither given to the house nor is on its way: *)
(* a flush sends nothing a second time.                                    *)
THEOREM HeldStaysUnsent == Spec => []HeldIsUnsent
<1>1. Order => HeldIsUnsent
  BY DEF Order, HeldInOrder, Older, Before, HeldIsUnsent
<1> QED BY <1>1, OrderCorrect, PTL

-----------------------------------------------------------------------------
(* What comes down is not skipped.  With the room of the handshake as the  *)
(* only one, every message that goes down a live connection stands in the  *)
(* ring, so that what is on its way mirrors the ring's end.                *)

(* As NothingSkipped has it: the house has not restarted, and so on.       *)
Usual == restarts = 0 /\ ~was.unresumed /\ ~was.twice /\ ~was.late

(* The ring's i-th message, if it can still be replayed, was given.        *)
Caught(i) == ring[i][1] = "message" /\ i + RingCap > Len(ring) => ring[i][2] \in heard.down

(* What is on its way stands in s right after place p, at places beyond    *)
(* its own numbers.                                                        *)
Mirrors(down, s, p) ==
  /\ p + Len(down) <= Len(s)
  /\ \A k \in 1 .. Len(down) : s[p + k] = <<down[k][2], down[k][3]>> /\ down[k][1] < p + k

(* All before what is on its way to the client was given, and nothing is   *)
(* behind it as long as the connection holds.                              *)
Follows(c) ==
  \E p \in 0 .. Len(ring) :
    /\ Mirrors(wires[c].down, ring, p)
    /\ \A i \in 1 .. p : Caught(i)
    /\ wires[c].alive /\ wires[c].house = "seated" => p + Len(wires[c].down) = Len(ring)

(* A handshake that is unread asks for what the client has not seen.       *)
AsksForUnseen ==
  conn # None /\ wires[conn].house = "unread" => wires[conn].up[1] = <<"handshake", seen>>

WireNumbers ==
  /\ \A c \in Slots : wires[c].house = "unread" => wires[c].wire = 0
  /\ \A c \in SeatedNow : wires[c].wire <= Len(ring)

Ringing ==
  Usual =>
    /\ seen <= Len(ring) /\ \A i \in 1 .. Len(ring) : i <= seen => Caught(i)
    /\ WireNumbers /\ AsksForUnseen
    /\ conn # None => Follows(conn)

(* The ring grows by one: what it had stays where it was.                  *)
LEMMA Longer ==
  ASSUME NEW s \in Seq(Ringable), NEW m \in Ringable
  PROVE  /\ Append(s, m) \in Seq(Ringable) /\ Len(s) \in Nat /\ Len(Append(s, m)) = Len(s) + 1
         /\ \A i \in 1 .. Len(s) : Append(s, m)[i] = s[i]
         /\ Append(s, m)[Len(s) + 1] = m
<1> HIDE DEF Ringable
<1> QED
  OBVIOUS

(* A ring that grows mirrors what it did.                                  *)
LEMMA MirrorsLonger ==
  ASSUME NEW down \in Seq(Downs), NEW s \in Seq(Ringable), NEW m \in Ringable, NEW p \in Nat,
         Mirrors(down, s, p)
  PROVE  Mirrors(down, Append(s, m), p)
<1>1. Len(down) \in Nat
  <2> HIDE DEF Downs
  <2> QED
    OBVIOUS
<1> DEFINE u == Append(s, m)
<1>2. Len(s) \in Nat /\ Len(u) = Len(s) + 1 /\ \A i \in 1 .. Len(s) : u[i] = s[i]
  BY Longer
<1> HIDE DEF u
<1>3. \A k \in 1 .. Len(down) : p + k \in 1 .. Len(s)
  BY <1>1, <1>2 DEF Mirrors
<1> QED
  BY <1>1, <1>2, <1>3 DEF Mirrors, u

(* What is taken off is the ring's next.                                   *)
LEMMA MirrorsRest ==
  ASSUME NEW down \in Seq(Downs), NEW s \in Seq(Ringable), NEW p \in Nat,
         Mirrors(down, s, p), down # <<>>
  PROVE  /\ Mirrors(Tail(down), s, p + 1) /\ p + 1 \in 1 .. Len(s)
         /\ s[p + 1] = <<Head(down)[2], Head(down)[3]>> /\ Head(down)[1] < p + 1
         /\ Len(down) \in Nat /\ Len(Tail(down)) = Len(down) - 1
<1> DEFINE u == Tail(down)
<1>1. /\ Len(down) \in Nat \ {0} /\ Len(u) = Len(down) - 1 /\ Head(down) = down[1]
      /\ \A k \in 1 .. Len(u) : k + 1 \in 1 .. Len(down) /\ u[k] = down[k + 1]
  <2> HIDE DEF Downs
  <2> QED
    OBVIOUS
<1> HIDE DEF u
<1>2. Len(s) \in Nat
  OBVIOUS
<1>3. 1 \in 1 .. Len(down)
  BY <1>1
<1>4. p + Len(down) <= Len(s) /\ s[p + 1] = <<down[1][2], down[1][3]>> /\ down[1][1] < p + 1
  BY <1>3 DEF Mirrors
<1>5. (p + 1) + Len(u) <= Len(s) /\ p + 1 \in 1 .. Len(s)
  BY <1>1, <1>2, <1>4
<1>6. ASSUME NEW k \in 1 .. Len(u)
      PROVE  s[(p + 1) + k] = <<u[k][2], u[k][3]>> /\ u[k][1] < (p + 1) + k
  <2>1. k + 1 \in 1 .. Len(down) /\ u[k] = down[k + 1] /\ p + (k + 1) = (p + 1) + k
    BY <1>1, <1>6
  <2>2. s[p + (k + 1)] = <<down[k + 1][2], down[k + 1][3]>> /\ down[k + 1][1] < p + (k + 1)
    BY <2>1 DEF Mirrors
  <2> QED
    BY <2>1, <2>2
<1> QED
  BY <1>1, <1>4, <1>5, <1>6 DEF Mirrors, u

(* What is put on both stays mirrored.                                     *)
LEMMA MirrorsMore ==
  ASSUME NEW down, NEW more, NEW s \in Seq(Ringable), NEW m \in Ringable, NEW p \in Nat,
         Mirrors(down, s, p), Len(down) \in Nat, p + Len(down) = Len(s),
         Len(more) = Len(down) + 1, \A k \in 1 .. Len(down) : more[k] = down[k],
         NEW l, l = Len(down) + 1, more[l][1] < l + p,
         more[l][2] = m[1], more[l][3] = m[2]
  PROVE  Mirrors(more, Append(s, m), p) /\ p + Len(more) = Len(Append(s, m))
<1> DEFINE u == Append(s, m)
<1>1. Len(s) \in Nat /\ Len(u) = Len(s) + 1 /\ \A i \in 1 .. Len(s) : u[i] = s[i]
  BY Longer
<1>2. u[Len(s) + 1] = m /\ m = <<m[1], m[2]>>
  BY Longer DEF Ringable
<1> HIDE DEF u
<1>3. ASSUME NEW k \in 1 .. Len(more)
      PROVE  u[p + k] = <<more[k][2], more[k][3]>> /\ more[k][1] < p + k
  <2>1. CASE k \in 1 .. Len(down)
    <3>1. p + k \in 1 .. Len(s)
      BY <1>1, <2>1
    <3>2. more[k] = down[k] /\ s[p + k] = <<down[k][2], down[k][3]>> /\ down[k][1] < p + k
      BY <2>1 DEF Mirrors
    <3> QED
      BY <1>1, <3>1, <3>2
  <2>2. CASE k = l
    <3>1. p + k = Len(s) + 1 /\ p + k = l + p
      BY <1>1, <2>2
    <3> QED
      BY <1>2, <2>2, <3>1
  <2> QED
    BY <2>1, <2>2
<1>4. p + Len(more) = Len(u)
  BY <1>1
<1> QED
  BY <1>1, <1>3, <1>4 DEF Mirrors, u

(* What is in a connection's record.                                       *)
LEMMA WireOfMany ==
  ASSUME NEW f \in [Slots -> Wire], NEW c \in Slots, NEW d \in Slots
  PROVE  /\ \A alive : /\ [f EXCEPT ![c].alive = alive][d].wire = f[d].wire
                       /\ [f EXCEPT ![c].alive = alive][d].alive = IF c = d THEN alive ELSE f[d].alive
         /\ \A h : /\ [f EXCEPT ![c].house = h][d].wire = f[d].wire
                   /\ [f EXCEPT ![c].house = h][d].alive = f[d].alive
         /\ \A up : /\ [f EXCEPT ![c].up = up][d].wire = f[d].wire
                    /\ [f EXCEPT ![c].up = up][d].alive = f[d].alive
         /\ \A down : /\ [f EXCEPT ![c].down = down][d].wire = f[d].wire
                      /\ [f EXCEPT ![c].down = down][d].alive = f[d].alive
                      /\ [f EXCEPT ![c].down = down][d].down = IF c = d THEN down ELSE f[d].down
<1>1. f[c] \in Wire /\ f[d] \in Wire
  OBVIOUS
<1>2. \A alive : /\ [f EXCEPT ![c].alive = alive][d].wire = f[d].wire
                 /\ [f EXCEPT ![c].alive = alive][d].alive = IF c = d THEN alive ELSE f[d].alive
  BY <1>1 DEF Wire
<1>3. \A h : /\ [f EXCEPT ![c].house = h][d].wire = f[d].wire
             /\ [f EXCEPT ![c].house = h][d].alive = f[d].alive
  BY <1>1 DEF Wire
<1>4. \A up : /\ [f EXCEPT ![c].up = up][d].wire = f[d].wire
              /\ [f EXCEPT ![c].up = up][d].alive = f[d].alive
  BY <1>1 DEF Wire
<1>5. \A down : /\ [f EXCEPT ![c].down = down][d].wire = f[d].wire
                /\ [f EXCEPT ![c].down = down][d].alive = f[d].alive
                /\ [f EXCEPT ![c].down = down][d].down = IF c = d THEN down ELSE f[d].down
  BY <1>1 DEF Wire
<1> QED
  BY <1>2, <1>3, <1>4, <1>5

(* What the house has said so far is behind what it would say next.        *)
LEMMA RingIsTyped ==
  ASSUME TypeOK
  PROVE  /\ ring \in Seq(Ringable) /\ Len(ring) \in Nat /\ seen \in Nat /\ RingCap \in Nat \ {0}
         /\ \A c \in Slots : /\ wires[c].down \in Seq(Downs) /\ Len(wires[c].down) \in Nat
                             /\ wires[c].wire \in Nat /\ wires[c].alive \in BOOLEAN
         /\ conn # None => conn \in Slots
<1>1. /\ ring \in Seq(Ringable) /\ seen \in Nat /\ RingCap \in Nat \ {0}
      /\ conn # None => conn \in Slots
  BY SeatLinkAssumption DEF TypeOK, Ringable
<1>2. \A c \in Slots : wires[c] \in Wire
  BY DEF TypeOK
<1>3. \A c \in Slots : wires[c].down \in Seq(Downs) /\ wires[c].wire \in Nat /\ wires[c].alive \in BOOLEAN
  BY <1>2, WireFields
<1>4. \A s \in Seq(Downs) : Len(s) \in Nat
  <2> HIDE DEF Downs
  <2> QED
    OBVIOUS
<1>5. Len(ring) \in Nat
  BY <1>1, Longer DEF Ringable
<1> QED
  BY <1>1, <1>3, <1>4, <1>5

(* A connection keeps its messages down, and may break or be left.         *)
Unsaid(c) ==
  /\ wires'[c].down = wires[c].down /\ wires'[c].wire = wires[c].wire
  /\ wires'[c].alive => wires[c].alive
  /\ wires'[c].house \in {wires[c].house, "left"}
  /\ wires'[c].house = "unread" => wires'[c].up = wires[c].up

(* Nothing goes down, and the client asks no one anew.                     *)
LEMMA RingingStays ==
  ASSUME TypeOK, Ringing, UNCHANGED <<ring, seen>>, heard'.down = heard.down,
         Usual' => Usual, conn' \in {conn, None}, \A c \in Slots : Unsaid(c)
  PROVE  Ringing'
<1> SUFFICES ASSUME Usual'
             PROVE  /\ seen' <= Len(ring') /\ \A i \in 1 .. Len(ring') : i <= seen' => Caught(i)'
                    /\ WireNumbers' /\ AsksForUnseen'
                    /\ conn' # None => Follows(conn)'
  BY DEF Ringing
<1>1. /\ seen <= Len(ring) /\ \A i \in 1 .. Len(ring) : i <= seen => Caught(i)
      /\ WireNumbers /\ AsksForUnseen
      /\ conn # None => Follows(conn)
  BY DEF Ringing
<1>2. \A i : Caught(i)' = Caught(i)
  BY DEF Caught
<1>3. seen' <= Len(ring') /\ \A i \in 1 .. Len(ring') : i <= seen' => Caught(i)'
  BY <1>1, <1>2
<1>4. WireNumbers'
  BY <1>1 DEF WireNumbers, Unsaid, SeatedNow
<1>5. conn' # None => conn' = conn /\ conn \in Slots
  BY DEF TypeOK
<1>6. AsksForUnseen'
  BY <1>1, <1>5 DEF AsksForUnseen, Unsaid
<1>7. ASSUME conn' # None PROVE Follows(conn)'
  <2>1. PICK p \in 0 .. Len(ring) :
          /\ Mirrors(wires[conn].down, ring, p)
          /\ \A i \in 1 .. p : Caught(i)
          /\ wires[conn].alive /\ wires[conn].house = "seated" => p + Len(wires[conn].down) = Len(ring)
    BY <1>1, <1>5, <1>7 DEF Follows
  <2>2. wires'[conn'].down = wires[conn].down
    BY <1>5, <1>7 DEF Unsaid
  <2>3. wires'[conn'].alive /\ wires'[conn'].house = "seated" => wires[conn].alive /\ wires[conn].house = "seated"
    BY <1>5, <1>7 DEF Unsaid
  <2>4. \A i \in 1 .. p : Caught(i)'
    BY <1>2, <2>1
  <2> QED
    BY <2>1, <2>2, <2>3, <2>4 DEF Follows
<1> QED
  BY <1>3, <1>4, <1>6, <1>7

(* The client's own steps, and what the house hears or sees end.           *)
LEMMA QuietKeepsRinging ==
  ASSUME TypeOK, Ringing, Order,
         \/ ClientSends \/ ClientSeesClose \/ UNCHANGED vars
         \/ \E c \in Slots : HouseRefuses(c) \/ HouseReceives(c) \/ HouseSeesClose(c) \/ HouseDrops(c) \/ Break(c)
         \/ \E r \in Rooms : OpenRoom(r)
  PROVE  Ringing'
<1>0. wires \in [Slots -> Wire] /\ Houses = {"unread", "seated", "left"}
  BY DEF TypeOK, Houses
<1>1. ASSUME UNCHANGED wires PROVE \A c \in Slots : Unsaid(c)
  BY <1>1 DEF Unsaid
<1>2. CASE ClientSends
  <2>1. CASE UNCHANGED wires
    BY <1>1, <1>2, <2>1, RingingStays DEF ClientSends, house, Usual
  <2>2. CASE wires' # wires
    <3> DEFINE up == wires[conn].up \o << <<"message", sent.up + 1>> >>
    <3>1. /\ conn # None /\ ~holding /\ started
          /\ wires' = [wires EXCEPT ![conn].up = up]
      BY <1>2, <2>2 DEF ClientSends, Holds, Written
    <3>2. conn \in Slots /\ wires[conn].house # "unread"
      BY <3>1 DEF TypeOK, Order, HoldsUntilRead
    <3> HIDE DEF up
    <3>3. \A d \in Slots : Unsaid(d)
      <4> SUFFICES ASSUME NEW d \in Slots PROVE Unsaid(d)
        OBVIOUS
      <4>1. /\ wires'[d].up = IF conn = d THEN up ELSE wires[d].up
            /\ wires'[d].down = wires[d].down
        BY <1>0, <3>1, <3>2, MessagesOfMany
      <4>2. wires'[d].wire = wires[d].wire /\ wires'[d].alive = wires[d].alive
        BY <1>0, <3>1, <3>2, WireOfMany
      <4>3. wires'[d].house = wires[d].house
        BY <1>0, <3>1, <3>2, HouseOfMany
      <4> QED
        BY <3>2, <4>1, <4>2, <4>3 DEF Unsaid
    <3> QED
      BY <1>2, <3>3, RingingStays DEF ClientSends, house, Usual
  <2> QED
    BY <2>1, <2>2
<1>3. CASE ClientSeesClose
  BY <1>1, <1>3, RingingStays DEF ClientSeesClose, house, Usual
<1>4. CASE UNCHANGED vars
  BY <1>1, <1>4, RingingStays DEF vars, client, house, Usual
<1>5. ASSUME NEW c \in Slots, HouseRefuses(c) PROVE Ringing'
  <2>1. wires' = [wires EXCEPT ![c].alive = FALSE, ![c].house = "left"]
    BY <1>5 DEF HouseRefuses
  <2>2. \A d \in Slots : Unsaid(d)
    <3>1. wires[c] \in Wire
      BY <1>0
    <3>2. wires'[c] = [wires[c] EXCEPT !.alive = FALSE, !.house = "left"]
      BY <1>0, <2>1
    <3>3. wires'[c].down = wires[c].down /\ wires'[c].wire = wires[c].wire /\ ~wires'[c].alive /\ wires'[c].house = "left"
      BY <3>1, <3>2 DEF Wire
    <3>4. \A d \in Slots : d # c => wires'[d] = wires[d]
      BY <1>0, <2>1
    <3> QED
      BY <3>3, <3>4 DEF Unsaid
  <2> QED
    BY <1>5, <2>2, RingingStays DEF HouseRefuses, client, house, Usual
<1>6. ASSUME NEW c \in Slots, HouseReceives(c) PROVE Ringing'
  <2>1. wires' = [wires EXCEPT ![c].up = Tail(wires[c].up)] /\ wires[c].house = "seated"
    BY <1>6 DEF HouseReceives
  <2>2. \A d \in Slots : Unsaid(d)
    <3> SUFFICES ASSUME NEW d \in Slots PROVE Unsaid(d)
      OBVIOUS
    <3>1. /\ wires'[d].up = IF c = d THEN Tail(wires[c].up) ELSE wires[d].up
          /\ wires'[d].down = wires[d].down
      BY <1>0, <2>1, MessagesOfMany
    <3>2. wires'[d].wire = wires[d].wire /\ wires'[d].alive = wires[d].alive
      BY <1>0, <2>1, WireOfMany
    <3>3. wires'[d].house = wires[d].house
      BY <1>0, <2>1, HouseOfMany
    <3> QED
      BY <2>1, <3>1, <3>2, <3>3 DEF Unsaid
  <2>3. heard'.down = heard.down
    BY <1>6 DEF HouseReceives, TypeOK
  <2> QED
    BY <1>6, <2>2, <2>3, RingingStays DEF HouseReceives, client, house, Usual
<1>7. ASSUME NEW c \in Slots, HouseSeesClose(c) \/ HouseDrops(c) PROVE Ringing'
  <2>1. wires' = [wires EXCEPT ![c].house = "left"]
    BY <1>7 DEF HouseSeesClose, HouseDrops
  <2>2. \A d \in Slots : Unsaid(d)
    <3> SUFFICES ASSUME NEW d \in Slots PROVE Unsaid(d)
      OBVIOUS
    <3>1. wires'[d].up = wires[d].up /\ wires'[d].down = wires[d].down
      BY <1>0, <2>1, MessagesOfMany
    <3>2. wires'[d].wire = wires[d].wire /\ wires'[d].alive = wires[d].alive
      BY <1>0, <2>1, WireOfMany
    <3>3. wires'[d].house = IF c = d THEN "left" ELSE wires[d].house
      BY <1>0, <2>1, HouseOfMany
    <3> QED
      BY <2>1, <3>1, <3>2, <3>3 DEF Unsaid
  <2> QED
    BY <1>7, <2>2, RingingStays DEF HouseSeesClose, HouseDrops, client, house, Usual
<1>8. ASSUME NEW c \in Slots, Break(c) PROVE Ringing'
  <2>1. wires' = [wires EXCEPT ![c].alive = FALSE]
    BY <1>8 DEF Break
  <2>2. \A d \in Slots : Unsaid(d)
    <3> SUFFICES ASSUME NEW d \in Slots PROVE Unsaid(d)
      OBVIOUS
    <3>1. wires'[d].up = wires[d].up /\ wires'[d].down = wires[d].down
      BY <1>0, <2>1, MessagesOfMany
    <3>2. wires'[d].wire = wires[d].wire
      BY <1>0, <2>1, WireOfMany
    <3>4. wires[c] \in Wire /\ wires[d] \in Wire /\ wires[d].alive \in BOOLEAN
      BY <1>0 DEF Wire
    <3>5. wires'[d].alive => wires[d].alive
      BY <1>0, <2>1, <3>4 DEF Wire
    <3>3. wires'[d].house = wires[d].house
      BY <1>0, <2>1, HouseOfMany
    <3> QED
      BY <2>1, <3>1, <3>2, <3>3, <3>5 DEF Unsaid
  <2> QED
    BY <1>8, <2>2, RingingStays DEF Break, client, house, Usual
<1>9. ASSUME NEW r \in Rooms, OpenRoom(r) PROVE Ringing'
  BY <1>1, <1>9, RingingStays DEF OpenRoom, client, Usual
<1> QED
  BY <1>2, <1>3, <1>4, <1>5, <1>6, <1>7, <1>8, <1>9

(* A new connection: nothing is on its way to the client.                  *)
LEMMA ConnectKeepsRinging ==
  ASSUME TypeOK, Ringing, NEW c \in Slots, ClientConnects(c)
  PROVE  Ringing'
<1> DEFINE new == [Dead EXCEPT !.alive = TRUE, !.house = "unread",
                              !.up = << <<"handshake", seen>> >>]
<1>1. wires \in [Slots -> Wire] /\ wires' = [wires EXCEPT ![c] = new]
  BY DEF ClientConnects, TypeOK
<1>2. new.house = "unread" /\ new.down = <<>> /\ new.wire = 0 /\ new.up[1] = <<"handshake", seen>>
  BY DEF Dead
<1> HIDE DEF new
<1>3. wires'[c] = new /\ \A d \in Slots : d # c => wires'[d] = wires[d]
  BY <1>1
<1>4. conn' = c /\ UNCHANGED <<seen, ring, heard, was, restarts>>
  BY DEF ClientConnects, house
<1> SUFFICES ASSUME Usual'
             PROVE  /\ seen' <= Len(ring') /\ \A i \in 1 .. Len(ring') : i <= seen' => Caught(i)'
                    /\ WireNumbers' /\ AsksForUnseen' /\ Follows(conn)'
  BY DEF Ringing
<1>5. /\ seen <= Len(ring) /\ \A i \in 1 .. Len(ring) : i <= seen => Caught(i)
      /\ WireNumbers
  BY <1>4 DEF Ringing, Usual
<1>6. \A i : Caught(i)' = Caught(i)
  BY <1>4 DEF Caught
<1>7. WireNumbers'
  BY <1>2, <1>3, <1>4, <1>5 DEF WireNumbers, SeatedNow
<1>8. AsksForUnseen'
  BY <1>2, <1>3, <1>4 DEF AsksForUnseen
<1>9. Follows(conn)'
  <2>1. Len(ring') \in Nat
    BY <1>4, RingIsTyped
  <2>2. wires'[conn'].down = <<>> /\ wires'[conn'].house = "unread"
    BY <1>2, <1>3, <1>4
  <2>3. Mirrors(<<>>, ring', 0)
    BY <2>1 DEF Mirrors
  <2>4. 0 \in 0 .. Len(ring') /\ \A i \in 1 .. 0 : Caught(i)'
    BY <2>1
  <2> QED
    BY <2>2, <2>3, <2>4 DEF Follows
<1> QED
  BY <1>4, <1>5, <1>6, <1>7, <1>8, <1>9

(* The client is given the next of what was on its way: the ring's next.   *)
LEMMA ReceiveKeepsRinging ==
  ASSUME TypeOK, Order, Ringing, ClientReceives
  PROVE  Ringing'
<1> DEFINE message == Head(wires[conn].down)
           ready == message[2] = "ready"
           flushed == IF ready THEN Written(conn, Held) ELSE wires
           down == wires[conn].down
           rest == Tail(flushed[conn].down)
           longer == wires[conn].up \o outbox
<1>1. conn \in Slots /\ conn # None /\ down # <<>> /\ UNCHANGED <<conn, ring, was, restarts>>
  BY DEF ClientReceives, TypeOK, house
<1>2. /\ wires \in [Slots -> Wire] /\ outbox \in Seq(Ups)
      /\ heard \in [up : Seq(Nat), down : SUBSET Nat]
  BY DEF TypeOK, Ups
<1>3. wires[conn].house # "unread"
  BY <1>1 DEF Order, HandshakeFirst
<1>4. flushed \in [Slots -> Wire]
  BY <1>1, <1>2, WrittenIsTyped DEF Held
<1>5. wires' = [flushed EXCEPT ![conn].down = rest]
  BY DEF ClientReceives
<1>6. \A d \in Slots : wires'[d].house = wires[d].house
  BY ReceivesTyped
<1>7. flushed = wires \/ flushed = [wires EXCEPT ![conn].up = longer]
  BY Zenon DEF Written, Held
<1>8. ASSUME NEW d \in Slots
      PROVE  wires'[d].wire = wires[d].wire /\ wires'[d].alive = wires[d].alive
  <2> HIDE DEF rest, longer
  <2>1. wires'[d].wire = flushed[d].wire /\ wires'[d].alive = flushed[d].alive
    <3> HIDE DEF flushed
    <3> QED
      BY <1>1, <1>4, <1>5, WireOfMany
  <2>2. flushed[d].wire = wires[d].wire /\ flushed[d].alive = wires[d].alive
    <3>1. CASE flushed = wires
      BY <3>1
    <3>2. CASE flushed = [wires EXCEPT ![conn].up = longer]
      <4> HIDE DEF flushed
      <4> QED
        BY <1>1, <1>2, <3>2, WireOfMany
    <3> QED
      BY <1>7, <3>1, <3>2
  <2> QED
    BY <2>1, <2>2
<1>9. wires'[conn].down = Tail(down)
  <2> HIDE DEF longer
  <2>1. flushed[conn].down = down
    <3>1. CASE flushed = wires
      BY <3>1
    <3>2. CASE flushed = [wires EXCEPT ![conn].up = longer]
      <4> HIDE DEF flushed
      <4> QED
        BY <1>1, <1>2, <3>2, MessagesOfMany
    <3> QED
      BY <1>7, <3>1, <3>2
  <2>2. wires'[conn].down = rest
    <3> HIDE DEF flushed, rest
    <3> QED
      BY <1>1, <1>4, <1>5, WireOfMany
  <2> HIDE DEF flushed
  <2> QED
    BY <2>1, <2>2
<1>10. seen' = Larger(seen, message[1] + 1)
  BY DEF ClientReceives
<1>11. heard'.down = heard.down \/ (~ready /\ heard'.down = heard.down \cup {message[3]})
  <2>1. heard' = IF ready THEN heard ELSE [heard EXCEPT !.down = heard.down \cup {message[3]}]
    BY DEF ClientReceives
  <2> HIDE DEF message
  <2> QED
    BY <1>2, <2>1
<1>12. ~ready => message[3] \in heard'.down
  <2>1. heard' = IF ready THEN heard ELSE [heard EXCEPT !.down = heard.down \cup {message[3]}]
    BY DEF ClientReceives
  <2> HIDE DEF message
  <2> QED
    BY <1>2, <2>1
<1> HIDE DEF flushed, rest, longer
<1> SUFFICES ASSUME Usual'
             PROVE  /\ seen' <= Len(ring') /\ \A i \in 1 .. Len(ring') : i <= seen' => Caught(i)'
                    /\ WireNumbers' /\ AsksForUnseen' /\ Follows(conn)'
  BY DEF Ringing
<1>13. /\ seen <= Len(ring) /\ \A i \in 1 .. Len(ring) : i <= seen => Caught(i)
       /\ WireNumbers /\ Follows(conn)
  BY <1>1 DEF Ringing, Usual
<1>14. ring \in Seq(Ringable) /\ Len(ring) \in Nat /\ seen \in Nat /\ down \in Seq(Downs)
  BY <1>1, RingIsTyped
<1>15. PICK p \in 0 .. Len(ring) :
         /\ Mirrors(down, ring, p)
         /\ \A i \in 1 .. p : Caught(i)
         /\ wires[conn].alive /\ wires[conn].house = "seated" => p + Len(down) = Len(ring)
  BY <1>13 DEF Follows
<1>16. p \in Nat
  BY <1>14
<1>17. /\ Mirrors(Tail(down), ring, p + 1) /\ p + 1 \in 1 .. Len(ring)
       /\ ring[p + 1] = <<message[2], message[3]>> /\ message[1] < p + 1
       /\ Len(down) \in Nat /\ Len(Tail(down)) = Len(down) - 1
  <2>1. message = Head(down)
    OBVIOUS
  <2> HIDE DEF down, message
  <2> QED
    BY <1>1, <1>14, <1>15, <1>16, <2>1, MirrorsRest
<1>18. message[1] \in Nat
  <2>1. message \in Downs
    BY <1>1, <1>14, DownSequences
  <2> QED
    BY <2>1 DEF Downs
<1>19. \A i : Caught(i) => Caught(i)'
  BY <1>1, <1>11 DEF Caught
<1>20. Caught(p + 1)'
  <2>1. ring'[p + 1][1] = message[2] /\ ring'[p + 1][2] = message[3]
    BY <1>1, <1>17
  <2>2. CASE ready
    BY <2>1, <2>2 DEF Caught
  <2>3. CASE ~ready
    BY <1>12, <2>1, <2>3 DEF Caught
  <2> QED
    BY <2>2, <2>3
<1> HIDE DEF message, down
<1>21. \A i \in 1 .. p + 1 : Caught(i)'
  <2> SUFFICES ASSUME NEW i \in 1 .. p + 1 PROVE Caught(i)'
    OBVIOUS
  <2>1. i \in 1 .. p \/ i = p + 1
    BY <1>16
  <2> QED
    BY <1>15, <1>19, <1>20, <2>1
<1>22. seen' <= Len(ring) /\ (seen' = seen \/ seen' <= p + 1)
  BY <1>10, <1>13, <1>14, <1>16, <1>17, <1>18 DEF Larger
<1>23. \A i \in 1 .. Len(ring') : i <= seen' => Caught(i)'
  <2> SUFFICES ASSUME NEW i \in 1 .. Len(ring), i <= seen' PROVE Caught(i)'
    BY <1>1
  <2>1. CASE seen' = seen
    BY <1>13, <1>19, <2>1
  <2>2. CASE seen' <= p + 1
    <3>1. seen' \in Nat
      BY ReceivesTyped DEF TypeOK
    <3>2. i \in 1 .. p + 1
      BY <1>16, <2>2, <3>1
    <3> QED
      BY <1>21, <3>2
  <2> QED
    BY <1>22, <2>1, <2>2
<1>24. WireNumbers'
  BY <1>1, <1>6, <1>8, <1>13 DEF WireNumbers, SeatedNow
<1>25. AsksForUnseen'
  BY <1>1, <1>3, <1>6 DEF AsksForUnseen
<1>26. Follows(conn)'
  <2>1. wires[conn].alive /\ wires[conn].house = "seated" => (p + 1) + Len(Tail(down)) = Len(ring)
    <3>1. wires[conn].alive /\ wires[conn].house = "seated" => p + Len(down) = Len(ring)
      BY <1>15
    <3>2. \A m, n \in Nat : n = m - 1 => p + m = (p + 1) + n
      BY <1>16
    <3>3. Len(down) \in Nat /\ Len(Tail(down)) \in Nat /\ Len(Tail(down)) = Len(down) - 1
      <4>1. Tail(down) \in Seq(Downs)
        BY <1>1, <1>14, DownSequences
      <4>2. Len(Tail(down)) \in Nat
        <5> HIDE DEF Downs
        <5> QED
          BY <4>1
      <4> QED
        BY <1>17, <4>2
    <3> QED
      BY <3>1, <3>2, <3>3
  <2>2. p + 1 \in 0 .. Len(ring)
    BY <1>14, <1>17
  <2>3. /\ Mirrors(wires'[conn'].down, ring', p + 1)
        /\ wires'[conn'].alive /\ wires'[conn'].house = "seated"
             => (p + 1) + Len(wires'[conn'].down) = Len(ring')
    BY <1>1, <1>6, <1>8, <1>9, <1>17, <2>1
  <2> QED
    BY <1>1, <1>21, <2>2, <2>3 DEF Follows
<1> QED
  BY <1>1, <1>22, <1>23, <1>24, <1>25, <1>26

LEMMA Rest ==
  ASSUME NEW s \in Seq(Ringable), NEW q \in Nat
  PROVE  /\ Len(s) \in Nat
         /\ q <= Len(s) => /\ Len(SubSeq(s, q + 1, Len(s))) = Len(s) - q
                           /\ \A k \in 1 .. Len(s) - q : SubSeq(s, q + 1, Len(s))[k] = s[q + k]
         /\ q > Len(s) => Len(SubSeq(s, q + 1, Len(s))) = 0
<1> HIDE DEF Ringable
<1> QED
  OBVIOUS

(* What a being missed is the ring's end, from a place before which it has *)
(* seen all or the ring no longer reaches back.                            *)
LEMMA MissedEndsRing ==
  ASSUME TypeOK, NEW resume \in Nat
  PROVE  /\ Len(Missed(resume)) \in Nat /\ Len(Missed(resume)) <= Len(ring)
         /\ resume <= Len(ring) /\ (resume = 0 => ring = <<>>) =>
              \E p \in 0 .. Len(ring) :
                /\ Len(Missed(resume)) = Len(ring) - p
                /\ \A k \in 1 .. Len(ring) - p : Missed(resume)[k] = ring[p + k]
                /\ \A i \in 1 .. p : i <= resume \/ i + RingCap <= Len(ring)
<1> DEFINE lost == IF Len(ring) > RingCap THEN Len(ring) - RingCap ELSE 0
           q == Larger(resume, lost)
<1>1. ring \in Seq(Ringable) /\ Len(ring) \in Nat /\ RingCap \in Nat \ {0}
  BY RingIsTyped
<1>2. q \in Nat /\ resume <= q /\ lost <= Len(ring) /\ (q = resume \/ q = lost)
  BY <1>1 DEF Larger
<1>3. lost = 0 \/ lost = Len(ring) - RingCap
  OBVIOUS
<1>4. resume # 0 => Missed(resume) = SubSeq(ring, q + 1, Len(ring))
  BY DEF Missed
<1> HIDE DEF q
<1>5. CASE resume = 0
  <2>1. Missed(resume) = <<>> /\ Len(Missed(resume)) = 0
    BY <1>5 DEF Missed
  <2>2. ring = <<>> => Len(ring) = 0
    OBVIOUS
  <2>3. ring = <<>> => /\ Len(Missed(resume)) = Len(ring) - 0
                       /\ \A k \in 1 .. Len(ring) - 0 : Missed(resume)[k] = ring[0 + k]
                       /\ \A i \in 1 .. 0 : i <= resume \/ i + RingCap <= Len(ring)
    BY <2>1, <2>2
  <2>4. 0 \in 0 .. Len(ring)
    BY <1>1
  <2> QED
    BY <1>1, <1>5, <2>1, <2>3, <2>4
<1>6. CASE resume # 0
  <2>1. /\ q <= Len(ring) => /\ Len(Missed(resume)) = Len(ring) - q
                             /\ \A k \in 1 .. Len(ring) - q : Missed(resume)[k] = ring[q + k]
        /\ q > Len(ring) => Len(Missed(resume)) = 0
    BY <1>1, <1>2, <1>4, <1>6, Rest
  <2>2. Len(Missed(resume)) \in Nat /\ Len(Missed(resume)) <= Len(ring)
    <3>1. Len(ring) - q <= Len(ring) /\ (q <= Len(ring) => Len(ring) - q \in Nat) /\ 0 <= Len(ring)
      BY <1>1, <1>2
    <3>2. q <= Len(ring) \/ q > Len(ring)
      BY <1>1, <1>2
    <3> QED
      BY <2>1, <3>1, <3>2
  <2>3. ASSUME resume <= Len(ring)
        PROVE  /\ q \in 0 .. Len(ring)
               /\ \A i \in 1 .. q : i <= resume \/ i + RingCap <= Len(ring)
    BY <1>1, <1>2, <1>3, <2>3
  <2>4. ASSUME resume <= Len(ring)
        PROVE  \E p \in 0 .. Len(ring) :
                /\ Len(Missed(resume)) = Len(ring) - p
                /\ \A k \in 1 .. Len(ring) - p : Missed(resume)[k] = ring[p + k]
                /\ \A i \in 1 .. p : i <= resume \/ i + RingCap <= Len(ring)
    <3>1. q \in 0 .. Len(ring) /\ q <= Len(ring)
      BY <1>1, <1>2, <2>3, <2>4
    <3> QED
      BY <2>1, <2>3, <2>4, <3>1
  <2> QED
    BY <2>2, <2>4
<1> QED
  BY <1>5, <1>6

(* What becomes of a connection that is sent some messages.                *)
LEMMA SentFields ==
  ASSUME TypeOK, NEW c \in Slots, NEW messages
  PROVE  /\ Sent(c, messages).alive = wires[c].alive /\ Sent(c, messages).up = wires[c].up
         /\ Sent(c, messages).wire = wires[c].wire + Len(messages)
         /\ Sent(c, messages).down = IF wires[c].alive THEN wires[c].down \o Numbered(c, messages)
                                     ELSE wires[c].down
<1>1. wires[c] \in Wire
  BY DEF TypeOK
<1> HIDE DEF Numbered
<1> QED
  BY <1>1 DEF Sent, Wire

(* The ring grows by one, and what was given stays given.                  *)
LEMMA CaughtStays ==
  ASSUME TypeOK, NEW m \in Ringable, ring' = Append(ring, m), heard' = heard
  PROVE  /\ Len(ring') = Len(ring) + 1 /\ ring'[Len(ring) + 1] = m
         /\ \A i \in 1 .. Len(ring) : ring'[i] = ring[i] /\ (Caught(i) => Caught(i)')
<1>1. ring \in Seq(Ringable) /\ Len(ring) \in Nat /\ RingCap \in Nat \ {0}
  BY RingIsTyped
<1>2. /\ Len(ring') = Len(ring) + 1 /\ ring'[Len(ring) + 1] = m
      /\ \A i \in 1 .. Len(ring) : ring'[i] = ring[i]
  BY <1>1, Longer
<1>3. \A i \in 1 .. Len(ring) : i + RingCap > Len(ring') => i + RingCap > Len(ring)
  BY <1>1, <1>2
<1>4. \A i \in 1 .. Len(ring) : Caught(i) => Caught(i)'
  BY <1>2, <1>3 DEF Caught
<1> QED
  BY <1>2, <1>4

(* A connection that is left as it is, and is not seated and alive, still  *)
(* mirrors a ring that grows.                                              *)
LEMMA FollowsLonger ==
  ASSUME TypeOK, NEW m \in Ringable, ring' = Append(ring, m), heard' = heard, conn' = conn,
         conn \in Slots, Follows(conn),
         wires'[conn].down = wires[conn].down,
         ~(wires'[conn].alive /\ wires'[conn].house = "seated")
  PROVE  Follows(conn)'
<1>1. ring \in Seq(Ringable) /\ Len(ring) \in Nat /\ wires[conn].down \in Seq(Downs)
  BY RingIsTyped
<1>2. PICK p \in 0 .. Len(ring) : Mirrors(wires[conn].down, ring, p) /\ \A i \in 1 .. p : Caught(i)
  BY DEF Follows
<1>3. Len(ring') = Len(ring) + 1 /\ \A i \in 1 .. Len(ring) : Caught(i) => Caught(i)'
  BY CaughtStays
<1>4. p \in Nat /\ p \in 0 .. Len(ring') /\ \A i \in 1 .. p : i \in 1 .. Len(ring)
  BY <1>1, <1>3
<1>5. Mirrors(wires[conn].down, ring', p)
  BY <1>1, <1>2, <1>4, MirrorsLonger
<1>6. \A i \in 1 .. p : Caught(i)'
  BY <1>2, <1>3, <1>4
<1> QED
  BY <1>4, <1>5, <1>6 DEF Follows

(* The house seats a being: what it missed goes down, and seat.ready.      *)
LEMMA SeatKeepsRinging ==
  ASSUME TypeOK, SeatsAgree, Order, Ringing, NEW c \in Slots, HouseSeats(c)
  PROVE  Ringing'
<1> DEFINE resume == Head(wires[c].up)[2]
           missed == Missed(resume)
           told == Append(missed, <<"ready", 0>>)
           new == [Sent(c, told) EXCEPT !.house = "seated", !.up = Tail(Sent(c, told).up)]
           m == <<"ready", 0>>
<1>1. wires \in [Slots -> Wire] /\ wires[c].up \in Seq(Ups) /\ wires[c] \in Wire
  BY WireFields DEF TypeOK
<1>2. wires[c].house = "unread" /\ wires[c].down = <<>> /\ wires[c].up # <<>>
  BY DEF HouseSeats, Handshakes, Order, HandshakeFirst
<1>3. resume \in Nat /\ Head(wires[c].up) = wires[c].up[1]
  <2>1. Head(wires[c].up) \in Ups
    BY <1>1, <1>2, UpSequences
  <2>2. Head(wires[c].up) = wires[c].up[1]
    BY <1>1, <1>2
  <2> QED
    BY <2>1, <2>2 DEF Ups
<1>4. m \in Ringable
  BY DEF Ringable
<1>5. missed \in Seq(Ringable) /\ Len(missed) \in Nat /\ Len(missed) <= Len(ring)
  <2> HIDE DEF resume
  <2> QED
    BY <1>3, MissedIsTyped, MissedEndsRing
<1>6. /\ Len(told) = Len(missed) + 1 /\ told[Len(missed) + 1] = m
      /\ \A k \in 1 .. Len(missed) : told[k] = missed[k]
  <2> HIDE DEF missed, m
  <2> QED
    BY <1>4, <1>5, Longer DEF m
<1>7. wires' = [wires EXCEPT ![c] = new]
  BY Zenon DEF HouseSeats
<1>8. /\ new.alive = wires[c].alive /\ new.house = "seated"
      /\ new.wire = wires[c].wire + Len(told)
      /\ new.down = IF wires[c].alive THEN wires[c].down \o Numbered(c, told) ELSE wires[c].down
  <2> HIDE DEF told
  <2>1. Sent(c, told) \in [alive : {Sent(c, told).alive}, house : {Sent(c, told).house}, up : {Sent(c, told).up},
                           down : {Sent(c, told).down}, wire : {Sent(c, told).wire}]
    <3> HIDE DEF Numbered
    <3> QED
      BY <1>1 DEF Sent, Wire
  <2>2. /\ new.alive = Sent(c, told).alive /\ new.house = "seated"
        /\ new.wire = Sent(c, told).wire /\ new.down = Sent(c, told).down
    <3> DEFINE sentc == Sent(c, told)
    <3> HIDE DEF sentc
    <3> QED
      BY <2>1 DEF sentc
  <2> QED
    BY <2>2, SentFields
<1>9. /\ wires'[c] = new /\ \A d \in Slots : d # c => wires'[d] = wires[d]
  <2> HIDE DEF new
  <2> QED
    BY <1>1, <1>7
<1>10. UNCHANGED <<conn, seen, heard, restarts>> /\ ring' = Append(ring, m)
  BY DEF HouseSeats, client
<1> SUFFICES ASSUME Usual'
             PROVE  /\ seen' <= Len(ring') /\ \A i \in 1 .. Len(ring') : i <= seen' => Caught(i)'
                    /\ WireNumbers' /\ AsksForUnseen'
                    /\ conn' # None => Follows(conn)'
  BY DEF Ringing
<1>11. Usual /\ SeatedNow = {} /\ (resume = 0 => ring = <<>>)
  <2>1. was' = [was EXCEPT !.unresumed = (was.unresumed \/ (resume = 0 /\ ring # <<>>)),
                           !.twice = (was.twice \/ SeatedNow # {})]
    BY Zenon DEF HouseSeats
  <2>2. was \in Was
    BY DEF TypeOK
  <2> HIDE DEF resume
  <2>3. /\ was'.unresumed = (was.unresumed \/ (resume = 0 /\ ring # <<>>))
        /\ was'.twice = (was.twice \/ SeatedNow # {}) /\ was'.late = was.late
    <3>1. /\ "unresumed" \in DOMAIN was /\ "twice" \in DOMAIN was /\ "late" \in DOMAIN was
          /\ "unresumed" # "twice" /\ "late" # "unresumed" /\ "late" # "twice"
      BY <2>2 DEF Was
    <3> QED
      BY <2>1, <2>2, <3>1, Zenon DEF Was
  <2> QED
    BY <1>10, <2>3 DEF Usual
<1>12. /\ seen <= Len(ring) /\ \A i \in 1 .. Len(ring) : i <= seen => Caught(i)
       /\ WireNumbers /\ AsksForUnseen
       /\ conn # None => Follows(conn)
  BY <1>11 DEF Ringing
<1>13. /\ Len(ring') = Len(ring) + 1 /\ ring'[Len(ring) + 1] = m
       /\ \A i \in 1 .. Len(ring) : ring'[i] = ring[i] /\ (Caught(i) => Caught(i)')
  BY <1>4, <1>10, CaughtStays
<1>14. Len(ring) \in Nat /\ seen \in Nat /\ ring \in Seq(Ringable)
  BY RingIsTyped
<1> HIDE DEF new, told, missed, m, resume
<1>15. seen' <= Len(ring') /\ \A i \in 1 .. Len(ring') : i <= seen' => Caught(i)'
  <2>1. seen <= Len(ring) + 1 /\ \A i \in 1 .. Len(ring) + 1 : i <= seen => i \in 1 .. Len(ring)
    BY <1>12, <1>14
  <2> QED
    BY <1>10, <1>12, <1>13, <2>1
<1>16. wires[c].wire = 0
  BY <1>2, <1>12 DEF WireNumbers
<1>17. WireNumbers'
  <2>1. new.wire <= Len(ring')
    BY <1>5, <1>6, <1>8, <1>13, <1>14, <1>16
  <2>2. \A d \in Slots : wires'[d].house = "unread" => wires'[d].wire = 0
    BY <1>8, <1>9, <1>12 DEF WireNumbers
  <2>3. \A d \in Slots : wires'[d].house = "seated" => d = c
    BY <1>9, <1>11 DEF SeatedNow
  <2> QED
    BY <1>9, <2>1, <2>2, <2>3 DEF WireNumbers, SeatedNow
<1>18. AsksForUnseen'
  <2>1. conn' # None => conn' = conn /\ conn \in Slots
    BY <1>10 DEF TypeOK
  <2> QED
    BY <1>8, <1>9, <1>10, <1>12, <2>1 DEF AsksForUnseen
<1>19. ASSUME conn # None, conn # c PROVE Follows(conn)'
  <2>1. conn \in Slots /\ wires'[conn] = wires[conn] /\ wires[conn].house # "seated"
    BY <1>9, <1>11, <1>19 DEF TypeOK, SeatedNow
  <2> QED
    BY <1>4, <1>10, <1>12, <1>19, <2>1, FollowsLonger
<1>20. ASSUME conn # None, conn = c PROVE Follows(conn)'
  <2>1. resume = seen
    BY <1>2, <1>3, <1>12, <1>20 DEF AsksForUnseen, resume
  <2>2. PICK p \in 0 .. Len(ring) :
          /\ Len(missed) = Len(ring) - p
          /\ \A k \in 1 .. Len(ring) - p : missed[k] = ring[p + k]
          /\ \A i \in 1 .. p : i <= resume \/ i + RingCap <= Len(ring)
    BY <1>3, <1>11, <1>12, <2>1, MissedEndsRing DEF missed
  <2>3. p \in Nat /\ p <= Len(ring) /\ p \in 0 .. Len(ring') /\ RingCap \in Nat
    BY <1>13, <1>14, RingIsTyped
  <2>4. \A i \in 1 .. p : Caught(i)'
    <3> SUFFICES ASSUME NEW i \in 1 .. p PROVE Caught(i)'
      OBVIOUS
    <3>1. i \in 1 .. Len(ring)
      BY <1>14, <2>3
    <3>2. CASE i <= seen
      BY <1>12, <1>13, <3>1, <3>2
    <3>3. CASE i + RingCap <= Len(ring)
      <4>1. ~(i + RingCap > Len(ring'))
        BY <1>13, <1>14, <2>3, <3>3
      <4> QED
        BY <4>1 DEF Caught
    <3> QED
      BY <2>1, <2>2, <3>2, <3>3
  <2>5. CASE ~wires[c].alive
    <3>1. wires'[conn'].down = <<>> /\ ~wires'[conn'].alive
      BY <1>2, <1>8, <1>9, <1>10, <1>20, <2>5
    <3>2. Mirrors(<<>>, ring', p)
      BY <1>13, <1>14, <2>3 DEF Mirrors
    <3> QED
      BY <2>3, <2>4, <3>1, <3>2 DEF Follows
  <2>6. CASE wires[c].alive
    <3> DEFINE down == Numbered(c, told)
               l == Len(missed)
    <3>1. Len(told) = l + 1 /\ l \in Nat /\ p + (l + 1) = Len(ring')
      BY <1>5, <1>6, <1>13, <1>14, <2>2, <2>3
    <3>2. Len(down) = l + 1 /\ \A k \in 1 .. l + 1 : down[k] = <<k - 1, told[k][1], told[k][2]>>
      <4>1. \A k \in 1 .. l + 1 : 0 + k - 1 = k - 1
        BY <3>1
      <4>2. down = [k \in 1 .. l + 1 |-> <<k - 1, told[k][1], told[k][2]>>]
        BY <1>16, <3>1, <4>1 DEF Numbered
      <4> HIDE DEF down, l
      <4> QED
        BY <3>1, <4>2
    <3>3. ASSUME NEW k \in 1 .. l + 1 PROVE told[k] = ring'[p + k] /\ told[k] \in Ringable
      <4>1. CASE k \in 1 .. l
        <5>1. k \in 1 .. Len(ring) - p /\ p + k \in 1 .. Len(ring)
          BY <1>14, <2>2, <2>3, <3>1, <4>1
        <5>2. ring[p + k] \in Ringable
          BY <1>14, <5>1, RingSequences
        <5> QED
          BY <1>6, <1>13, <2>2, <4>1, <5>1, <5>2
      <4>2. CASE k = l + 1
        <5>1. p + k = Len(ring) + 1
          BY <1>13, <3>1, <4>2
        <5> QED
          BY <1>4, <1>6, <1>13, <4>2, <5>1
      <4> QED
        BY <3>1, <4>1, <4>2
    <3>4. ASSUME NEW k \in 1 .. l + 1
          PROVE ring'[p + k] = <<down[k][2], down[k][3]>> /\ down[k][1] < p + k
      <4>1. told[k] = <<told[k][1], told[k][2]>>
        BY <3>3 DEF Ringable
      <4>2. k - 1 < p + k
        BY <2>3, <3>1
      <4> HIDE DEF down
      <4> QED
        BY <3>2, <3>3, <4>1, <4>2
    <3>5. wires[c].down \o down = down
      <4>1. down \in Seq(Downs)
        <5>1. \A k \in 1 .. l + 1 : down[k] \in Downs
          <6> SUFFICES ASSUME NEW k \in 1 .. l + 1 PROVE down[k] \in Downs
            OBVIOUS
          <6>1. told[k] \in Ringable /\ k - 1 \in Nat
            BY <3>1, <3>3
          <6>2. down[k] = <<k - 1, told[k][1], told[k][2]>>
            BY <3>2
          <6>3. told[k][1] \in {"ready", "message"} /\ told[k][2] \in Nat
            BY <6>1 DEF Ringable
          <6> HIDE DEF down
          <6> QED
            BY <6>1, <6>2, <6>3 DEF Downs
        <5>2. down \in [1 .. l + 1 -> Downs]
          <6>1. down = [k \in 1 .. l + 1 |-> <<wires[c].wire + k - 1, told[k][1], told[k][2]>>]
            BY <3>1 DEF Numbered
          <6>2. \A k \in 1 .. l + 1 : <<wires[c].wire + k - 1, told[k][1], told[k][2]>> = down[k]
            BY <6>1
          <6> HIDE DEF down, Downs
          <6> QED
            BY <5>1, <6>1, <6>2
        <5> HIDE DEF down, Downs, l
        <5> QED
          BY <3>1, <5>2, ListIsSequence
      <4> HIDE DEF down, Downs
      <4> QED
        BY <1>2, <4>1
    <3>6. wires'[conn'].down = down
      BY <1>8, <1>9, <1>10, <1>20, <2>6, <3>5
    <3> HIDE DEF down
    <3>7. Mirrors(down, ring', p) /\ p + Len(down) = Len(ring')
      BY <1>13, <1>14, <3>1, <3>2, <3>4 DEF Mirrors
    <3> QED
      BY <2>3, <2>4, <3>6, <3>7 DEF Follows
  <2> QED
    BY <2>5, <2>6
<1> QED
  BY <1>10, <1>15, <1>17, <1>18, <1>19, <1>20

(* The house sends a message: with one room, it stands in the ring too.    *)
LEMMA DownKeepsRinging ==
  ASSUME Rooms = {HandshakeRoom}, TypeOK, SeatsAgree, Order, Ringing,
         NEW r \in Rooms, HouseSends(r)
  PROVE  Ringing'
<1> DEFINE m == <<"message", sent.down + 1>>
           s == seated[r]
           new == Sent(s, <<m>>)
<1>1. wires \in [Slots -> Wire] /\ s \in Slots /\ wires[s] \in Wire
  BY DEF HouseSends, TypeOK
<1>2. wires[s].house = "seated"
  BY DEF SeatsAgree, HouseSends
<1>3. m \in Ringable
  BY DEF TypeOK, Ringable
<1>4. UNCHANGED <<conn, seen, heard, restarts, was>> /\ ring' = Append(ring, m)
  BY DEF HouseSends, client, Ringed
<1>5. wires' = [wires EXCEPT ![s] = new]
  BY DEF HouseSends
<1> HIDE DEF s, m
<1>6. /\ new.alive = wires[s].alive /\ new.up = wires[s].up /\ new.house = wires[s].house
      /\ new.wire = wires[s].wire + 1
      /\ new.down = IF wires[s].alive THEN wires[s].down \o Numbered(s, <<m>>) ELSE wires[s].down
  <2>1. Len(<<m>>) = 1 /\ <<m>> \in Seq(Ringable)
    <3> HIDE DEF Ringable
    <3> QED
      BY <1>3
  <2> QED
    BY <1>1, <2>1, SentFields, SentIsTyped
<1> HIDE DEF new
<1>7. wires'[s] = new /\ \A d \in Slots : d # s => wires'[d] = wires[d]
  BY <1>1, <1>5
<1> SUFFICES ASSUME Usual'
             PROVE  /\ seen' <= Len(ring') /\ \A i \in 1 .. Len(ring') : i <= seen' => Caught(i)'
                    /\ WireNumbers' /\ AsksForUnseen'
                    /\ conn' # None => Follows(conn)'
  BY DEF Ringing
<1>8. Usual /\ ~was.twice
  BY <1>4 DEF Usual
<1>9. /\ seen <= Len(ring) /\ \A i \in 1 .. Len(ring) : i <= seen => Caught(i)
      /\ WireNumbers /\ AsksForUnseen
      /\ conn # None => Follows(conn)
  BY <1>8 DEF Ringing
<1>10. /\ Len(ring') = Len(ring) + 1 /\ ring'[Len(ring) + 1] = m
       /\ \A i \in 1 .. Len(ring) : ring'[i] = ring[i] /\ (Caught(i) => Caught(i)')
  BY <1>3, <1>4, CaughtStays
<1>11. /\ Len(ring) \in Nat /\ seen \in Nat /\ ring \in Seq(Ringable)
       /\ wires[s].wire \in Nat /\ wires[s].down \in Seq(Downs) /\ Len(wires[s].down) \in Nat
  BY <1>1, RingIsTyped
<1>12. seen' <= Len(ring') /\ \A i \in 1 .. Len(ring') : i <= seen' => Caught(i)'
  <2>1. seen <= Len(ring) + 1 /\ \A i \in 1 .. Len(ring) + 1 : i <= seen => i \in 1 .. Len(ring)
    BY <1>9, <1>11
  <2> QED
    BY <1>4, <1>9, <1>10, <2>1
<1>13. wires[s].wire <= Len(ring)
  BY <1>1, <1>2, <1>9 DEF WireNumbers, SeatedNow
<1>14. WireNumbers'
  <2>1. new.wire <= Len(ring')
    BY <1>6, <1>10, <1>11, <1>13
  <2>2. \A d \in Slots : wires'[d].house = "unread" => wires'[d].wire = 0
    BY <1>2, <1>6, <1>7, <1>9 DEF WireNumbers
  <2>3. ASSUME NEW d \in Slots, wires'[d].house = "seated" PROVE wires'[d].wire <= Len(ring')
    <3>1. CASE d = s
      BY <1>7, <2>1, <3>1
    <3>2. CASE d # s
      <4>1. wires[d].wire <= Len(ring) /\ wires[d].wire \in Nat
        BY <1>7, <1>9, <2>3, <3>2, RingIsTyped DEF WireNumbers, SeatedNow
      <4>2. wires[d].wire <= Len(ring')
        BY <1>10, <1>11, <4>1
      <4> QED
        BY <1>7, <3>2, <4>2
    <3> QED
      BY <3>1, <3>2
  <2> QED
    BY <2>2, <2>3 DEF WireNumbers, SeatedNow
<1>15. conn # None => conn \in Slots
  BY DEF TypeOK
<1>16. AsksForUnseen'
  BY <1>2, <1>4, <1>6, <1>7, <1>9, <1>15 DEF AsksForUnseen
<1>17. ASSUME conn # None, conn # s PROVE Follows(conn)'
  <2>1. wires'[conn] = wires[conn] /\ wires[conn].house # "seated"
    BY <1>1, <1>2, <1>7, <1>8, <1>15, <1>17 DEF Order, OneSeated
  <2> QED
    BY <1>3, <1>4, <1>9, <1>15, <1>17, <2>1, FollowsLonger
<1>18. ASSUME conn # None, conn = s, ~wires[s].alive PROVE Follows(conn)'
  <2>1. wires'[conn].down = wires[conn].down /\ ~wires'[conn].alive
    BY <1>6, <1>7, <1>18
  <2> QED
    BY <1>3, <1>4, <1>9, <1>15, <1>18, <2>1, FollowsLonger
<1>19. ASSUME conn # None, conn = s, wires[s].alive PROVE Follows(conn)'
  <2>1. PICK p \in 0 .. Len(ring) :
          /\ Mirrors(wires[s].down, ring, p) /\ \A i \in 1 .. p : Caught(i)
          /\ p + Len(wires[s].down) = Len(ring)
    BY <1>2, <1>9, <1>19 DEF Follows
  <2>2. p \in Nat /\ p \in 0 .. Len(ring') /\ \A i \in 1 .. p : i \in 1 .. Len(ring)
    BY <1>10, <1>11
  <2> DEFINE down == wires[s].down
             more == new.down
             l == Len(down)
             n == wires[s].wire
  <2>3. Len(more) = l + 1 /\ more[l + 1] = <<n, m[1], m[2]>> /\ \A k \in 1 .. l : more[k] = down[k]
    <3> DEFINE one == <<n, m[1], m[2]>>
    <3>1. Numbered(s, <<m>>) = <<one>>
      <4>1. Numbered(s, <<m>>) = [i \in 1 .. 1 |-> <<n + i - 1, <<m>>[i][1], <<m>>[i][2]>>]
        BY DEF Numbered
      <4>2. n + 1 - 1 = n
        BY <1>11
      <4> HIDE DEF n
      <4> QED
        BY <4>1, <4>2
    <3>2. one \in Downs
      BY <1>3, <1>11 DEF Downs, Ringable
    <3> HIDE DEF one, down, n, Downs
    <3>3. more = down \o <<one>>
      BY <1>6, <1>19, <3>1 DEF down
    <3> HIDE DEF more
    <3>4. down \in Seq(Downs)
      BY <1>11 DEF down
    <3> QED
      BY <3>2, <3>3, <3>4 DEF one
  <2> HIDE DEF down, more, n
  <2>4. Mirrors(more, ring', p) /\ p + Len(more) = Len(ring')
    <3>1. Mirrors(down, ring, p) /\ Len(down) \in Nat /\ p + Len(down) = Len(ring)
      BY <1>11, <2>1 DEF down
    <3>2. more[l + 1][1] < (l + 1) + p /\ more[l + 1][2] = m[1] /\ more[l + 1][3] = m[2]
      <4>1. n < (l + 1) + p
        BY <1>11, <1>13, <2>2, <3>1 DEF n
      <4> QED
        BY <2>3, <4>1
    <3> HIDE DEF Ringable
    <3>3. p \in Nat /\ ring \in Seq(Ringable) /\ m \in Ringable
      BY <1>3, <1>11, <2>2
    <3>4. Len(more) = Len(down) + 1 /\ \A k \in 1 .. Len(down) : more[k] = down[k]
      BY <2>3
    <3>5. Mirrors(more, Append(ring, m), p) /\ p + Len(more) = Len(Append(ring, m))
      BY <3>1, <3>2, <3>3, <3>4, MirrorsMore
    <3> QED
      BY <1>4, <3>5
  <2>5. wires'[conn'].down = more
    BY <1>4, <1>7, <1>19 DEF more
  <2>6. \A i \in 1 .. p : Caught(i)'
    BY <1>10, <2>1, <2>2
  <2> QED
    BY <2>2, <2>4, <2>5, <2>6 DEF Follows
<1> QED
  BY <1>4, <1>12, <1>14, <1>16, <1>17, <1>18, <1>19

LEMMA NextKeepsRinging ==
  ASSUME Rooms = {HandshakeRoom}, TypeOK, SeatsAgree, Order, Ringing, [Next]_vars
  PROVE  Ringing'
<1>1. ASSUME ClientSends \/ ClientReceives \/ ClientSeesClose \/ UNCHANGED vars PROVE Ringing'
  BY <1>1, QuietKeepsRinging, ReceiveKeepsRinging
<1>2. ASSUME NEW c \in Slots, ClientConnects(c) \/ HouseSide(c) \/ Break(c) PROVE Ringing'
  BY <1>2, ConnectKeepsRinging, SeatKeepsRinging, QuietKeepsRinging DEF HouseSide
<1>3. ASSUME NEW r \in Rooms, HouseSends(r) \/ OpenRoom(r) PROVE Ringing'
  BY <1>3, DownKeepsRinging, QuietKeepsRinging
<1>4. ASSUME NEW r \in Rooms, HouseSendsLate(r) PROVE Ringing'
  <2>1. was'.late
    BY <1>4 DEF HouseSendsLate, TypeOK, Was
  <2> QED
    BY <2>1 DEF Ringing, Usual
<1>5. ASSUME HouseRestarts PROVE Ringing'
  <2>1. restarts' # 0
    <3>1. restarts' = restarts + 1 /\ restarts \in Nat
      BY <1>5, Zenon DEF HouseRestarts, TypeOK
    <3> QED
      BY <3>1
  <2> QED
    BY <2>1 DEF Ringing, Usual
<1> QED
  BY <1>1, <1>2, <1>3, <1>4, <1>5 DEF Next

(* However often the being reconnects, a message of the one room is given  *)
(* to it or will be replayed: the ring's numbers and the wire's, which     *)
(* start over with each connection, never let it skip one.                 *)
THEOREM NothingIsSkipped ==
  ASSUME Rooms = {HandshakeRoom}
  PROVE  Spec => []NothingSkipped
<1>1. Init => Ringing
  <2> SUFFICES ASSUME Init PROVE Ringing
    OBVIOUS
  <2>1. ring = <<>> /\ seen = 0 /\ conn = None
    BY DEF Init
  <2>2. \A c \in Slots : wires[c].house = "left"
    BY DEF Init, Dead
  <2>3. WireNumbers
    BY <2>2 DEF WireNumbers, SeatedNow
  <2>4. seen <= Len(ring) /\ \A i \in 1 .. Len(ring) : i <= seen => Caught(i)
    BY <2>1
  <2> QED
    BY <2>1, <2>3, <2>4 DEF Ringing, AsksForUnseen
<1>2. TypeOK /\ SeatsAgree /\ Order /\ Ringing /\ [Next]_vars => Ringing'
  BY NextKeepsRinging
<1>3. Spec => []Ringing
  BY <1>1, <1>2, TypeCorrect, TablesAgree, OrderCorrect, PTL DEF Spec
<1>4. TypeOK /\ Ringing => NothingSkipped
  <2> SUFFICES ASSUME TypeOK, Ringing, Usual, NEW i \in 1 .. Len(ring),
                      ring[i][1] = "message", i + RingCap > Len(ring)
               PROVE  ring[i][2] \in heard.down \/ i > seen
    BY DEF NothingSkipped, Usual
  <2>1. i <= seen \/ i > seen
    BY RingIsTyped
  <2> QED
    BY <2>1 DEF Ringing, Caught
<1> QED
  BY <1>3, <1>4, TypeCorrect, PTL
=============================================================================
