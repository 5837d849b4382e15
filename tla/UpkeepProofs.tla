---------------------------- MODULE UpkeepProofs ----------------------------
(***************************************************************************)
(* What the room of a platform and the parts of MCUpkeep guarantee, for    *)
(* every value of their constants.  Of the room (PlatformRoom): each       *)
(* message is recorded and sent once, each account says what it may, and a *)
(* being's own words do not come back as a message.  Of the parts, each    *)
(* proved of the sum, whose others leave it alone: messages that are       *)
(* parked are kept and replayed in order (Park), a room's wakings are      *)
(* apart (Wakings), rooms, walkers and the sessions of the shell's tools   *)
(* are what they are recorded to be (Rooms, Walkers, ToolSessions).        *)
(***************************************************************************)
EXTENDS MCUpkeep, SequenceTheorems, FiniteSetTheorems, NaturalsInduction, TLAPS

-----------------------------------------------------------------------------
(* The room of a platform.                                                 *)

Posts == 1 .. Len(posts)
Frames == 1 .. Len(frames)

(* How a seat comes to say a frame: it is its being's own, or attached by  *)
(* the person, or the owner relays it.                                     *)
Voice(b, f) ==
  \/ f.by = b /\ f.kind \in {"speech", "media"}
  \/ f.kind = "media" /\ f.by = Human
  \/ f.kind \in {"message", "notice"} /\ b = Owner /\ f.src = 0

Relayable(f) == f.kind \in {"message", "notice"}

FramesSound ==
  /\ \A n \in Frames : frames[n].life <= life /\ frames[n].src \in 0 .. Len(posts)
  /\ \A n \in Frames : frames[n].kind = "message" => frames[n].src # 0 \/ frames[n].by = Human
  /\ \A n \in Frames : frames[n].kind = "notice" => frames[n].by = "house"
  /\ \A n \in Frames : frames[n].src # 0 => frames[n].kind = "message" /\ Recorded(frames[n].src)

RowsSound ==
  /\ consumed \subseteq rows
  /\ \A r \in rows : r.dir = "out" =>
       /\ r.seq \in Frames /\ r.by = frames[r.seq].by
       /\ frames[r.seq].kind = "message" => frames[r.seq].src = 0

CallsSound ==
  /\ \A c \in calls : c.seq # 0 =>
       /\ c.seq \in Frames /\ frames[c.seq].life = life /\ c.by = frames[c.seq].by
       /\ Voice(c.acct, frames[c.seq])
       /\ Relayable(frames[c.seq]) => Len(c.rest) = 1 /\ c.run = 0
       /\ (c.run = 0 => c.queue = <<>>) /\ c.rest # <<>>
  /\ \A c \in calls : \A k \in 1 .. Len(c.queue) :
       /\ c.queue[k] \in Frames /\ frames[c.queue[k]].by = c.acct
       /\ ~Relayable(frames[c.queue[k]])
  /\ \A c \in calls : c.seq = 0 => c.by = c.acct /\ c.run > 0 /\ c.queue # <<>> /\ c.at = 0
  /\ \A c, d \in calls : c.seq = d.seq /\ c.seq # 0 /\ Relayable(frames[c.seq]) => c = d

PostsSound ==
  /\ \A i \in OwnPosts : /\ posts[i].seq \in Frames /\ posts[i].life = FrameOf(i).life
                         /\ Voice(posts[i].acct, FrameOf(i))
  /\ \A i, j \in OwnPosts : posts[i].seq = posts[j].seq /\ Relayable(FrameOf(i)) => i = j
  /\ \A i \in OwnPosts : \A c \in calls : c.seq = posts[i].seq /\ Relayable(FrameOf(i)) => c.at # 0

(* What is said and can come back is still awaited.                        *)
Awaited(by, text) ==
  \/ <<by, text>> \in pending
  \/ \E j \in Posts : posts[j].acct = by /\ posts[j].text = text
EchoSound ==
  /\ \A c \in calls : /\ c.seq # 0 /\ c.at = 0 /\ c.run = 0 /\ frames[c.seq].kind = "speech"
                      => Awaited(c.acct, Head(c.rest))
  /\ \A i \in OwnPosts : /\ posts[i].run = 0 /\ FrameOf(i).kind = "speech" /\ posts[i].life = life
                         /\ ~Recorded(i)
                         => <<posts[i].acct, posts[i].text>> \in pending \/ SaidTwice(i)

PlatformSound ==
  /\ FramesSound /\ RowsSound /\ CallsSound /\ PostsSound /\ EchoSound
  /\ RecordedOnce /\ EchoIsNoMessage

Inv == TypeOK /\ PlatformSound

-----------------------------------------------------------------------------
(* Sequences and records.                                                  *)

(* An element is appended.                                                 *)
LEMMA Longer ==
  ASSUME NEW S, NEW s \in Seq(S), NEW e \in S
  PROVE  /\ Append(s, e) \in Seq(S) /\ Len(s) \in Nat /\ Len(Append(s, e)) = Len(s) + 1
         /\ Append(s, e)[Len(s) + 1] = e /\ \A i \in 1 .. Len(s) : Append(s, e)[i] = s[i]
OBVIOUS

(* What is in a sequence, first and later.                                 *)
LEMMA Elements ==
  ASSUME NEW S, NEW s \in Seq(S)
  PROVE  /\ Len(s) \in Nat /\ DOMAIN s = 1 .. Len(s) /\ \A i \in 1 .. Len(s) : s[i] \in S
         /\ s # <<>> => Head(s) = s[1] /\ Len(s) # 0 /\ Tail(s) \in Seq(S) /\ Len(Tail(s)) = Len(s) - 1
                        /\ \A i \in 1 .. Len(s) - 1 : Tail(s)[i] = s[i + 1]
OBVIOUS

(* A sequence of some length has a first element.                          *)
LEMMA NotEmpty ==
  ASSUME NEW S, NEW s \in Seq(S), Len(s) # 0
  PROVE  s # <<>> /\ Head(s) \in S
OBVIOUS

(* What is left of a sequence of several.                                  *)
LEMMA MoreToCome ==
  ASSUME NEW S, NEW s \in Seq(S), Len(s) > 1
  PROVE  Tail(s) \in Seq(S) /\ Tail(s) # <<>> /\ Head(Tail(s)) \in S
<1>1. Len(s) \in Nat /\ s # <<>>
  BY NotEmpty
<1>2. Tail(s) \in Seq(S) /\ Len(Tail(s)) = Len(s) - 1
  BY <1>1, Elements
<1>3. Len(Tail(s)) # 0
  BY <1>1, <1>2
<1> QED
  BY <1>2, <1>3, NotEmpty

(* The sequence of one element.                                            *)
LEMMA OneElement ==
  ASSUME NEW S, NEW e \in S
  PROVE  <<e>> \in Seq(S) \ {<<>>} /\ Len(<<e>>) = 1 /\ Head(<<e>>) = e /\ <<e>>[1] = e /\ Tail(<<e>>) = <<>>
OBVIOUS

(* A function on the first numbers is a sequence.                          *)
LEMMA ListIsSequence ==
  ASSUME NEW n \in Nat, NEW S, NEW f \in [1 .. n -> S]
  PROVE  f \in Seq(S) /\ Len(f) = n
OBVIOUS

(* The row of a send, and that of a redelivery.                            *)
Lost(id, by, seq, why)  == OutRow(id, by, seq, why, FALSE)
Retry(id, by, seq, why) == OutRow(id, by, seq, why, TRUE)

(* What an attachment says.                                                *)
LEMMA NoText == Media \in Seq(Text)
BY DEF Media

(* The fields of a row.                                                    *)
LEMMA RowFields ==
  /\ \A r \in ARow : r.dir \in {"in", "out"} /\ r.id \in Nat /\ r.by \in By /\ r.seq \in Nat
  /\ \A id \in Nat, by \in By, text \in Seq(Text) :
       InRow(id, by, text) \in ARow /\ InRow(id, by, text).id = id /\ InRow(id, by, text).dir = "in"
<1>1. \A r \in ARow : r.dir \in {"in", "out"} /\ r.id \in Nat /\ r.by \in By /\ r.seq \in Nat
  BY DEF ARow
<1>2. \A id \in Nat, by \in By, text \in Seq(Text) :
       InRow(id, by, text) \in ARow /\ InRow(id, by, text).id = id /\ InRow(id, by, text).dir = "in"
  BY DEF ARow, InRow, Reasons
<1> QED
  BY <1>1, <1>2

(* The row of a first send.                                                *)
LEMMA FirstRow ==
  ASSUME NEW id \in Nat, NEW by \in By, NEW seq \in Nat,
         NEW why \in Reasons
  PROVE  /\ Lost(id, by, seq, why) \in ARow /\ Lost(id, by, seq, why).dir = "out"
         /\ Lost(id, by, seq, why).id = id /\ Lost(id, by, seq, why).by = by
         /\ Lost(id, by, seq, why).seq = seq
<1>1. Media \in Seq(Text)
  BY NoText
<1>2. Lost(id, by, seq, why) \in ARow
  BY <1>1 DEF ARow, OutRow, Lost, Retry
<1> QED
  BY <1>2 DEF OutRow, Lost, Retry

(* The row of a redelivery.                                                *)
LEMMA RetryRow ==
  ASSUME NEW id \in Nat, NEW by \in By, NEW seq \in Nat,
         NEW why \in Reasons
  PROVE  /\ Retry(id, by, seq, why) \in ARow /\ Retry(id, by, seq, why).dir = "out"
         /\ Retry(id, by, seq, why).id = id /\ Retry(id, by, seq, why).by = by
         /\ Retry(id, by, seq, why).seq = seq
<1>1. Media \in Seq(Text)
  BY NoText
<1>2. Retry(id, by, seq, why) \in ARow
  BY <1>1 DEF ARow, OutRow, Lost, Retry
<1> QED
  BY <1>2 DEF OutRow, Lost, Retry

(* The fields of a call.                                                   *)
LEMMA CallFields ==
  ASSUME NEW c \in ACall
  PROVE  /\ c.acct \in Beings /\ c.run \in Nat /\ c.by \in By /\ c.seq \in Nat
         /\ c.rest \in Seq(Text) /\ c.queue \in Seq(Nat) /\ c.at \in Nat
BY DEF ACall

(* A call that goes on: its piece has been taken, the next is sent, or the *)
(* next of its queue.                                                      *)
LEMMA CallGoesOn ==
  ASSUME NEW c \in ACall
  PROVE  /\ \A at \in Nat :
              LET d == [c EXCEPT !.at = at] IN
              /\ d \in ACall /\ d.at = at /\ d.acct = c.acct /\ d.run = c.run /\ d.by = c.by
              /\ d.seq = c.seq /\ d.rest = c.rest /\ d.queue = c.queue
         /\ \A rest \in Seq(Text) :
              LET d == [c EXCEPT !.rest = rest, !.at = 0] IN
              /\ d \in ACall /\ d.at = 0 /\ d.acct = c.acct /\ d.run = c.run /\ d.by = c.by
              /\ d.seq = c.seq /\ d.rest = rest /\ d.queue = c.queue
<1>1. \A at \in Nat :
        LET d == [c EXCEPT !.at = at] IN
        /\ d \in ACall /\ d.at = at /\ d.acct = c.acct /\ d.run = c.run /\ d.by = c.by
        /\ d.seq = c.seq /\ d.rest = c.rest /\ d.queue = c.queue
  BY DEF ACall
<1>2. \A rest \in Seq(Text) :
        LET d == [c EXCEPT !.rest = rest, !.at = 0] IN
        /\ d \in ACall /\ d.at = 0 /\ d.acct = c.acct /\ d.run = c.run /\ d.by = c.by
        /\ d.seq = c.seq /\ d.rest = rest /\ d.queue = c.queue
  BY DEF ACall
<1> QED
  BY <1>1, <1>2

(* A redelivery sends the next of its items.                               *)
LEMMA ItemSent ==
  ASSUME NEW c \in ACall, NEW n \in Nat, NEW rest \in Seq(Text), NEW q \in Seq(Nat)
  PROVE  LET d == [acct |-> c.acct, run |-> c.run, by |-> c.by, seq |-> n,
                   rest |-> rest, queue |-> q, at |-> 0] IN
         /\ d \in ACall /\ d.at = 0 /\ d.acct = c.acct /\ d.run = c.run /\ d.by = c.by
         /\ d.seq = n /\ d.rest = rest /\ d.queue = q
BY CallFields DEF ACall

(* What a redelivery does between two items: nothing once none is left.    *)
LEMMA WorkerIs ==
  ASSUME NEW b \in Beings, NEW run \in Nat, NEW q \in Seq(Nat), Cast
  PROVE  /\ Worker(b, run, q) \subseteq ACall
         /\ \A c \in Worker(b, run, q) : /\ c.acct = b /\ c.run = run /\ c.by = b /\ c.seq = 0
                                         /\ c.queue = q /\ c.at = 0 /\ q # <<>>
<1> DEFINE w == [acct |-> b, run |-> run, by |-> b, seq |-> 0, rest |-> <<>>, queue |-> q, at |-> 0]
<1>1. b \in By /\ <<>> \in Seq(Text)
  BY DEF By
<1>2. w \in ACall
  BY <1>1 DEF ACall
<1>3. w.acct = b /\ w.run = run /\ w.by = b /\ w.seq = 0 /\ w.queue = q /\ w.at = 0
  OBVIOUS
<1>4. Worker(b, run, q) = IF q = <<>> THEN {} ELSE {w}
  BY DEF Worker
<1> HIDE DEF w
<1> QED
  BY <1>2, <1>3, <1>4

(* What a call of a frame says.                                            *)
LEMMA ChunksTyped ==
  ASSUME NEW f \in AFrame
  PROVE  /\ Chunks(f) \in Seq(Text) \ {<<>>}
         /\ f.kind = "message" \/ f.kind = "media" => Len(Chunks(f)) = 1
         /\ f.kind \in {"speech", "notice"} => Chunks(f) = f.text
<1>1. f.text \in Seq(Text) \ {<<>>} /\ f.text[1] \in Text
  BY DEF AFrame
<1>2. Relayed(f.text[1]) \in Text
  <2>1. "app" \in Words
    BY DEF Words
  <2>2. <<"app">> \in Seq(Words)
    BY <2>1, OneElement
  <2> QED
    BY <1>1, <2>2 DEF Relayed, Text
<1>3. Media \in Text
  BY DEF Media, Text
<1> HIDE DEF Text, Relayed, Media
<1>4. /\ <<Relayed(f.text[1])>> \in Seq(Text) \ {<<>>} /\ Len(<<Relayed(f.text[1])>>) = 1
      /\ <<Media>> \in Seq(Text) \ {<<>>} /\ Len(<<Media>>) = 1
  BY <1>2, <1>3, OneElement
<1> QED
  BY <1>1, <1>4 DEF Chunks

(* A frame's own fields.                                                   *)
LEMMA FrameFields ==
  /\ \A f \in AFrame : /\ f.kind \in Kinds /\ f.by \in By
                       /\ f.text \in Seq(Text) /\ f.text # <<>> /\ f.life \in Nat /\ f.src \in Nat
  /\ \A kind \in Kinds, by \in By, text \in Seq(Text) \ {<<>>},
        born \in Nat, src \in Nat :
       LET f == Frame(kind, by, text, born, src) IN
       f \in AFrame /\ f.kind = kind /\ f.by = by /\ f.text = text /\ f.life = born /\ f.src = src
BY DEF AFrame, Frame

(* A non-empty set of numbers has a least one.                             *)
LEMMA Least ==
  ASSUME NEW U, U \subseteq Nat, U # {}
  PROVE  \E n \in U : \A m \in U : n <= m
<1>1. IsWellFoundedOn(OpToRel(<, Nat), Nat)
  BY NatLessThanWellFounded
<1>2. PICK n \in U : \A m \in U : ~(<<m, n>> \in OpToRel(<, Nat))
  BY <1>1, WFMin
<1>3. \A m \in U : m < n => <<m, n>> \in OpToRel(<, Nat)
  BY DEF OpToRel
<1>4. \A m \in U : ~(m < n)
  BY <1>2, <1>3, Zenon
<1> QED
  BY <1>4

(* The call for a frame.                                                   *)
LEMMA CallIs ==
  ASSUME NEW b \in Beings, NEW f \in AFrame, NEW n \in Nat
  PROVE  /\ Call(b, f, n) \in ACall
         /\ Call(b, f, n).acct = b /\ Call(b, f, n).run = 0 /\ Call(b, f, n).by = f.by
         /\ Call(b, f, n).seq = n /\ Call(b, f, n).rest = Chunks(f)
         /\ Call(b, f, n).queue = <<>> /\ Call(b, f, n).at = 0
<1>1. Chunks(f) \in Seq(Text) /\ f.by \in By
  BY ChunksTyped, FrameFields
<1>2. <<>> \in Seq(Nat)
  OBVIOUS
<1> QED
  BY <1>1, <1>2 DEF Call, ACall

-----------------------------------------------------------------------------
(* A frame is appended.                                                    *)

(* What every handler that appends keeps to.                               *)
Fits(f, rs, U) ==
  /\ f \in AFrame /\ f.life <= life /\ f.src \in 0 .. Len(posts) /\ U \subseteq Beings
  /\ rs \subseteq ARow /\ rows \subseteq rs /\ \A r \in rs \ rows : r.dir = "in"
  /\ f.kind = "message" => f.src # 0 \/ f.by = Human
  /\ f.kind = "notice" => f.by = "house" /\ f.life = life /\ Len(f.text) = 1
  /\ f.src # 0 => /\ f.kind = "message" /\ InRow(f.src, f.by, f.text) \in rs \ rows
                  /\ \A n \in Frames : frames[n].src # f.src
  /\ f.src \in OwnPosts =>
       \/ FrameOf(f.src).kind # "speech" \/ posts[f.src].run > 0
       \/ SaidTwice(f.src) \/ f.life # posts[f.src].life

(* A frame that a seat sends out is one it may say.                        *)
LEMMA OnlyItsOwn ==
  ASSUME Cast, Inv, NEW f, NEW rs, NEW U, Fits(f, rs, U), NEW b \in U,
         GoesOut(b, f, Len(frames) + 1, rs)
  PROVE  /\ Voice(b, f) /\ f.src = 0
         /\ Relayable(f) => b = Owner /\ Len(Chunks(f)) = 1
         /\ ~Fenced(f) => f.life = life
<1>1. f \in AFrame /\ f.life <= life /\ life \in Nat /\ f.life \in Nat
  BY FrameFields DEF Fits, Inv, TypeOK
<1>2. f.kind = "message" => f.src = 0
  <2> SUFFICES ASSUME f.kind = "message", f.src # 0 PROVE FALSE
    OBVIOUS
  <2>1. Inbound(f, rs) = {}
    BY DEF GoesOut, Relays
  <2> DEFINE r == InRow(f.src, f.by, f.text)
  <2>2. r \in rs \ rows /\ consumed \subseteq rows
    BY DEF Fits, Inv, PlatformSound, RowsSound
  <2>3. r.dir = "in" /\ r.by = f.by /\ r.text = f.text
    BY DEF InRow
  <2> HIDE DEF r
  <2> QED
    BY <2>1, <2>2, <2>3 DEF Inbound
<1>3. f.src = 0
  BY <1>2 DEF Fits
<1>4. Voice(b, f)
  BY <1>3 DEF GoesOut, Voice
<1>5. ASSUME Relayable(f) PROVE b = Owner /\ Len(Chunks(f)) = 1
  <2>1. b = Owner
    BY <1>5 DEF GoesOut, Relayable
  <2>2. Len(Chunks(f)) = 1
    BY <1>1, <1>5, ChunksTyped DEF Relayable, Fits
  <2> QED
    BY <2>1, <2>2
<1>6. ~Fenced(f) => f.life = life
  BY <1>1 DEF Fenced, Stale, Fits
<1> QED
  BY <1>3, <1>4, <1>5, <1>6

(* Of the frame go rows that it was not sent, and calls that send it: each *)
(* by a seat that may say it.                                              *)
LEMMA WhatGoesOut ==
  ASSUME Cast, Inv, NEW f, NEW rs, NEW U, Fits(f, rs, U), Appends(f, rs, U)
  PROVE  /\ frames' = Append(frames, f)
         /\ rs \subseteq rows' /\ rows' \subseteq ARow
         /\ \A r \in rows' \ rs : /\ r.dir = "out" /\ r.seq = Len(frames) + 1 /\ r.by = f.by
                                  /\ f.src = 0
         /\ \E G \in SUBSET U :
              /\ calls' = calls \cup {Call(b, f, Len(frames) + 1) : b \in G}
              /\ \A b \in G : Voice(b, f) /\ f.src = 0 /\ f.life = life
              /\ Relayable(f) => G \subseteq {Owner} /\ \A b \in G : Len(Chunks(f)) = 1
              /\ G # {} /\ f.kind # "media" => <<f.by, Chunks(f)[1]>> \in pending'
         /\ pending \subseteq pending' /\ pending' \subseteq pending \cup {<<f.by, Chunks(f)[1]>>}
         /\ claims' \subseteq claims \cup {Len(frames) + 1}
<1> DEFINE n == Len(frames) + 1
           S == {b \in U : GoesOut(b, f, n, rs)}
<1>1. n \in Nat /\ f \in AFrame /\ f.by \in By /\ U \subseteq Beings
  BY Elements, FrameFields DEF Fits, Inv, TypeOK
<1>2. \A b \in S : /\ Voice(b, f) /\ f.src = 0
                   /\ Relayable(f) => b = Owner /\ Len(Chunks(f)) = 1
                   /\ ~Fenced(f) => f.life = life
  BY OnlyItsOwn
<1>3. /\ frames' = Append(frames, f) /\ Send(S, f, n, rs)
      /\ claims' = IF f.kind \in {"message", "notice"} /\ S # {} THEN claims \cup {n} ELSE claims
  BY DEF Appends
<1> HIDE DEF n
<1>4. PICK muted \in SUBSET S :
        LET refused == {b \in S : b \in muted \/ Fenced(f)}
            went    == S \ refused
            loss    == {b \in S : b \in refused \/ ~up[b]}
            Why(b)  == IF b \in refused THEN "refused" ELSE "not-ready"
        IN /\ rows' = rs \cup {Lost(0, f.by, n, Why(b)) : b \in loss}
           /\ calls' = calls \cup {Call(b, f, n) : b \in {c \in went : up[c]}}
           /\ pending' = IF went = {} \/ f.kind = "media" THEN pending
                         ELSE Register(pending, f.by, Chunks(f)[1])
  BY <1>3 DEF Send, Lost
<1> DEFINE refused == {b \in S : b \in muted \/ Fenced(f)}
           went    == S \ refused
           loss    == {b \in S : b \in refused \/ ~up[b]}
           Why(b)  == IF b \in refused THEN "refused" ELSE "not-ready"
           G       == {c \in went : up[c]}
<1>5. /\ rows' = rs \cup {Lost(0, f.by, n, Why(b)) : b \in loss}
      /\ calls' = calls \cup {Call(b, f, n) : b \in G}
      /\ pending' = IF went = {} \/ f.kind = "media" THEN pending
                    ELSE Register(pending, f.by, Chunks(f)[1])
  BY <1>4
<1>6. 0 \in Nat /\ \A b \in loss : b \in S /\ Why(b) \in Reasons
  BY DEF Reasons
<1>7. G \subseteq went /\ went \subseteq S /\ S \subseteq U /\ \A b \in went : ~Fenced(f)
  OBVIOUS
<1> HIDE DEF S, went, loss, Why, G, refused
<1>8. \A b \in loss : /\ Lost(0, f.by, n, Why(b)) \in ARow
                      /\ Lost(0, f.by, n, Why(b)).dir = "out"
                      /\ Lost(0, f.by, n, Why(b)).seq = n
                      /\ Lost(0, f.by, n, Why(b)).by = f.by
  <2> SUFFICES ASSUME NEW b \in loss
               PROVE  /\ Lost(0, f.by, n, Why(b)) \in ARow
                      /\ Lost(0, f.by, n, Why(b)).dir = "out"
                      /\ Lost(0, f.by, n, Why(b)).seq = n
                      /\ Lost(0, f.by, n, Why(b)).by = f.by
    OBVIOUS
  <2> DEFINE why == Why(b)
  <2>1. why \in Reasons
    BY <1>6
  <2> HIDE DEF why
  <2>2. /\ Lost(0, f.by, n, why) \in ARow /\ Lost(0, f.by, n, why).dir = "out"
        /\ Lost(0, f.by, n, why).seq = n /\ Lost(0, f.by, n, why).by = f.by
    <3>1. 0 \in Nat /\ f.by \in By /\ n \in Nat
      BY <1>1
    <3> QED
      BY <2>1, <3>1, FirstRow
  <2> QED
    BY <2>2 DEF why
<1>9. rs \subseteq ARow
  BY DEF Fits
<1>10. /\ rs \subseteq rows' /\ rows' \subseteq ARow
       /\ \A r \in rows' \ rs : r.dir = "out" /\ r.seq = n /\ r.by = f.by /\ f.src = 0
  BY <1>2, <1>5, <1>6, <1>8, <1>9
<1>11. /\ pending \subseteq pending' /\ pending' \subseteq pending \cup {<<f.by, Chunks(f)[1]>>}
       /\ G # {} /\ f.kind # "media" => <<f.by, Chunks(f)[1]>> \in pending'
  BY <1>5, <1>7 DEF Register
<1>12. G \in SUBSET U /\ \A b \in G : Voice(b, f) /\ f.src = 0 /\ f.life = life
  BY <1>2, <1>7
<1>13. Relayable(f) => G \subseteq {Owner} /\ \A b \in G : Len(Chunks(f)) = 1
  BY <1>2, <1>7
<1>14. claims' \subseteq claims \cup {n}
  BY <1>3
<1>15. \E H \in SUBSET U :
         /\ calls' = calls \cup {Call(b, f, n) : b \in H}
         /\ \A b \in H : Voice(b, f) /\ f.src = 0 /\ f.life = life
         /\ Relayable(f) => H \subseteq {Owner} /\ \A b \in H : Len(Chunks(f)) = 1
         /\ H # {} /\ f.kind # "media" => <<f.by, Chunks(f)[1]>> \in pending'
  BY <1>5, <1>11, <1>12, <1>13
<1> QED
  BY <1>3, <1>10, <1>11, <1>14, <1>15 DEF n

(* The record, the sidecar and the calls are typed as before.              *)
LEMMA AppendsTyped ==
  ASSUME Cast, Inv, NEW f, NEW rs, NEW U, Fits(f, rs, U), Appends(f, rs, U)
  PROVE  /\ frames' \in Seq(AFrame) /\ rows' \subseteq ARow /\ calls' \subseteq ACall
         /\ claims' \subseteq DOMAIN frames' /\ pending' \subseteq By \X Text
         /\ consumed' \subseteq rows'
         /\ Len(frames) \in Nat /\ Len(frames') = Len(frames) + 1
         /\ frames'[Len(frames) + 1] = f /\ \A i \in Frames : frames'[i] = frames[i]
<1> DEFINE n == Len(frames) + 1
<1>1. /\ f \in AFrame /\ frames \in Seq(AFrame) /\ U \subseteq Beings /\ claims \subseteq DOMAIN frames
      /\ calls \subseteq ACall /\ pending \subseteq By \X Text /\ consumed \subseteq rows
      /\ rows \subseteq rs /\ rs \subseteq ARow
  BY DEF Fits, Inv, TypeOK
<1>2. /\ frames' = Append(frames, f) /\ rs \subseteq rows' /\ rows' \subseteq ARow
      /\ pending' \subseteq pending \cup {<<f.by, Chunks(f)[1]>>}
      /\ claims' \subseteq claims \cup {n}
  BY WhatGoesOut
<1>3. PICK G \in SUBSET U :
        /\ calls' = calls \cup {Call(b, f, n) : b \in G}
        /\ \A b \in G : Voice(b, f) /\ f.src = 0 /\ f.life = life
        /\ Relayable(f) => G \subseteq {Owner} /\ \A b \in G : Len(Chunks(f)) = 1
        /\ G # {} /\ f.kind # "media" => <<f.by, Chunks(f)[1]>> \in pending'
  BY WhatGoesOut
<1>4. /\ frames' \in Seq(AFrame) /\ Len(frames) \in Nat /\ Len(frames') = n
      /\ frames'[n] = f /\ \A i \in Frames : frames'[i] = frames[i]
  BY <1>1, <1>2, Longer DEF Frames
<1>5. claims' \subseteq DOMAIN frames'
  <2>1. DOMAIN frames = 1 .. Len(frames) /\ DOMAIN frames' = 1 .. n
    BY <1>1, <1>4, Elements
  <2> QED
    BY <1>1, <1>2, <1>4, <2>1
<1>6. calls' \subseteq ACall
  <2>1. n \in Nat /\ \A b \in G : b \in Beings
    BY <1>1, <1>4
  <2>2. \A b \in G : Call(b, f, n) \in ACall
    BY <1>1, <2>1, CallIs
  <2> QED
    BY <1>1, <1>3, <2>2
<1>7. pending' \subseteq By \X Text
  <2>1. f.by \in By /\ Chunks(f) \in Seq(Text) /\ Chunks(f) # <<>>
    BY <1>1, FrameFields, ChunksTyped
  <2>2. Chunks(f)[1] \in Text
    BY <2>1
  <2> QED
    BY <1>1, <1>2, <2>1, <2>2
<1>8. consumed' \subseteq rows'
  <2> DEFINE hits == Inbound(f, rs)
             r0   == CHOOSE r \in hits : \A s \in hits : r.id <= s.id
  <2>1. consumed' \subseteq consumed \/ (hits # {} /\ consumed' \subseteq consumed \cup {r0})
    BY DEF Appends
  <2>2. hits \subseteq rs
    BY DEF Inbound
  <2>3. ASSUME hits # {} PROVE r0 \in hits
    <3> HIDE DEF hits
    <3> DEFINE ids == {r.id : r \in hits}
    <3>1. ids \subseteq Nat /\ ids # {}
      BY <1>1, <2>2, <2>3, RowFields
    <3>2. PICK m \in ids : \A k \in ids : m <= k
      BY <3>1, Least
    <3>3. PICK r \in hits : r.id = m
      BY <3>2
    <3>4. \A s \in hits : r.id <= s.id
      BY <3>2, <3>3
    <3> QED
      BY <3>3, <3>4
  <2> HIDE DEF hits, r0
  <2> QED
    BY <1>1, <1>2, <2>1, <2>2, <2>3
<1> QED
  BY <1>2, <1>4, <1>5, <1>6, <1>7, <1>8

(* And the record and what was sent of it stay in keeping.                 *)
LEMMA AppendsSound ==
  ASSUME Cast, Inv, NEW f, NEW rs, NEW U, Fits(f, rs, U), Appends(f, rs, U),
         posts' = posts, life' = life
  PROVE  PlatformSound'
<1> DEFINE n == Len(frames) + 1
<1>1. /\ f \in AFrame /\ rows \subseteq rs /\ frames \in Seq(AFrame) /\ posts \in Seq(APost)
      /\ rows \subseteq ARow /\ calls \subseteq ACall /\ life \in Nat
  BY DEF Fits, Inv, TypeOK
<1>2. /\ rs \subseteq rows'
      /\ \A r \in rows' \ rs : r.dir = "out" /\ r.seq = n /\ r.by = f.by /\ f.src = 0
      /\ pending \subseteq pending'
  BY WhatGoesOut
<1>3. PICK G \in SUBSET U :
        /\ calls' = calls \cup {Call(b, f, n) : b \in G}
        /\ \A b \in G : Voice(b, f) /\ f.src = 0 /\ f.life = life
        /\ Relayable(f) => G \subseteq {Owner} /\ \A b \in G : Len(Chunks(f)) = 1
        /\ G # {} /\ f.kind # "media" => <<f.by, Chunks(f)[1]>> \in pending'
  BY WhatGoesOut
<1>4. /\ Len(frames) \in Nat /\ Len(frames') = n /\ frames'[n] = f
      /\ \A i \in Frames : frames'[i] = frames[i]
      /\ consumed' \subseteq rows'
  BY AppendsTyped
<1>5. /\ n \notin Frames /\ Frames \subseteq Frames' /\ n \in Frames'
      /\ \A i \in Frames' : i \in Frames \/ i = n
  BY <1>4 DEF Frames
<1>6. /\ \A b \in G : b \in Beings /\ Call(b, f, n) \in ACall
      /\ \A b \in G : /\ Call(b, f, n).acct = b /\ Call(b, f, n).run = 0 /\ Call(b, f, n).by = f.by
                      /\ Call(b, f, n).seq = n /\ Call(b, f, n).rest = Chunks(f)
                      /\ Call(b, f, n).queue = <<>> /\ Call(b, f, n).at = 0
  <2>1. \A b \in G : b \in Beings
    BY DEF Fits
  <2>2. n \in Nat
    BY <1>4
  <2> QED
    BY <1>1, <2>1, <2>2, CallIs
<1>7. OwnPosts' = OwnPosts /\ Posts' = Posts /\ DOMAIN posts = Posts /\ OwnPosts \subseteq Posts
  BY <1>1, Elements DEF OwnPosts, Posts
<1>8. \A id : Recorded(id) => Recorded(id)'
  BY <1>1, <1>2 DEF Recorded
<1> HIDE DEF n
<1>9. \A c \in calls' : c \in calls \/ \E b \in G : c = Call(b, f, n)
  BY <1>3
<1>10. FramesSound'
  <2>1. Len(posts') = Len(posts) /\ life' = life
    OBVIOUS
  <2>2. f.src # 0 => Recorded(f.src)'
    <3> SUFFICES ASSUME f.src # 0 PROVE Recorded(f.src)'
      OBVIOUS
    <3>1. InRow(f.src, f.by, f.text) \in rows'
      BY <1>2 DEF Fits
    <3> QED
      BY <3>1 DEF Recorded, InRow
  <2>3. FramesSound
    BY DEF Inv, PlatformSound
  <2>4. \A i \in Frames' : frames'[i].life <= life' /\ frames'[i].src \in 0 .. Len(posts')
    BY <1>4, <1>5, <2>1, <2>3 DEF FramesSound, Fits
  <2>5. \A i \in Frames' : frames'[i].kind = "message" => frames'[i].src # 0 \/ frames'[i].by = Human
    BY <1>4, <1>5, <2>3 DEF FramesSound, Fits
  <2>6. \A i \in Frames' : frames'[i].kind = "notice" => frames'[i].by = "house"
    BY <1>4, <1>5, <2>3 DEF FramesSound, Fits
  <2>7. ASSUME NEW i \in Frames', frames'[i].src # 0
        PROVE  frames'[i].kind = "message" /\ \E r \in rows' : r.id = frames'[i].src
    <3>1. CASE i \in Frames
      <4>1. frames[i].kind = "message" /\ Recorded(frames[i].src) /\ frames'[i] = frames[i]
        BY <1>4, <2>3, <2>7, <3>1 DEF FramesSound
      <4> QED
        BY <4>1, <1>1, <1>2 DEF Recorded
    <3>2. CASE i = n
      <4>1. frames'[i] = f /\ f.src # 0 /\ f.kind = "message"
        BY <1>4, <2>7, <3>2 DEF Fits
      <4> QED
        BY <4>1, <2>2 DEF Recorded
    <3> QED
      BY <1>5, <3>1, <3>2
  <2> QED
    BY <2>4, <2>5, <2>6, <2>7 DEF FramesSound, Recorded
<1>11. RowsSound'
  <2>1. RowsSound /\ \A r \in rs \ rows : r.dir = "in"
    BY DEF Inv, PlatformSound, Fits
  <2>2. ASSUME NEW r \in rows', r.dir = "out"
        PROVE  /\ r.seq \in Frames' /\ r.by = frames'[r.seq].by
               /\ frames'[r.seq].kind = "message" => frames'[r.seq].src = 0
    <3>1. CASE r \in rows
      BY <1>4, <1>5, <2>1, <2>2, <3>1 DEF RowsSound
    <3>2. CASE r \in rs \ rows
      BY <2>1, <2>2, <3>2
    <3>3. CASE r \notin rs
      BY <1>2, <1>4, <1>5, <3>3
    <3> QED
      BY <3>1, <3>2, <3>3
  <2> QED
    BY <1>4, <2>2 DEF RowsSound
<1>12. CallsSound'
  <2>1. CallsSound
    BY DEF Inv, PlatformSound
  <2>2. ASSUME NEW c \in calls', c.seq # 0
        PROVE  /\ c.seq \in Frames' /\ frames'[c.seq].life = life' /\ c.by = frames'[c.seq].by
               /\ Voice(c.acct, frames'[c.seq])
               /\ Relayable(frames'[c.seq]) => Len(c.rest) = 1 /\ c.run = 0
               /\ (c.run = 0 => c.queue = <<>>) /\ c.rest # <<>>
    <3>1. CASE c \in calls
      <4>1. /\ c.seq \in Frames /\ frames[c.seq].life = life /\ c.by = frames[c.seq].by
            /\ Voice(c.acct, frames[c.seq])
            /\ Relayable(frames[c.seq]) => Len(c.rest) = 1 /\ c.run = 0
            /\ (c.run = 0 => c.queue = <<>>) /\ c.rest # <<>>
        BY <2>1, <2>2, <3>1 DEF CallsSound
      <4> QED
        BY <1>4, <1>5, <4>1
    <3>2. ASSUME NEW b \in G, c = Call(b, f, n)
          PROVE  /\ c.seq \in Frames' /\ frames'[c.seq].life = life' /\ c.by = frames'[c.seq].by
                 /\ Voice(c.acct, frames'[c.seq])
                 /\ Relayable(frames'[c.seq]) => Len(c.rest) = 1 /\ c.run = 0
                 /\ (c.run = 0 => c.queue = <<>>) /\ c.rest # <<>>
      <4>1. c.seq = n /\ c.by = f.by /\ c.acct = b /\ c.run = 0 /\ c.queue = <<>> /\ c.rest = Chunks(f)
        BY <1>6, <3>2
      <4>2. Voice(b, f) /\ f.life = life /\ (Relayable(f) => Len(Chunks(f)) = 1)
        BY <1>3
      <4>3. Chunks(f) # <<>>
        BY <1>1, ChunksTyped
      <4> QED
        BY <1>4, <1>5, <4>1, <4>2, <4>3
    <3> QED
      BY <1>9, <2>2, <3>1, <3>2
  <2>3. ASSUME NEW c \in calls', NEW k \in 1 .. Len(c.queue)
        PROVE  /\ c.queue[k] \in Frames' /\ frames'[c.queue[k]].by = c.acct
               /\ ~Relayable(frames'[c.queue[k]])
    <3>1. c \in calls
      <4> SUFFICES ASSUME NEW b \in G, c = Call(b, f, n) PROVE FALSE
        BY <1>9
      <4>1. c.queue = <<>>
        BY <1>6
      <4> QED
        BY <2>3, <4>1
    <3>2. c.queue[k] \in Frames /\ frames[c.queue[k]].by = c.acct /\ ~Relayable(frames[c.queue[k]])
      BY <2>1, <3>1 DEF CallsSound
    <3> QED
      BY <1>4, <1>5, <3>2
  <2>4. ASSUME NEW c \in calls', c.seq = 0 PROVE c.by = c.acct /\ c.run > 0 /\ c.queue # <<>> /\ c.at = 0
    <3>1. c \in calls
      <4> SUFFICES ASSUME NEW b \in G, c = Call(b, f, n) PROVE FALSE
        BY <1>9
      <4>1. c.seq = n
        BY <1>6
      <4> QED
        BY <1>4, <2>4, <4>1 DEF n
    <3> QED
      BY <2>1, <2>4, <3>1 DEF CallsSound
  <2>5. ASSUME NEW c \in calls', NEW d \in calls',
               c.seq = d.seq /\ c.seq # 0 /\ Relayable(frames'[c.seq])
        PROVE  c = d
    <3>1. CASE c \in calls /\ d \in calls
      <4>1. c.seq \in Frames
        BY <2>1, <2>5, <3>1 DEF CallsSound
      <4>2. Relayable(frames[c.seq])
        BY <1>4, <2>5, <4>1
      <4> QED
        BY <2>1, <2>5, <3>1, <4>2 DEF CallsSound
    <3>2. ASSUME NEW a \in calls, NEW b \in G, a.seq = n PROVE FALSE
      <4>1. a.seq # 0
        BY <1>4, <3>2 DEF n
      <4>2. a.seq \in Frames
        BY <2>1, <4>1 DEF CallsSound
      <4> QED
        BY <1>5, <3>2, <4>2
    <3>3. ASSUME NEW a \in G, NEW b \in G, c = Call(a, f, n), d = Call(b, f, n)
          PROVE  c = d
      <4>1. frames'[c.seq] = f
        BY <1>4, <1>6, <3>3
      <4>2. a = Owner /\ b = Owner
        BY <1>3, <2>5, <4>1
      <4> QED
        BY <3>3, <4>2
    <3>4. \A b \in G : Call(b, f, n).seq = n
      BY <1>6
    <3> QED
      BY <1>9, <2>5, <3>1, <3>2, <3>3, <3>4
  <2> QED
    BY <2>2, <2>3, <2>4, <2>5 DEF CallsSound
<1>13. PostsSound'
  <2>1. PostsSound
    BY DEF Inv, PlatformSound
  <2>2. \A i \in OwnPosts : posts[i].seq \in Frames /\ FrameOf(i)' = FrameOf(i)
    BY <1>4, <2>1 DEF PostsSound, FrameOf
  <2>3. \A i \in OwnPosts' : /\ posts'[i].seq \in Frames' /\ posts'[i].life = FrameOf(i)'.life
                             /\ Voice(posts'[i].acct, FrameOf(i)')
    BY <1>5, <1>7, <2>1, <2>2 DEF PostsSound
  <2>4. \A i, j \in OwnPosts' : posts'[i].seq = posts'[j].seq /\ Relayable(FrameOf(i)') => i = j
    BY <1>7, <2>1, <2>2 DEF PostsSound
  <2>5. ASSUME NEW i \in OwnPosts', NEW c \in calls', c.seq = posts'[i].seq, Relayable(FrameOf(i)')
        PROVE  c.at # 0
    <3>1. i \in OwnPosts /\ posts[i].seq \in Frames /\ Relayable(FrameOf(i))
      BY <1>7, <2>2, <2>5
    <3>2. c \in calls
      BY <1>5, <1>6, <1>9, <2>5, <3>1
    <3> QED
      BY <2>1, <2>5, <3>1, <3>2 DEF PostsSound
  <2> QED
    BY <2>3, <2>4, <2>5 DEF PostsSound
<1>14. EchoSound'
  <2>1. EchoSound /\ CallsSound /\ PostsSound
    BY DEF Inv, PlatformSound
  <2>2. ASSUME NEW c \in calls', c.seq # 0 /\ c.at = 0 /\ c.run = 0 /\ frames'[c.seq].kind = "speech"
        PROVE  Awaited(c.acct, Head(c.rest))'
    <3>1. CASE c \in calls
      <4>1. c.seq \in Frames
        BY <2>1, <2>2, <3>1 DEF CallsSound
      <4>2. Awaited(c.acct, Head(c.rest))
        BY <1>4, <2>1, <2>2, <3>1, <4>1 DEF EchoSound
      <4> QED
        BY <1>2, <4>2 DEF Awaited, Posts
    <3>2. ASSUME NEW b \in G, c = Call(b, f, n) PROVE Awaited(c.acct, Head(c.rest))'
      <4>1. c.acct = b /\ c.rest = Chunks(f) /\ c.seq = n
        BY <1>6, <3>2
      <4>2. f.kind = "speech" /\ Voice(b, f)
        BY <1>3, <1>4, <2>2, <4>1
      <4>3. f.by = b /\ <<f.by, Chunks(f)[1]>> \in pending'
        BY <1>3, <4>2 DEF Voice
      <4>4. Head(Chunks(f)) = Chunks(f)[1]
        BY <1>1, ChunksTyped
      <4> QED
        BY <4>1, <4>3, <4>4 DEF Awaited
    <3> QED
      BY <1>9, <3>1, <3>2
  <2>3. ASSUME NEW i \in OwnPosts', posts'[i].run = 0, FrameOf(i)'.kind = "speech",
               posts'[i].life = life', ~Recorded(i)'
        PROVE  <<posts'[i].acct, posts'[i].text>> \in pending' \/ SaidTwice(i)'
    <3>1. i \in OwnPosts /\ posts[i].seq \in Frames
      BY <1>7, <2>1 DEF PostsSound
    <3>2. FrameOf(i)' = FrameOf(i)
      BY <1>4, <3>1 DEF FrameOf
    <3>3. ~Recorded(i)
      BY <1>1, <1>2, <2>3 DEF Recorded
    <3>4. <<posts[i].acct, posts[i].text>> \in pending \/ SaidTwice(i)
      BY <2>1, <2>3, <3>1, <3>2, <3>3 DEF EchoSound
    <3> QED
      BY <1>2, <3>4 DEF SaidTwice
  <2> QED
    BY <2>2, <2>3 DEF EchoSound
<1>15. RecordedOnce'
  <2>1. RecordedOnce /\ (f.src # 0 => \A i \in Frames : frames[i].src # f.src)
    BY DEF Inv, PlatformSound, Fits
  <2>2. DOMAIN frames = Frames /\ DOMAIN frames' = Frames'
    BY <1>1, AppendsTyped, Elements DEF Frames
  <2> QED
    BY <1>4, <1>5, <2>1, <2>2 DEF RecordedOnce
<1>16. EchoIsNoMessage'
  <2>1. EchoIsNoMessage /\ PostsSound
    BY DEF Inv, PlatformSound
  <2>2. DOMAIN frames = Frames /\ DOMAIN frames' = Frames'
    BY <1>1, AppendsTyped, Elements DEF Frames
  <2>3. ASSUME NEW i \in OwnPosts PROVE FrameOf(i)' = FrameOf(i) /\ SaidTwice(i)' = SaidTwice(i)
    BY <1>4, <2>1 DEF PostsSound, FrameOf, SaidTwice
  <2>4. ASSUME NEW k \in DOMAIN frames', NEW id \in OwnPosts', id = frames'[k].src
        PROVE  \/ FrameOf(id)'.kind # "speech" \/ posts'[id].run > 0
               \/ SaidTwice(id)' \/ frames'[k].life # posts'[id].life
    <3>1. CASE k \in Frames
      <4>1. frames'[k] = frames[k] /\ id = frames[k].src /\ id \in OwnPosts
        BY <1>4, <1>7, <2>4, <3>1
      <4>2. \/ FrameOf(id).kind # "speech" \/ posts[id].run > 0
            \/ SaidTwice(id) \/ frames[k].life # posts[id].life
        BY <2>1, <2>2, <3>1, <4>1 DEF EchoIsNoMessage
      <4> QED
        BY <2>3, <4>1, <4>2
    <3>2. CASE k = n
      <4>1. frames'[k] = f /\ id = f.src /\ id \in OwnPosts
        BY <1>4, <1>7, <2>4, <3>2
      <4>2. \/ FrameOf(id).kind # "speech" \/ posts[id].run > 0
            \/ SaidTwice(id) \/ f.life # posts[id].life
        BY <4>1 DEF Fits
      <4> QED
        BY <2>3, <4>1, <4>2
    <3> QED
      BY <1>5, <2>2, <2>4, <3>1, <3>2
  <2> QED
    BY <2>4 DEF EchoIsNoMessage, SaidTwice, FrameOf
<1> QED
  BY <1>10, <1>11, <1>12, <1>13, <1>14, <1>15, <1>16 DEF PlatformSound

(* A handler that appends a frame and tells the platform nothing.          *)
LEMMA AppendsKeep ==
  ASSUME Cast, Inv, NEW f, NEW rs, NEW U, Fits(f, rs, U), Appends(f, rs, U),
         UNCHANGED <<posts, up, wasReady, life, flips>>,
         inbox' \in [Beings -> SUBSET DOMAIN posts], tails' \subseteq Beings
  PROVE  Inv'
<1>1. /\ frames' \in Seq(AFrame) /\ rows' \subseteq ARow /\ calls' \subseteq ACall
      /\ claims' \subseteq DOMAIN frames' /\ pending' \subseteq By \X Text
      /\ consumed' \subseteq rows'
  BY AppendsTyped
<1>2. TypeOK'
  BY <1>1 DEF Inv, TypeOK
<1>3. PlatformSound'
  BY AppendsSound
<1> QED
  BY <1>2, <1>3 DEF Inv

(* What the house itself appends: speech, media, a line of the app, a      *)
(* notice, history.                                                        *)
LEMMA OwnFits ==
  ASSUME Inv, NEW kind \in Kinds, NEW by \in By,
         NEW text \in Seq(Text) \ {<<>>}, NEW born \in 0 .. life,
         kind = "message" => by = Human,
         kind = "notice" => by = "house" /\ born = life /\ Len(text) = 1
  PROVE  Fits(Frame(kind, by, text, born, 0), rows, tails)
<1> DEFINE f == Frame(kind, by, text, born, 0)
<1>1. life \in Nat /\ rows \subseteq ARow /\ tails \subseteq Beings /\ posts \in Seq(APost)
  BY DEF Inv, TypeOK
<1>2. /\ f \in AFrame /\ f.kind = kind /\ f.by = by /\ f.text = text /\ f.life = born /\ f.src = 0
  BY <1>1, FrameFields
<1>3. Len(posts) \in Nat /\ 0 \notin OwnPosts
  BY <1>1, Elements DEF OwnPosts
<1> HIDE DEF f
<1>4. f.life <= life /\ f.src \in 0 .. Len(posts)
  BY <1>1, <1>2, <1>3
<1>5. Fits(f, rows, tails)
  BY <1>1, <1>2, <1>3, <1>4 DEF Fits
<1> QED
  BY <1>5 DEF f

(* A line is a text.                                                       *)
LEMMA LineIsText ==
  ASSUME NEW x \in Words
  PROVE  Line(x) \in Text /\ <<Line(x)>> \in Seq(Text) \ {<<>>} /\ Len(<<Line(x)>>) = 1
<1>1. Line(x) \in Text
  BY OneElement DEF Line, Text
<1> QED
  BY <1>1, OneElement

(* A being speaks.                                                         *)
LEMMA SpeaksKeeps ==
  ASSUME Cast, Inv, NEW b \in Speakers, NEW sp \in Speeches, Speaks(b, sp)
  PROVE  Inv'
<1> DEFINE text == [k \in DOMAIN sp |-> Line(sp[k])]
<1>1. sp \in Seq(Words) /\ sp # <<>> /\ b \in By
  BY DEF Cast, By
<1>2. text \in Seq(Text) \ {<<>>}
  <2>1. \A k \in DOMAIN sp : sp[k] \in Words
    BY <1>1
  <2>2. \A k \in DOMAIN sp : Line(sp[k]) \in Text
    BY <2>1, LineIsText
  <2>3. /\ DOMAIN sp = 1 .. Len(sp) /\ Len(sp) \in Nat /\ Len(sp) # 0
    BY <1>1, Elements
  <2>4. text \in [1 .. Len(sp) -> Text]
    BY <2>2, <2>3
  <2>5. text \in Seq(Text) /\ Len(text) = Len(sp)
    BY <2>3, <2>4, ListIsSequence
  <2> QED
    BY <2>3, <2>5
<1> HIDE DEF text
<1>3. life \in 0 .. life
  BY DEF Inv, TypeOK
<1>4. Fits(Frame("speech", b, text, life, 0), rows, tails)
  BY <1>1, <1>2, <1>3, OwnFits DEF Kinds
<1>5. /\ Appends(Frame("speech", b, text, life, 0), rows, tails)
      /\ UNCHANGED <<posts, up, wasReady, life, flips>> /\ inbox' = inbox /\ tails' = tails
  BY DEF Speaks, hosts, text
<1> QED
  BY <1>4, <1>5, AppendsKeep DEF Inv, TypeOK

(* Someone attaches something.                                             *)
LEMMA AttachesKeeps ==
  ASSUME Cast, Inv, NEW by \in Speakers \cup {Human}, Attaches(by)
  PROVE  Inv'
<1>1. by \in By
  BY DEF Cast, By
<1>2. Media \in Text /\ life \in 0 .. life
  BY DEF Media, Text, Inv, TypeOK
<1>3. <<Media>> \in Seq(Text) \ {<<>>}
  BY <1>2, OneElement
<1>4. Fits(Frame("media", by, <<Media>>, life, 0), rows, tails)
  BY <1>1, <1>2, <1>3, OwnFits DEF Kinds
<1>5. /\ Appends(Frame("media", by, <<Media>>, life, 0), rows, tails)
      /\ UNCHANGED <<posts, up, wasReady, life, flips>> /\ inbox' = inbox /\ tails' = tails
  BY DEF Attaches, hosts
<1> QED
  BY <1>4, <1>5, AppendsKeep DEF Inv, TypeOK

(* A person types in the app.                                              *)
LEMMA TypesKeeps ==
  ASSUME Cast, Inv, NEW x \in Lines, TypesInApp(x)
  PROVE  Inv'
<1>1. Human \in By /\ life \in 0 .. life /\ x \in Words
  BY DEF By, Inv, TypeOK, Words
<1>2. Fits(Frame("message", Human, <<Line(x)>>, life, 0), rows, tails)
  BY <1>1, LineIsText, OwnFits DEF Kinds
<1>3. /\ Appends(Frame("message", Human, <<Line(x)>>, life, 0), rows, tails)
      /\ UNCHANGED <<posts, up, wasReady, life, flips>> /\ inbox' = inbox /\ tails' = tails
  BY DEF TypesInApp, hosts
<1> QED
  BY <1>2, <1>3, AppendsKeep DEF Inv, TypeOK

(* The house gives notice.                                                 *)
LEMMA NoticeKeeps ==
  ASSUME Cast, Inv, NEW x \in Lines, Notice(x)
  PROVE  Inv'
<1>1. "house" \in By /\ life \in 0 .. life /\ x \in Words
  BY DEF By, Inv, TypeOK, Words
<1>2. Fits(Frame("notice", "house", <<Line(x)>>, life, 0), rows, tails)
  BY <1>1, LineIsText, OwnFits DEF Kinds
<1>3. /\ Appends(Frame("notice", "house", <<Line(x)>>, life, 0), rows, tails)
      /\ UNCHANGED <<posts, up, wasReady, life, flips>> /\ inbox' = inbox /\ tails' = tails
  BY DEF Notice, hosts
<1> QED
  BY <1>2, <1>3, AppendsKeep DEF Inv, TypeOK

(* History is appended to a record that is tailed.                         *)
LEMMA RetrofitKeeps ==
  ASSUME Cast, Inv, NEW kind \in Kinds, NEW by \in By, NEW x \in Lines, Retrofit(kind, by, x),
         kind # "notice", kind = "message" => by = Human
  PROVE  Inv'
<1>1. 0 \in 0 .. life /\ x \in Words
  BY DEF Inv, TypeOK, Words
<1>2. Fits(Frame(kind, by, <<Line(x)>>, 0, 0), rows, tails)
  BY <1>1, LineIsText, OwnFits
<1>3. /\ Appends(Frame(kind, by, <<Line(x)>>, 0, 0), rows, tails)
      /\ UNCHANGED <<posts, up, wasReady, life, flips>> /\ inbox' = inbox /\ tails' = tails
  BY DEF Retrofit, hosts
<1> QED
  BY <1>2, <1>3, AppendsKeep DEF Inv, TypeOK

(* A post's account and text.                                              *)
LEMMA PostFields ==
  ASSUME NEW p \in APost
  PROVE  /\ p.acct \in Beings \cup {Human} /\ p.acct \in By /\ p.text \in Text
         /\ p.seq \in Nat /\ p.life \in Nat /\ p.run \in Nat
<1>1. p.acct \in Beings \cup {Human} /\ p.text \in Text /\ p.seq \in Nat /\ p.life \in Nat /\ p.run \in Nat
  BY DEF APost
<1> QED
  BY <1>1 DEF By

(* What a seat has been handed becomes a message unless it is in the       *)
(* sidecar, or is a being's own that is awaited.                           *)
LEMMA InputFits ==
  ASSUME Cast, Inv, NEW id \in DOMAIN posts, ~Recorded(id), ~EchoOf(posts[id])
  PROVE  Fits(Frame("message", posts[id].acct, <<posts[id].text>>, life, id),
              rows \cup {InRow(id, posts[id].acct, <<posts[id].text>>)}, Beings)
<1> DEFINE p == posts[id]
           t == <<p.text>>
           f == Frame("message", p.acct, t, life, id)
           r == InRow(id, p.acct, t)
<1>1. /\ posts \in Seq(APost) /\ life \in Nat /\ rows \subseteq ARow
  BY DEF Inv, TypeOK
<1>2. Len(posts) \in Nat /\ id \in 1 .. Len(posts) /\ p \in APost
  BY <1>1, Elements
<1> HIDE DEF p
<1>3. p.acct \in By /\ p.text \in Text
  BY <1>2, PostFields
<1>4. t \in Seq(Text) \ {<<>>}
  BY <1>3, OneElement
<1> HIDE DEF t
<1>5. f \in AFrame /\ f.kind = "message" /\ f.by = p.acct /\ f.text = t /\ f.life = life /\ f.src = id
  BY <1>1, <1>2, <1>3, <1>4, FrameFields DEF Kinds
<1>6. r \in ARow /\ r.id = id /\ r.dir = "in" /\ r \notin rows
  BY <1>2, <1>3, <1>4, RowFields DEF Recorded
<1>7. \A n \in Frames : frames[n].src # id
  BY <1>2 DEF Inv, PlatformSound, FramesSound
<1>8. InRow(f.src, f.by, f.text) = r
  BY <1>5
<1>9. id \in OwnPosts => \/ FrameOf(id).kind # "speech" \/ posts[id].run > 0
                         \/ SaidTwice(id) \/ life # posts[id].life
  <2> SUFFICES ASSUME id \in OwnPosts, posts[id].run = 0, FrameOf(id).kind = "speech", posts[id].life = life
               PROVE  SaidTwice(id)
    BY <1>2, PostFields DEF p
  <2>1. <<posts[id].acct, posts[id].text>> \in pending \/ SaidTwice(id)
    BY DEF Inv, PlatformSound, EchoSound
  <2> QED
    BY <2>1 DEF EchoOf, OwnPosts
<1> HIDE DEF f, r
<1>10. Fits(f, rows \cup {r}, Beings)
  BY <1>1, <1>2, <1>5, <1>6, <1>7, <1>8, <1>9 DEF Fits
<1> QED
  BY <1>10 DEF f, r, p, t

-----------------------------------------------------------------------------
(* The record stays as it is.                                              *)

(* More posts and more rows take nothing back.                             *)
LEMMA SameRecord ==
  ASSUME Inv, frames' = frames, life \in Nat, life' \in Nat, life <= life', rows \subseteq rows',
         Len(posts') \in Nat, Len(posts) <= Len(posts'), DOMAIN posts' = 1 .. Len(posts'),
         \A i \in Posts : posts'[i] = posts[i]
  PROVE  FramesSound' /\ RecordedOnce' /\ EchoIsNoMessage'
<1>1. FramesSound /\ RecordedOnce /\ EchoIsNoMessage /\ PostsSound /\ frames \in Seq(AFrame) /\ posts \in Seq(APost)
  BY DEF Inv, PlatformSound, TypeOK
<1>2. /\ Len(posts) \in Nat /\ DOMAIN posts = Posts /\ DOMAIN frames = Frames
      /\ \A i \in Frames : frames[i] \in AFrame
  BY <1>1, Elements DEF Frames, Posts
<1>3. \A i \in Frames : frames[i].life \in Nat /\ frames[i].src \in Nat
  BY <1>2, FrameFields
<1>4. Frames' = Frames /\ Posts \subseteq DOMAIN posts'
  BY <1>2 DEF Frames, Posts
<1>5. RecordedOnce'
  BY <1>1 DEF RecordedOnce
<1>6. FramesSound'
  <2>1. \A i \in Frames' : frames'[i].life <= life' /\ frames'[i].src \in 0 .. Len(posts')
    BY <1>1, <1>2, <1>3, <1>4 DEF FramesSound
  <2>2. \A i \in Frames' : /\ frames'[i].kind = "message" => frames'[i].src # 0 \/ frames'[i].by = Human
                           /\ frames'[i].kind = "notice" => frames'[i].by = "house"
    BY <1>1, <1>4 DEF FramesSound
  <2>3. ASSUME NEW i \in Frames', frames'[i].src # 0
        PROVE  frames'[i].kind = "message" /\ \E r \in rows' : r.id = frames'[i].src
    <3>1. frames[i].kind = "message" /\ Recorded(frames[i].src)
      BY <1>1, <1>4, <2>3 DEF FramesSound
    <3> QED
      BY <3>1 DEF Recorded
  <2> QED
    BY <2>1, <2>2, <2>3 DEF FramesSound, Recorded
<1>7. EchoIsNoMessage'
  <2>1. ASSUME NEW k \in DOMAIN frames', NEW id \in OwnPosts', id = frames'[k].src
        PROVE  \/ FrameOf(id)'.kind # "speech" \/ posts'[id].run > 0
               \/ SaidTwice(id)' \/ frames'[k].life # posts'[id].life
    <3>1. id \in DOMAIN posts'
      BY <2>1 DEF OwnPosts
    <3>2. id \in Posts
      <4>1. k \in Frames /\ id \in 0 .. Len(posts) /\ id = frames[k].src
        BY <1>1, <1>2, <2>1 DEF FramesSound
      <4>2. id # 0
        BY <3>1
      <4> QED
        BY <1>2, <4>1, <4>2 DEF Posts
    <3>3. id \in OwnPosts /\ posts'[id] = posts[id]
      BY <1>2, <2>1, <3>2 DEF OwnPosts
    <3>4. FrameOf(id)' = FrameOf(id)
      BY <3>3 DEF FrameOf
    <3>5. \/ FrameOf(id).kind # "speech" \/ posts[id].run > 0
          \/ SaidTwice(id) \/ frames[k].life # posts[id].life
      BY <1>1, <2>1, <3>3 DEF EchoIsNoMessage
    <3>6. SaidTwice(id) => SaidTwice(id)'
      BY <1>2, <1>4, <3>3 DEF SaidTwice
    <3> QED
      BY <3>3, <3>4, <3>5, <3>6
  <2> QED
    BY <2>1 DEF EchoIsNoMessage, SaidTwice, FrameOf
<1> QED
  BY <1>5, <1>6, <1>7

(* A row more, about a frame of that being which did not come from outside.*)
LEMMA MoreRows ==
  ASSUME Inv, frames' = frames, consumed' \subseteq rows',
         \A r \in rows' \ rows : r.dir = "out" =>
           /\ r.seq \in Frames /\ r.by = frames[r.seq].by
           /\ frames[r.seq].kind = "message" => frames[r.seq].src = 0
  PROVE  RowsSound'
<1>1. Frames' = Frames
  BY DEF Frames
<1>2. RowsSound
  BY DEF Inv, PlatformSound
<1> QED
  BY <1>1, <1>2 DEF RowsSound

(* What a call must be, whatever the others are.                           *)
SoundCall(c) ==
  /\ c.seq # 0 =>
       /\ c.seq \in Frames /\ frames[c.seq].life = life /\ c.by = frames[c.seq].by
       /\ Voice(c.acct, frames[c.seq])
       /\ Relayable(frames[c.seq]) => Len(c.rest) = 1 /\ c.run = 0
       /\ (c.run = 0 => c.queue = <<>>) /\ c.rest # <<>>
  /\ \A k \in 1 .. Len(c.queue) :
       /\ c.queue[k] \in Frames /\ frames[c.queue[k]].by = c.acct
       /\ ~Relayable(frames[c.queue[k]])
  /\ c.seq = 0 => c.by = c.acct /\ c.run > 0 /\ c.queue # <<>> /\ c.at = 0

(* Some calls end and one goes on or is made.                              *)
LEMMA CallsMove ==
  ASSUME Inv, frames' = frames, life' = life, NEW Kept, NEW D,
         Kept \subseteq calls, calls' = Kept \cup D,
         \A d \in D : SoundCall(d), \A d, e \in D : d = e,
         \A d \in D, c \in Kept : d.seq # 0 /\ Relayable(frames[d.seq]) => c.seq # d.seq
  PROVE  CallsSound'
<1>1. Frames' = Frames
  BY DEF Frames
<1>2. CallsSound
  BY DEF Inv, PlatformSound
<1>3. \A c \in Kept : SoundCall(c)
  BY <1>2 DEF CallsSound, SoundCall
<1>4. \A c \in calls' : SoundCall(c)
  BY <1>3
<1>5. ASSUME NEW c \in calls', NEW d \in calls', c.seq = d.seq /\ c.seq # 0 /\ Relayable(frames[c.seq])
      PROVE  c = d
  BY <1>2, <1>5 DEF CallsSound
<1> QED
  BY <1>1, <1>4, <1>5 DEF CallsSound, SoundCall

(* The posts stay, and none of the calls sends a relayed frame afresh.     *)
LEMMA SamePosts ==
  ASSUME Inv, frames' = frames, posts' = posts, NEW D,
         calls' \subseteq calls \cup D,
         \A d \in D : d.at = 0 /\ d.seq # 0 => ~Relayable(frames[d.seq])
  PROVE  PostsSound'
<1>1. PostsSound /\ posts \in Seq(APost)
  BY DEF Inv, PlatformSound, TypeOK
<1>2. Frames' = Frames /\ OwnPosts' = OwnPosts
  BY DEF Frames, OwnPosts
<1>3. \A i \in OwnPosts : FrameOf(i)' = FrameOf(i)
  BY DEF FrameOf
<1>4. ASSUME NEW i \in OwnPosts, NEW c \in calls', c.seq = posts[i].seq, Relayable(FrameOf(i))
      PROVE  c.at # 0
  <2>1. CASE c \in calls
    BY <1>1, <1>4, <2>1 DEF PostsSound
  <2>2. CASE c \in D
    <3>1. posts[i].seq \in Frames
      BY <1>1 DEF PostsSound
    <3> QED
      BY <1>4, <2>2, <3>1 DEF FrameOf, Frames
  <2> QED
    BY <2>1, <2>2
<1> QED
  BY <1>1, <1>2, <1>3, <1>4 DEF PostsSound

(* What is no longer awaited has come.                                     *)
LEMMA StillAwaited ==
  ASSUME Inv, frames' = frames, posts' = posts, life' = life, rows \subseteq rows', NEW D,
         calls' \subseteq calls \cup D,
         \A d \in D : d.at = 0 /\ d.seq # 0 /\ d.run = 0 /\ frames[d.seq].kind = "speech"
                      => <<d.acct, Head(d.rest)>> \in pending',
         \A x \in pending \ pending' : \E id \in Posts :
            x = <<posts[id].acct, posts[id].text>> /\ \E r \in rows' : r.id = id
  PROVE  EchoSound'
<1>1. EchoSound /\ posts \in Seq(APost)
  BY DEF Inv, PlatformSound, TypeOK
<1>2. OwnPosts' = OwnPosts /\ Posts' = Posts /\ DOMAIN posts = Posts
  BY <1>1, Elements DEF OwnPosts, Posts
<1>3. ASSUME NEW c \in calls', c.seq # 0 /\ c.at = 0 /\ c.run = 0 /\ frames[c.seq].kind = "speech"
      PROVE  Awaited(c.acct, Head(c.rest))'
  <2>1. CASE c \in D
    BY <1>3, <2>1 DEF Awaited
  <2>2. CASE c \in calls
    <3>1. Awaited(c.acct, Head(c.rest))
      BY <1>1, <1>3, <2>2 DEF EchoSound
    <3>2. CASE <<c.acct, Head(c.rest)>> \in pending
      BY <1>2, <3>2 DEF Awaited
    <3>3. CASE \E j \in Posts : posts[j].acct = c.acct /\ posts[j].text = Head(c.rest)
      BY <1>2, <3>3 DEF Awaited
    <3> QED
      BY <3>1, <3>2, <3>3 DEF Awaited
  <2> QED
    BY <2>1, <2>2
<1>4. ASSUME NEW i \in OwnPosts, posts[i].run = 0, FrameOf(i).kind = "speech",
             posts[i].life = life, ~Recorded(i)'
      PROVE  <<posts[i].acct, posts[i].text>> \in pending' \/ SaidTwice(i)'
  <2>1. ~Recorded(i)
    BY <1>4 DEF Recorded
  <2>2. <<posts[i].acct, posts[i].text>> \in pending \/ SaidTwice(i)
    BY <1>1, <1>4, <2>1 DEF EchoSound
  <2>3. ASSUME NEW id \in Posts, <<posts[i].acct, posts[i].text>> = <<posts[id].acct, posts[id].text>>,
               \E r \in rows' : r.id = id
        PROVE  SaidTwice(i)'
    <3>1. id # i
      BY <1>4, <2>3 DEF Recorded
    <3> QED
      BY <1>2, <2>3, <3>1 DEF SaidTwice
  <2>4. SaidTwice(i)' = SaidTwice(i)
    BY DEF SaidTwice
  <2> QED
    BY <2>2, <2>3, <2>4
<1>5. \A i \in OwnPosts : FrameOf(i)' = FrameOf(i)
  BY DEF FrameOf
<1> QED
  BY <1>2, <1>3, <1>4, <1>5 DEF EchoSound

-----------------------------------------------------------------------------
(* The handlers that leave the record as it is.                            *)

(* What all of them have of the state before.                              *)
LEMMA Known ==
  ASSUME Inv
  PROVE  /\ TypeOK /\ FramesSound /\ RowsSound /\ CallsSound /\ PostsSound /\ EchoSound
         /\ frames \in Seq(AFrame) /\ rows \subseteq ARow /\ posts \in Seq(APost) /\ calls \subseteq ACall
         /\ consumed \subseteq rows /\ pending \subseteq By \X Text /\ life \in Nat /\ flips \in Nat
         /\ Len(frames) \in Nat /\ DOMAIN frames = Frames
         /\ Len(posts) \in Nat /\ DOMAIN posts = Posts
         /\ \A c \in calls : SoundCall(c)
<1>1. /\ TypeOK /\ FramesSound /\ RowsSound /\ CallsSound /\ PostsSound /\ EchoSound
      /\ frames \in Seq(AFrame) /\ rows \subseteq ARow /\ posts \in Seq(APost) /\ calls \subseteq ACall
      /\ consumed \subseteq rows /\ pending \subseteq By \X Text /\ life \in Nat /\ flips \in Nat
  BY DEF Inv, PlatformSound, TypeOK
<1>2. /\ Len(frames) \in Nat /\ DOMAIN frames = Frames
      /\ Len(posts) \in Nat /\ DOMAIN posts = Posts
  BY <1>1, Elements DEF Frames, Posts
<1>3. \A c \in calls : SoundCall(c)
  BY <1>1 DEF CallsSound, SoundCall
<1> QED
  BY <1>1, <1>2, <1>3

(* A handler that touches neither record, calls, posts nor what is awaited.*)
LEMMA HostsMove ==
  ASSUME Inv, TypeOK', UNCHANGED <<frames, rows, posts, calls, pending, consumed, life>>
  PROVE  Inv'
<1>1. FramesSound' /\ RecordedOnce' /\ EchoIsNoMessage'
  BY Known, SameRecord DEF Posts
<1>2. RowsSound'
  BY Known, MoreRows
<1>3. CallsSound'
  <2> DEFINE D == {}
  <2>1. calls \subseteq calls /\ calls' = calls \cup D
    OBVIOUS
  <2> HIDE DEF D
  <2>2. \A d \in D : FALSE
    BY DEF D
  <2> QED
    BY <2>1, <2>2, CallsMove
<1>4. PostsSound' /\ EchoSound'
  <2> DEFINE D == {}
  <2>1. calls' \subseteq calls \cup D /\ pending \ pending' = {}
    OBVIOUS
  <2>2. \A d \in D : FALSE
    OBVIOUS
  <2> HIDE DEF D
  <2>3. PostsSound'
    BY <2>1, <2>2, SamePosts
  <2>4. EchoSound'
    BY <2>1, <2>2, StillAwaited
  <2> QED
    BY <2>3, <2>4
<1> QED
  BY <1>1, <1>2, <1>3, <1>4 DEF Inv, PlatformSound

(* A host comes, and its seat is handed what it missed.                    *)
LEMMA HostUpKeeps ==
  ASSUME Inv, NEW b \in Beings, HostUp(b)
  PROVE  Inv'
<1>1. /\ UNCHANGED <<frames, rows, claims, posts, wasReady, tails, life, flips>>
      /\ UNCHANGED <<calls, pending, marks, consumed>>
      /\ up' = [up EXCEPT ![b] = TRUE] /\ inbox' = [inbox EXCEPT ![b] = @ \cup Missed(b)]
  BY DEF HostUp, memory
<1>2. up' \in [Beings -> BOOLEAN]
  BY <1>1 DEF Inv, TypeOK
<1>3. inbox' \in [Beings -> SUBSET DOMAIN posts]
  <2>1. Missed(b) \subseteq DOMAIN posts
    BY DEF Missed
  <2> HIDE DEF Missed
  <2> QED
    BY <1>1, <2>1 DEF Inv, TypeOK
<1>4. TypeOK'
  BY <1>1, <1>2, <1>3 DEF Inv, TypeOK
<1> QED
  BY <1>1, <1>4, HostsMove

(* A host goes.                                                            *)
LEMMA HostDownKeeps ==
  ASSUME Inv, NEW b \in Beings, HostDown(b)
  PROVE  Inv'
<1>1. /\ UNCHANGED <<frames, rows, claims, posts, inbox, wasReady, tails, life>>
      /\ UNCHANGED <<calls, pending, marks, consumed>>
      /\ up' = [up EXCEPT ![b] = FALSE] /\ flips' = flips + 1
  BY DEF HostDown, memory
<1>2. up' \in [Beings -> BOOLEAN] /\ flips' \in Nat
  BY <1>1 DEF Inv, TypeOK
<1>3. TypeOK'
  BY <1>1, <1>2 DEF Inv, TypeOK
<1> QED
  BY <1>1, <1>3, HostsMove

(* A person posts: the post is no being's.                                 *)
LEMMA HumanPostsKeeps ==
  ASSUME Cast, Inv, NEW x \in Lines, HumanPosts(x)
  PROVE  Inv'
<1> DEFINE p == [acct |-> Human, text |-> Line(x), seq |-> 0, life |-> life, run |-> 0]
           m == Len(posts) + 1
<1>1. /\ UNCHANGED <<frames, rows, claims, up, wasReady, tails, life, flips>>
      /\ UNCHANGED <<calls, pending, marks, consumed>>
      /\ posts' = Append(posts, p)
      /\ inbox' = [b \in Beings |-> IF up[b] /\ b # Human THEN inbox[b] \cup {m} ELSE inbox[b]]
  BY DEF HumanPosts, Post, memory
<1>2. p \in APost /\ p.acct = Human
  <2>1. Line(x) \in Text /\ life \in Nat
    BY LineIsText, Known DEF Words
  <2> QED
    BY <2>1 DEF APost
<1> HIDE DEF p
<1>3. /\ posts' \in Seq(APost) /\ Len(posts) \in Nat /\ Len(posts') = m
      /\ posts'[m] = p /\ \A i \in Posts : posts'[i] = posts[i]
  BY <1>1, <1>2, Known, Longer DEF Posts
<1>4. DOMAIN posts' = 1 .. m /\ DOMAIN posts = 1 .. Len(posts)
  BY <1>3, Known, Elements DEF Posts
<1>5. TypeOK'
  <2>1. inbox' \in [Beings -> SUBSET DOMAIN posts']
    BY <1>1, <1>3, <1>4 DEF Inv, TypeOK
  <2> QED
    BY <1>1, <1>3, <2>1 DEF Inv, TypeOK
<1>6. FramesSound' /\ RecordedOnce' /\ EchoIsNoMessage'
  BY <1>1, <1>3, <1>4, Known, SameRecord
<1>7. RowsSound'
  BY <1>1, Known, MoreRows
<1>8. CallsSound'
  BY <1>1, Known DEF CallsSound, Frames
<1>9. /\ OwnPosts' = OwnPosts /\ OwnPosts \subseteq Posts /\ Frames' = Frames
      /\ \A i \in OwnPosts : posts'[i] = posts[i] /\ FrameOf(i)' = FrameOf(i)
  <2>1. Human \notin Beings
    BY DEF Cast
  <2>2. \A i \in 1 .. m : i \in Posts \/ i = m
    BY <1>3 DEF Posts
  <2>3. OwnPosts' = OwnPosts /\ OwnPosts \subseteq Posts
    BY <1>2, <1>3, <1>4, <2>1, <2>2 DEF OwnPosts, Posts
  <2> QED
    BY <1>1, <1>3, <2>3 DEF FrameOf, Frames
<1>10. PostsSound'
  BY <1>1, <1>9, Known DEF PostsSound
<1>11. EchoSound'
  <2>1. Posts \subseteq Posts'
    BY <1>3 DEF Posts
  <2>2. \A c \in calls : Awaited(c.acct, Head(c.rest)) => Awaited(c.acct, Head(c.rest))'
    BY <1>1, <1>3, <2>1 DEF Awaited
  <2>3. \A i \in OwnPosts : SaidTwice(i) => SaidTwice(i)'
    BY <1>3, <1>4, <1>9 DEF SaidTwice, Posts
  <2>4. \A i \in OwnPosts : Recorded(i)' = Recorded(i)
    BY <1>1 DEF Recorded
  <2>5. EchoSound
    BY Known
  <2>6. ASSUME NEW c \in calls', c.seq # 0 /\ c.at = 0 /\ c.run = 0 /\ frames'[c.seq].kind = "speech"
        PROVE  Awaited(c.acct, Head(c.rest))'
    BY <1>1, <2>2, <2>5, <2>6 DEF EchoSound
  <2>7. ASSUME NEW i \in OwnPosts', posts'[i].run = 0, FrameOf(i)'.kind = "speech",
               posts'[i].life = life', ~Recorded(i)'
        PROVE  <<posts'[i].acct, posts'[i].text>> \in pending' \/ SaidTwice(i)'
    BY <1>1, <1>9, <2>3, <2>4, <2>5, <2>7 DEF EchoSound
  <2> QED
    BY <2>6, <2>7 DEF EchoSound
<1> QED
  BY <1>5, <1>6, <1>7, <1>8, <1>10, <1>11 DEF Inv, PlatformSound

(* The platform takes a piece of a call: it is this being's, of this run,  *)
(* and nothing that is sent once has been posted before.                   *)
LEMMA LandsKeeps ==
  ASSUME Cast, Inv, NEW c \in calls, Lands(c)
  PROVE  Inv'
<1>0. PICK m : m = Len(posts) + 1
  OBVIOUS
<1> DEFINE p == [acct |-> c.acct, text |-> Head(c.rest), seq |-> c.seq, life |-> life, run |-> c.run]
           d == [c EXCEPT !.at = m]
           Kept == calls \ {c}
<1>1. /\ UNCHANGED <<frames, rows, claims, up, wasReady, tails, life, flips, pending, marks, consumed>>
      /\ posts' = Append(posts, p)
      /\ inbox' = [b \in Beings |-> IF up[b] /\ b # c.acct THEN inbox[b] \cup {m} ELSE inbox[b]]
      /\ calls' = Kept \cup {d} /\ c.seq > 0 /\ c.at = 0
  BY <1>0 DEF Lands, Post
<1>2. /\ c \in ACall /\ c.acct \in Beings /\ c.run \in Nat /\ c.seq \in Nat /\ c.seq # 0
      /\ c.rest \in Seq(Text) /\ SoundCall(c)
  BY <1>1, Known, CallFields
<1>3. /\ c.seq \in Frames /\ frames[c.seq].life = life /\ Voice(c.acct, frames[c.seq]) /\ c.rest # <<>>
  BY <1>2 DEF SoundCall
<1>4. p \in APost /\ p.acct = c.acct /\ p.text = Head(c.rest) /\ p.seq = c.seq /\ p.life = life /\ p.run = c.run
  <2>1. Head(c.rest) \in Text
    BY <1>2, <1>3
  <2> QED
    BY <1>2, <2>1, Known DEF APost
<1>5. Len(posts) \in Nat /\ m \in Nat /\ m # 0 /\ m = Len(posts) + 1
  BY <1>0, Known
<1>6. /\ d \in ACall /\ d.at = m /\ d.acct = c.acct /\ d.run = c.run /\ d.by = c.by
      /\ d.seq = c.seq /\ d.rest = c.rest /\ d.queue = c.queue
  BY <1>2, <1>5, CallGoesOn
<1> HIDE DEF p, d, Kept
<1>7. /\ posts' \in Seq(APost) /\ Len(posts') = m
      /\ posts'[m] = p /\ \A i \in Posts : posts'[i] = posts[i]
  BY <1>1, <1>4, <1>5, Known, Longer DEF Posts
<1>8. /\ DOMAIN posts' = 1 .. m /\ DOMAIN posts = Posts /\ Posts \subseteq Posts'
      /\ m \in Posts' /\ m \notin Posts /\ \A i \in 1 .. m : i \in Posts \/ i = m
  BY <1>5, <1>7, Known, Elements DEF Posts
<1>9. TypeOK'
  <2>1. inbox' \in [Beings -> SUBSET DOMAIN posts']
    BY <1>1, <1>5, <1>8 DEF Inv, TypeOK, Posts
  <2>2. calls' \subseteq ACall
    BY <1>1, <1>6, Known DEF Kept
  <2> QED
    BY <1>1, <1>7, <2>1, <2>2 DEF Inv, TypeOK
<1>10. FramesSound' /\ RecordedOnce' /\ EchoIsNoMessage'
  <2>1. Len(posts) <= Len(posts') /\ Len(posts') \in Nat /\ DOMAIN posts' = 1 .. Len(posts')
    BY <1>5, <1>7, <1>8
  <2> QED
    BY <1>1, <1>7, <2>1, Known, SameRecord
<1>11. RowsSound'
  BY <1>1, Known, MoreRows
<1>12. CallsSound'
  <2> DEFINE D == {d}
  <2>1. Kept \subseteq calls /\ calls' = Kept \cup D /\ \A e, g \in D : e = g
    BY <1>1 DEF Kept
  <2>2. \A e \in D : SoundCall(e)
    BY <1>2, <1>6 DEF SoundCall
  <2>3. \A g \in D, e \in Kept : g.seq # 0 /\ Relayable(frames[g.seq]) => e.seq # g.seq
    BY <1>6, Known DEF CallsSound, Kept
  <2> HIDE DEF D
  <2> QED
    BY <1>1, <2>1, <2>2, <2>3, CallsMove
<1>13. /\ \A i \in OwnPosts' : i \in OwnPosts \/ i = m
       /\ OwnPosts \subseteq Posts /\ OwnPosts \subseteq OwnPosts' /\ m \in OwnPosts' /\ Frames' = Frames
       /\ \A i \in OwnPosts : posts'[i] = posts[i] /\ FrameOf(i)' = FrameOf(i)
       /\ FrameOf(m)' = frames[c.seq]
  <2>1. \A i \in OwnPosts' : i \in OwnPosts \/ i = m
    BY <1>7, <1>8 DEF OwnPosts, Posts
  <2>2. OwnPosts \subseteq Posts
    BY <1>8 DEF OwnPosts
  <2>3. m \in OwnPosts' /\ OwnPosts \subseteq OwnPosts'
    BY <1>2, <1>4, <1>7, <1>8 DEF OwnPosts, Posts
  <2>4. FrameOf(m)' = frames[c.seq]
    BY <1>1, <1>4, <1>7 DEF FrameOf
  <2> QED
    BY <1>1, <1>7, <2>1, <2>2, <2>3, <2>4 DEF FrameOf, Frames
<1>14. PostsSound'
  <2>1. PostsSound
    BY Known
  <2>2. \A i \in OwnPosts' : /\ posts'[i].seq \in Frames' /\ posts'[i].life = FrameOf(i)'.life
                             /\ Voice(posts'[i].acct, FrameOf(i)')
    BY <1>3, <1>4, <1>7, <1>13, <2>1 DEF PostsSound
  <2>3. \A j \in OwnPosts : posts[j].seq = c.seq /\ Relayable(FrameOf(j)) => FALSE
    BY <1>1, <2>1 DEF PostsSound
  <2>4. ASSUME NEW i \in OwnPosts', NEW j \in OwnPosts',
               posts'[i].seq = posts'[j].seq /\ Relayable(FrameOf(i)')
        PROVE  i = j
    <3>1. CASE i \in OwnPosts /\ j \in OwnPosts
      BY <1>13, <2>1, <2>4, <3>1 DEF PostsSound
    <3>2. ASSUME NEW k \in OwnPosts, posts[k].seq = c.seq, Relayable(frames[c.seq]) PROVE FALSE
      BY <2>3, <3>2 DEF FrameOf
    <3>3. CASE i = m /\ j \in OwnPosts
      BY <1>4, <1>7, <1>13, <2>4, <3>2, <3>3
    <3>4. CASE j = m /\ i \in OwnPosts
      <4>1. posts[i].seq = c.seq /\ Relayable(FrameOf(i))
        BY <1>4, <1>7, <1>13, <2>4, <3>4
      <4> QED
        BY <2>3, <3>4, <4>1
    <3> QED
      BY <1>13, <3>1, <3>3, <3>4
  <2>5. ASSUME NEW i \in OwnPosts', NEW e \in calls', e.seq = posts'[i].seq, Relayable(FrameOf(i)')
        PROVE  e.at # 0
    <3>1. CASE e = d
      BY <1>5, <1>6, <3>1
    <3>2. CASE e \in Kept /\ i \in OwnPosts
      BY <1>13, <2>1, <2>5, <3>2 DEF PostsSound, Kept
    <3>3. CASE e \in Kept /\ i = m
      <4>1. e \in calls /\ e # c /\ e.seq = c.seq /\ Relayable(frames[c.seq])
        BY <1>4, <1>7, <1>13, <2>5, <3>3 DEF Kept
      <4> QED
        BY <1>2, <4>1, Known DEF CallsSound
    <3> QED
      BY <1>1, <1>13, <3>1, <3>2, <3>3
  <2> QED
    BY <2>2, <2>4, <2>5 DEF PostsSound
<1>15. EchoSound'
  <2>1. \A e \in calls : Awaited(e.acct, Head(e.rest)) => Awaited(e.acct, Head(e.rest))'
    BY <1>1, <1>7, <1>8 DEF Awaited
  <2>2. \A i \in OwnPosts : SaidTwice(i) => SaidTwice(i)'
    BY <1>7, <1>8, <1>13 DEF SaidTwice, Posts
  <2>3. \A i \in OwnPosts : Recorded(i)' = Recorded(i)
    BY <1>1 DEF Recorded
  <2>4. EchoSound
    BY Known
  <2>5. ASSUME NEW e \in calls', e.seq # 0 /\ e.at = 0 /\ e.run = 0 /\ frames'[e.seq].kind = "speech"
        PROVE  Awaited(e.acct, Head(e.rest))'
    <3>1. e \in calls
      BY <1>1, <1>5, <1>6, <2>5 DEF Kept
    <3> QED
      BY <1>1, <2>1, <2>4, <2>5, <3>1 DEF EchoSound
  <2>6. ASSUME NEW i \in OwnPosts', posts'[i].run = 0, FrameOf(i)'.kind = "speech",
               posts'[i].life = life', ~Recorded(i)'
        PROVE  <<posts'[i].acct, posts'[i].text>> \in pending' \/ SaidTwice(i)'
    <3>1. CASE i \in OwnPosts
      BY <1>1, <1>13, <2>2, <2>3, <2>4, <2>6, <3>1 DEF EchoSound
    <3>2. CASE i = m
      <4>1. c.run = 0 /\ frames[c.seq].kind = "speech"
        BY <1>4, <1>7, <1>13, <2>6, <3>2
      <4>2. Awaited(c.acct, Head(c.rest))
        BY <1>1, <1>2, <2>4, <4>1 DEF EchoSound
      <4>3. CASE <<c.acct, Head(c.rest)>> \in pending
        BY <1>1, <1>4, <1>7, <3>2, <4>3
      <4>4. CASE \E j \in Posts : posts[j].acct = c.acct /\ posts[j].text = Head(c.rest)
        <5>1. PICK j \in Posts : posts[j].acct = c.acct /\ posts[j].text = Head(c.rest)
          BY <4>4
        <5>2. j \in DOMAIN posts' /\ j # i /\ posts'[j].acct = posts'[i].acct /\ posts'[j].text = posts'[i].text
          BY <1>4, <1>7, <1>8, <3>2, <5>1 DEF Posts
        <5> QED
          BY <5>2 DEF SaidTwice
      <4> QED
        BY <4>2, <4>3, <4>4 DEF Awaited
    <3> QED
      BY <1>13, <3>1, <3>2
  <2> QED
    BY <2>5, <2>6 DEF EchoSound
<1> QED
  BY <1>9, <1>10, <1>11, <1>12, <1>14, <1>15 DEF Inv, PlatformSound

(* Calls and rows only: a call may end, and one go on or be made.          *)
LEMMA CallsAndRows ==
  ASSUME Inv, UNCHANGED <<frames, claims, posts, marks, consumed, inbox, up, tails, life, flips>>,
         wasReady' \in [Beings -> BOOLEAN],
         pending \subseteq pending', pending' \subseteq By \X Text,
         rows \subseteq rows', rows' \subseteq ARow,
         \A r \in rows' \ rows : r.dir = "out" =>
           /\ r.seq \in Frames /\ r.by = frames[r.seq].by
           /\ frames[r.seq].kind = "message" => frames[r.seq].src = 0,
         NEW Kept, NEW D, Kept \subseteq calls, calls' = Kept \cup D, D \subseteq ACall,
         \A d \in D : SoundCall(d), \A d, e \in D : d = e,
         \A d \in D, c \in Kept : d.seq # 0 /\ Relayable(frames[d.seq]) => c.seq # d.seq,
         \A d \in D : d.at = 0 /\ d.seq # 0 => ~Relayable(frames[d.seq]),
         \A d \in D : d.at = 0 /\ d.seq # 0 /\ d.run = 0 /\ frames[d.seq].kind = "speech"
                      => <<d.acct, Head(d.rest)>> \in pending'
  PROVE  Inv'
<1>1. /\ TypeOK /\ calls \subseteq ACall /\ consumed \subseteq rows /\ life \in Nat
      /\ Len(posts) \in Nat /\ DOMAIN posts = Posts
  BY Known
<1>2. calls' \subseteq ACall /\ consumed' \subseteq rows'
  BY <1>1
<1>3. TypeOK'
  BY <1>1, <1>2 DEF TypeOK
<1>4. FramesSound' /\ RecordedOnce' /\ EchoIsNoMessage'
  BY <1>1, SameRecord DEF Posts
<1>5. RowsSound'
  BY <1>2, MoreRows
<1>6. CallsSound'
  BY CallsMove
<1>7. calls' \subseteq calls \cup D /\ pending \ pending' = {}
  OBVIOUS
<1>8. PostsSound'
  BY <1>7, SamePosts
<1>9. EchoSound'
  BY <1>7, StillAwaited
<1> QED
  BY <1>3, <1>4, <1>5, <1>6, <1>8, <1>9 DEF Inv, PlatformSound

(* A redelivery between two items.                                         *)
LEMMA WorkerSound ==
  ASSUME Cast, Inv, NEW b \in Beings, NEW run \in Nat, run > 0, NEW q \in Seq(Nat),
         \A k \in 1 .. Len(q) : q[k] \in Frames /\ frames[q[k]].by = b /\ ~Relayable(frames[q[k]])
  PROVE  /\ Worker(b, run, q) \subseteq ACall
         /\ \A w \in Worker(b, run, q) : SoundCall(w) /\ w.seq = 0
         /\ \A v, w \in Worker(b, run, q) : v = w
<1>1. /\ Worker(b, run, q) \subseteq ACall
      /\ \A c \in Worker(b, run, q) : /\ c.acct = b /\ c.run = run /\ c.by = b /\ c.seq = 0
                                      /\ c.queue = q /\ c.at = 0 /\ q # <<>>
  BY WorkerIs
<1>2. \A v, w \in Worker(b, run, q) : v = w
  BY DEF Worker
<1>3. \A w \in Worker(b, run, q) : SoundCall(w)
  BY <1>1 DEF SoundCall
<1> QED
  BY <1>1, <1>2, <1>3

(* The items that are left after the next.                                 *)
LEMMA QueueGoesOn ==
  ASSUME Inv, NEW c \in calls, c.queue # <<>>
  PROVE  /\ Head(c.queue) \in Nat /\ Tail(c.queue) \in Seq(Nat)
         /\ Head(c.queue) \in Frames /\ frames[Head(c.queue)].by = c.acct
         /\ ~Relayable(frames[Head(c.queue)])
         /\ \A k \in 1 .. Len(Tail(c.queue)) :
              /\ Tail(c.queue)[k] \in Frames /\ frames[Tail(c.queue)[k]].by = c.acct
              /\ ~Relayable(frames[Tail(c.queue)[k]])
<1>1. c.queue \in Seq(Nat) /\ SoundCall(c)
  BY Known, CallFields
<1>2. /\ Len(c.queue) \in Nat /\ Head(c.queue) = c.queue[1] /\ Len(c.queue) # 0
      /\ Tail(c.queue) \in Seq(Nat) /\ Len(Tail(c.queue)) = Len(c.queue) - 1
      /\ \A i \in 1 .. Len(c.queue) - 1 : Tail(c.queue)[i] = c.queue[i + 1]
      /\ c.queue[1] \in Nat
  BY <1>1, Elements
<1>3. \A k \in 1 .. Len(c.queue) :
        /\ c.queue[k] \in Frames /\ frames[c.queue[k]].by = c.acct
        /\ ~Relayable(frames[c.queue[k]])
  BY <1>1 DEF SoundCall
<1>4. 1 \in 1 .. Len(c.queue)
  BY <1>2
<1>5. ASSUME NEW k \in 1 .. Len(Tail(c.queue))
      PROVE  /\ Tail(c.queue)[k] \in Frames /\ frames[Tail(c.queue)[k]].by = c.acct
             /\ ~Relayable(frames[Tail(c.queue)[k]])
  <2>1. k + 1 \in 1 .. Len(c.queue) /\ Tail(c.queue)[k] = c.queue[k + 1]
    BY <1>2
  <2> QED
    BY <1>3, <2>1
<1> QED
  BY <1>2, <1>3, <1>4, <1>5

(* What seat b still owes are its own being's frames, and none that is     *)
(* relayed.                                                                *)
LEMMA OwesItsOwn ==
  ASSUME Cast, Inv, NEW b \in Beings
  PROVE  /\ IsFiniteSet(Owed(b))
         /\ \A n \in Owed(b) : n \in Frames /\ frames[n].by = b /\ ~Relayable(frames[n])
<1>1. Human # b /\ b # "house"
  BY DEF Cast
<1>2. ASSUME NEW n \in Owed(b)
      PROVE  n \in Frames /\ frames[n].by = b /\ ~Relayable(frames[n])
  <2>1. PICK r \in rows : r.dir = "out" /\ r.by = b /\ r.seq = n
    BY <1>2 DEF Owed
  <2>2. n \in Frames /\ frames[n].by = b /\ (frames[n].kind = "message" => frames[n].src = 0)
    BY <2>1, Known DEF RowsSound
  <2>3. frames[n].kind # "message" /\ frames[n].kind # "notice"
    BY <1>1, <2>2, Known DEF FramesSound
  <2> QED
    BY <2>2, <2>3 DEF Relayable
<1>3. IsFiniteSet(Frames)
  BY Known, FS_Interval DEF Frames
<1>4. Owed(b) \subseteq Frames
  BY <1>2
<1>5. IsFiniteSet(Owed(b))
  BY <1>3, <1>4, FS_Subset
<1> QED
  BY <1>2, <1>5

(* The watcher sees a host come or go.                                     *)
LEMMA PollsKeeps ==
  ASSUME Cast, Inv, NEW b \in Beings, Polls(b)
  PROVE  Inv'
<1>1. /\ UNCHANGED <<frames, rows, claims, posts, inbox, up, tails, pending, marks, consumed, life, flips>>
      /\ wasReady' = [wasReady EXCEPT ![b] = up[b]]
  BY DEF Polls
<1>2. wasReady' \in [Beings -> BOOLEAN]
  BY <1>1 DEF Inv, TypeOK
<1>3. CASE calls' = calls
  <2>1. TypeOK'
    BY <1>1, <1>2, <1>3 DEF Inv, TypeOK
  <2> QED
    BY <1>1, <1>3, <2>1, HostsMove
<1>4. ASSUME NEW q \in Ascending(Owed(b)), calls' = calls \cup Worker(b, flips + 1, q)
      PROVE  Inv'
  <2> DEFINE D == Worker(b, flips + 1, q)
  <2>1. /\ IsFiniteSet(Owed(b))
        /\ \A n \in Owed(b) : n \in Frames /\ frames[n].by = b /\ ~Relayable(frames[n])
    BY OwesItsOwn
  <2>2. Cardinality(Owed(b)) \in Nat /\ q \in [1 .. Cardinality(Owed(b)) -> Owed(b)]
    BY <1>4, <2>1, FS_CardinalityType DEF Ascending
  <2> HIDE DEF Owed
  <2>3. q \in Seq(Owed(b)) /\ Len(q) = Cardinality(Owed(b))
    BY <2>2, ListIsSequence
  <2>4. \A k \in 1 .. Len(q) : q[k] \in Owed(b)
    BY <2>2, <2>3
  <2>5. q \in Seq(Nat)
    <3>1. q \in [1 .. Len(q) -> Nat] /\ Len(q) \in Nat
      BY <2>1, <2>2, <2>3, <2>4 DEF Frames
    <3> QED
      BY <3>1, ListIsSequence
  <2>6. flips + 1 \in Nat /\ flips + 1 > 0
    BY Known
  <2>7. \A k \in 1 .. Len(q) : q[k] \in Frames /\ frames[q[k]].by = b /\ ~Relayable(frames[q[k]])
    BY <2>1, <2>4
  <2>8. D \subseteq ACall /\ (\A w \in D : SoundCall(w) /\ w.seq = 0) /\ \A v, w \in D : v = w
    BY <2>5, <2>6, <2>7, WorkerSound
  <2>9. calls \subseteq calls /\ calls' = calls \cup D
    BY <1>4
  <2> HIDE DEF D
  <2>10. pending' \subseteq By \X Text /\ rows' \subseteq ARow /\ rows' \ rows = {}
    BY <1>1, Known
  <2> QED
    BY <1>1, <1>2, <2>8, <2>9, <2>10, CallsAndRows
<1> QED
  BY <1>3, <1>4 DEF Polls

(* The row that a call leaves.                                             *)
LEMMA RowLeft ==
  ASSUME Inv, NEW c \in calls, c.seq # 0, NEW id \in Nat, NEW why \in Reasons,
         NEW r \in {Lost(id, c.by, c.seq, why), Retry(id, c.by, c.seq, why)}
  PROVE  /\ r \in ARow /\ r.seq \in Frames /\ r.by = frames[r.seq].by
         /\ frames[r.seq].kind = "message" => frames[r.seq].src = 0
<1>1. c.by \in By /\ c.seq \in Nat /\ SoundCall(c)
  BY Known, CallFields
<1>2. /\ c.seq \in Frames /\ c.by = frames[c.seq].by
      /\ frames[c.seq].kind = "message" => frames[c.seq].src = 0
  BY <1>1 DEF SoundCall, Voice
<1>3. r \in ARow /\ r.seq = c.seq /\ r.by = c.by
  <2>1. CASE r = Lost(id, c.by, c.seq, why)
    BY <1>1, <2>1, FirstRow
  <2>2. CASE r = Retry(id, c.by, c.seq, why)
    BY <1>1, <2>2, RetryRow
  <2> QED
    BY <2>1, <2>2
<1> QED
  BY <1>2, <1>3

(* The platform's answer to a piece comes back.                            *)
LEMMA ReturnsKeeps ==
  ASSUME Cast, Inv, NEW c \in calls, Returns(c)
  PROVE  Inv'
<1> DEFINE more == c.run = 0 /\ Len(c.rest) > 1
           rest == Tail(c.rest)
           entry == OutRow(c.at, c.by, c.seq, "", c.run > 0)
           loss == Lost(0, c.by, c.seq, "not-ready")
           d    == [c EXCEPT !.rest = rest, !.at = 0]
           Kept == calls \ {c}
           D    == IF c.run > 0 THEN Worker(c.acct, c.run, c.queue)
                   ELSE IF more /\ up[c.acct] THEN {d} ELSE {}
<1>1. /\ c.at > 0 /\ calls' = Kept \cup D
      /\ rows' = IF more /\ ~up[c.acct] THEN (rows \cup {entry}) \cup {loss} ELSE rows \cup {entry}
      /\ pending' = IF more THEN pending \cup {<<c.by, Head(rest)>>} ELSE pending
      /\ UNCHANGED <<frames, claims, posts, marks, consumed, inbox, up, wasReady, tails, life, flips>>
  BY DEF Returns, hosts, Register, Lost
<1> HIDE DEF entry, loss, d, Kept, D, more, rest
<1>15. c.at > 0 /\ UNCHANGED <<frames, claims, posts, marks, consumed, inbox, up, wasReady, tails, life, flips>>
  BY <1>1
<1>2. /\ c \in ACall /\ c.acct \in Beings /\ c.run \in Nat /\ c.by \in By /\ c.seq \in Nat
      /\ c.rest \in Seq(Text) /\ c.queue \in Seq(Nat) /\ c.at \in Nat /\ SoundCall(c)
  BY Known, CallFields
<1>3. c.seq # 0
  BY <1>2, <1>15 DEF SoundCall
<1>4. /\ c.seq \in Frames /\ frames[c.seq].life = life /\ c.by = frames[c.seq].by
      /\ Voice(c.acct, frames[c.seq])
      /\ Relayable(frames[c.seq]) => Len(c.rest) = 1 /\ c.run = 0
      /\ (c.run = 0 => c.queue = <<>>) /\ c.rest # <<>>
  BY <1>2, <1>3 DEF SoundCall
<1>5. entry \in {Lost(c.at, c.by, c.seq, ""), Retry(c.at, c.by, c.seq, "")}
  <2>1. CASE c.run > 0
    <3>1. (c.run > 0) = TRUE
      BY <2>1
    <3> QED
      BY <3>1 DEF Retry, entry
  <2>2. CASE ~(c.run > 0)
    <3>1. (c.run > 0) = FALSE
      BY <2>2
    <3> QED
      BY <3>1 DEF Lost, entry
  <2> QED
    BY <2>1, <2>2
<1>6. /\ entry \in ARow /\ entry.seq \in Frames /\ entry.by = frames[entry.seq].by
      /\ frames[entry.seq].kind = "message" => frames[entry.seq].src = 0
  BY <1>2, <1>3, <1>5, RowLeft DEF Reasons
<1>7. loss \in {Lost(0, c.by, c.seq, "not-ready"), Retry(0, c.by, c.seq, "not-ready")}
  BY DEF loss
<1>8. /\ loss \in ARow /\ loss.seq \in Frames /\ loss.by = frames[loss.seq].by
      /\ frames[loss.seq].kind = "message" => frames[loss.seq].src = 0
  BY <1>3, <1>7, RowLeft DEF Reasons
<1>9. rows \subseteq rows' /\ rows' \subseteq rows \cup {entry, loss}
  BY <1>1
<1>10. /\ rows' \subseteq ARow
       /\ \A r \in rows' \ rows : /\ r.seq \in Frames /\ r.by = frames[r.seq].by
                                  /\ frames[r.seq].kind = "message" => frames[r.seq].src = 0
  BY <1>6, <1>8, <1>9, Known
<1>11. more => /\ rest \in Seq(Text) /\ rest # <<>> /\ Head(rest) \in Text
               /\ ~Relayable(frames[c.seq])
  <2>0. SUFFICES ASSUME more
                 PROVE  rest \in Seq(Text) /\ rest # <<>> /\ Head(rest) \in Text /\ ~Relayable(frames[c.seq])
    OBVIOUS
  <2>1. Len(c.rest) > 1
    BY <2>0 DEF more
  <2>2. rest \in Seq(Text) /\ rest # <<>> /\ Head(rest) \in Text
    <3>1. Tail(c.rest) \in Seq(Text) /\ Tail(c.rest) # <<>> /\ Head(Tail(c.rest)) \in Text
      BY <1>2, <2>1, MoreToCome
    <3> QED
      BY <3>1 DEF rest
  <2>3. ~Relayable(frames[c.seq])
    <3> DEFINE k == Len(c.rest)
    <3>1. k \in Nat /\ k > 1
      BY <1>2, <2>1, Elements
    <3>2. Relayable(frames[c.seq]) => k = 1
      BY <1>4
    <3> HIDE DEF k
    <3>3. k # 1
      BY <3>1
    <3> QED
      BY <3>2, <3>3
  <2> QED
    BY <2>2, <2>3
<1>12. pending \subseteq pending' /\ pending' \subseteq By \X Text
  BY <1>1, <1>2, <1>11, Known
<1>13. CASE c.run > 0
  <2>1. calls' = Kept \cup Worker(c.acct, c.run, c.queue)
    BY <1>1, <1>13 DEF D
  <2>2. \A k \in 1 .. Len(c.queue) : /\ c.queue[k] \in Frames /\ frames[c.queue[k]].by = c.acct
                                     /\ ~Relayable(frames[c.queue[k]])
    BY <1>2 DEF SoundCall
  <2> DEFINE E == Worker(c.acct, c.run, c.queue)
  <2>3. E \subseteq ACall /\ (\A w \in E : SoundCall(w) /\ w.seq = 0) /\ \A v, w \in E : v = w
    BY <1>2, <1>13, <2>2, WorkerSound
  <2> HIDE DEF E
  <2>4. Kept \subseteq calls /\ calls' = Kept \cup E /\ wasReady' \in [Beings -> BOOLEAN]
    BY <1>15, <2>1 DEF E, Kept, Inv, TypeOK
  <2> QED
    BY <1>15, <1>9, <1>10, <1>12, <2>3, <2>4, CallsAndRows
<1>14. CASE c.run = 0
  <2>1. more => /\ d \in ACall /\ d.at = 0 /\ d.acct = c.acct /\ d.run = c.run /\ d.by = c.by
                /\ d.seq = c.seq /\ d.rest = rest /\ d.queue = c.queue
    BY <1>2, <1>11, CallGoesOn DEF d
  <2>2. more => SoundCall(d)
    <3>1. more => rest # <<>> /\ ~Relayable(frames[c.seq])
      BY <1>11
    <3> QED
      BY <1>2, <1>3, <1>4, <2>1, <3>1 DEF SoundCall
  <2> DEFINE E == IF more /\ up[c.acct] THEN {d} ELSE {}
  <2>3. calls' = Kept \cup E /\ Kept \subseteq calls /\ wasReady' \in [Beings -> BOOLEAN]
    <3>1. ~(c.run > 0)
      BY <1>14
    <3>2. D = E
      BY <3>1 DEF D
    <3> HIDE DEF E
    <3> QED
      BY <1>1, <3>2 DEF Kept, Inv, TypeOK
  <2>4. \A e \in E : more /\ e = d
    OBVIOUS
  <2> HIDE DEF E
  <2>5. E \subseteq ACall /\ (\A e \in E : SoundCall(e)) /\ \A e, g \in E : e = g
    BY <2>1, <2>2, <2>4
  <2>6. \A e \in E : e.seq = c.seq /\ ~Relayable(frames[e.seq])
    BY <1>11, <2>1, <2>4
  <2>7. \A e \in E : <<e.acct, Head(e.rest)>> \in pending' \/ frames[e.seq].kind # "speech"
    <3>1. more => <<c.by, Head(rest)>> \in pending'
      BY <1>1
    <3>2. frames[c.seq].kind = "speech" => c.by = c.acct
      BY <1>4 DEF Voice
    <3> QED
      BY <2>1, <2>4, <3>1, <3>2
  <2> QED
    BY <1>15, <1>9, <1>10, <1>12, <2>3, <2>5, <2>6, <2>7, CallsAndRows
<1> QED
  BY <1>2, <1>13, <1>14

(* A call fails.                                                           *)
LEMMA FailsKeeps ==
  ASSUME Cast, Inv, NEW c \in calls, Fails(c)
  PROVE  Inv'
<1> DEFINE loss == Lost(0, c.by, c.seq, "error")
           Kept == calls \ {c}
           E    == IF c.run > 0 THEN Worker(c.acct, c.run, c.queue) ELSE {}
<1>1. /\ c.seq > 0 /\ calls' = Kept \cup E
      /\ rows' = IF c.run > 0 THEN rows ELSE rows \cup {loss}
      /\ UNCHANGED <<frames, claims, posts, pending, marks, consumed, inbox, up, wasReady, tails, life, flips>>
  BY DEF Fails, hosts, Lost
<1>2. /\ c \in ACall /\ c.acct \in Beings /\ c.run \in Nat /\ c.seq \in Nat /\ c.queue \in Seq(Nat)
      /\ SoundCall(c)
  BY Known, CallFields
<1>3. loss \in {Lost(0, c.by, c.seq, "error"), Retry(0, c.by, c.seq, "error")}
  OBVIOUS
<1> HIDE DEF loss
<1>4. c.seq # 0 /\ 0 \in Nat /\ "error" \in Reasons
  BY <1>1, <1>2 DEF Reasons
<1>5. /\ loss \in ARow /\ loss.seq \in Frames /\ loss.by = frames[loss.seq].by
      /\ frames[loss.seq].kind = "message" => frames[loss.seq].src = 0
  BY <1>3, <1>4, RowLeft
<1>6. /\ rows \subseteq rows' /\ rows' \subseteq ARow
      /\ \A r \in rows' \ rows : /\ r.seq \in Frames /\ r.by = frames[r.seq].by
                                 /\ frames[r.seq].kind = "message" => frames[r.seq].src = 0
  BY <1>1, <1>5, Known
<1>7. E \subseteq ACall /\ (\A w \in E : SoundCall(w) /\ w.seq = 0) /\ \A v, w \in E : v = w
  <2>1. CASE c.run > 0
    <3>1. E = Worker(c.acct, c.run, c.queue)
      BY <2>1
    <3>2. \A k \in 1 .. Len(c.queue) : /\ c.queue[k] \in Frames /\ frames[c.queue[k]].by = c.acct
                                       /\ ~Relayable(frames[c.queue[k]])
      BY <1>2 DEF SoundCall
    <3> HIDE DEF E
    <3> QED
      BY <1>2, <2>1, <3>1, <3>2, WorkerSound
  <2>2. CASE ~(c.run > 0)
    BY <2>2
  <2> QED
    BY <2>1, <2>2
<1> HIDE DEF E
<1>8. Kept \subseteq calls /\ wasReady' \in [Beings -> BOOLEAN] /\ pending' \subseteq By \X Text
  BY <1>1, Known DEF Inv, TypeOK
<1> HIDE DEF Kept
<1> QED
  BY <1>1, <1>6, <1>7, <1>8, CallsAndRows

(* A redelivery's next item is refused, passed over, or sent.              *)
LEMMA RedeliversKeeps ==
  ASSUME Cast, Inv, NEW c \in calls, Redelivers(c)
  PROVE  Inv'
<1> DEFINE n    == Head(c.queue)
           f    == frames[n]
           loss == Lost(0, c.by, n, "refused")
           rest == <<Chunks(f)[1]>>
           d    == [acct |-> c.acct, run |-> c.run, by |-> c.by, seq |-> n,
                    rest |-> rest, queue |-> Tail(c.queue), at |-> 0]
           Kept == calls \ {c}
           V    == Worker(c.acct, c.run, Tail(c.queue))
<1>1. /\ c.seq = 0
      /\ UNCHANGED <<frames, claims, posts, pending, marks, consumed, inbox, up, wasReady, tails, life, flips>>
  BY DEF Redelivers, hosts
<1>2. \/ rows' = rows \cup {loss} /\ calls' = Kept \cup V
      \/ rows' = rows /\ calls' = Kept \cup V
      \/ f.life >= life /\ f.kind # "media" /\ rows' = rows /\ calls' = Kept \cup {d}
  <2>1. life \in Nat /\ frames \in Seq(AFrame)
    BY Known
  <2>2. c.queue # <<>>
    BY <1>1, Known DEF SoundCall
  <2>3. f \in AFrame
    BY <2>1, <2>2, QueueGoesOn, Elements DEF Frames
  <2>4. f.life \in Nat
    BY <2>3, FrameFields
  <2> HIDE DEF f, d
  <2>5. ~Stale(f) => f.life >= life
    BY <2>1, <2>4 DEF Stale
  <2> QED
    BY <2>5 DEF Redelivers, Lost, f, d
<1>3. /\ c \in ACall /\ c.acct \in Beings /\ c.run \in Nat /\ c.by \in By
      /\ c.queue # <<>> /\ c.by = c.acct /\ c.run > 0
  BY <1>1, Known, CallFields DEF SoundCall
<1>4. /\ n \in Nat /\ Tail(c.queue) \in Seq(Nat)
      /\ n \in Frames /\ f.by = c.acct /\ ~Relayable(f)
      /\ \A k \in 1 .. Len(Tail(c.queue)) :
           /\ Tail(c.queue)[k] \in Frames /\ frames[Tail(c.queue)[k]].by = c.acct
           /\ ~Relayable(frames[Tail(c.queue)[k]])
  BY <1>3, QueueGoesOn
<1>5. f \in AFrame /\ f.life <= life /\ f.life \in Nat /\ life \in Nat /\ n # 0
  <2>1. f \in AFrame /\ f.life <= life /\ life \in Nat /\ n # 0
    BY <1>4, Known, Elements DEF FramesSound, Frames
  <2> QED
    BY <2>1, FrameFields
<1>6. rest \in Seq(Text) /\ rest # <<>> /\ Head(rest) \in Text
  <2>1. Chunks(f) \in Seq(Text) /\ Chunks(f) # <<>>
    BY <1>5, ChunksTyped
  <2>2. Chunks(f)[1] \in Text
    BY <2>1
  <2> QED
    BY <2>2, OneElement
<1> HIDE DEF rest
<1>7. /\ d \in ACall /\ d.at = 0 /\ d.acct = c.acct /\ d.run = c.run /\ d.by = c.by
      /\ d.seq = n /\ d.rest = rest /\ d.queue = Tail(c.queue)
  BY <1>3, <1>4, <1>6, ItemSent
<1>8. V \subseteq ACall /\ (\A w \in V : SoundCall(w) /\ w.seq = 0) /\ \A v, w \in V : v = w
  BY <1>3, <1>4, WorkerSound
<1>9. loss \in ARow /\ loss.seq = n /\ loss.by = c.by
  <2>1. 0 \in Nat /\ "refused" \in Reasons
    BY DEF Reasons
  <2> QED
    BY <1>3, <1>4, <2>1, FirstRow
<1> HIDE DEF loss, d, V
<1>10. f.kind # "message"
  BY <1>4 DEF Relayable
<1>11. /\ rows \subseteq rows' /\ rows' \subseteq ARow
       /\ \A r \in rows' \ rows : /\ r.seq \in Frames /\ r.by = frames[r.seq].by
                                  /\ frames[r.seq].kind = "message" => frames[r.seq].src = 0
  BY <1>2, <1>3, <1>4, <1>9, <1>10, Known
<1>12. Kept \subseteq calls /\ wasReady' \in [Beings -> BOOLEAN] /\ pending \subseteq pending' /\ pending' \subseteq By \X Text
  BY <1>1, Known DEF Inv, TypeOK
<1> HIDE DEF Kept
<1>13. CASE calls' = Kept \cup V
  BY <1>1, <1>8, <1>11, <1>12, <1>13, CallsAndRows
<1>14. CASE f.life >= life /\ f.kind # "media" /\ calls' = Kept \cup {d}
  <2>1. f.life = life
    BY <1>5, <1>14
  <2>2. f.kind = "speech"
    <3>1. f.kind \in Kinds
      BY <1>5, FrameFields
    <3> QED
      BY <1>4, <1>14, <3>1 DEF Kinds, Relayable
  <2>3. Voice(c.acct, f)
    BY <1>4, <2>2 DEF Voice
  <2>4. SoundCall(d)
    BY <1>3, <1>4, <1>5, <1>6, <1>7, <2>1, <2>3 DEF SoundCall
  <2> DEFINE E == {d}
  <2>5. /\ E \subseteq ACall /\ calls' = Kept \cup E
        /\ \A e \in E : SoundCall(e) /\ e.seq = n /\ e.run # 0
        /\ \A e, g \in E : e = g
    BY <1>3, <1>7, <1>14, <2>4
  <2> HIDE DEF E
  <2>6. \A e \in E : ~Relayable(frames[e.seq])
    BY <1>4, <2>5
  <2> QED
    BY <1>1, <1>11, <1>12, <2>5, <2>6, CallsAndRows
<1> QED
  BY <1>2, <1>13, <1>14

(* A seat takes what it has been handed.                                   *)
LEMMA AppliesKeeps ==
  ASSUME Cast, Inv, NEW b \in Beings, NEW id \in DOMAIN posts, Applies(b, id)
  PROVE  Inv'
<1> DEFINE p == posts[id]
           r == InRow(id, p.acct, <<p.text>>)
<1>1. /\ inbox' = [inbox EXCEPT ![b] = @ \ {id}] /\ tails' = Beings
      /\ UNCHANGED <<posts, up, wasReady, life, flips>>
  BY DEF Applies
<1>2. inbox' \in [Beings -> SUBSET DOMAIN posts]
  BY <1>1 DEF Inv, TypeOK
<1>3. /\ posts \in Seq(APost) /\ id \in Posts /\ rows \subseteq ARow /\ pending \subseteq By \X Text
      /\ consumed \subseteq rows /\ life \in Nat /\ Len(posts) \in Nat
  BY Known
<1>4. CASE UNCHANGED <<frames, rows, claims, calls, pending, marks, consumed>>
  <2>1. TypeOK'
    BY <1>1, <1>2, <1>4 DEF Inv, TypeOK
  <2> QED
    BY <1>1, <1>4, <2>1, HostsMove
<1>5. CASE /\ rows' = rows \cup {r} /\ pending' = pending \ {<<p.acct, p.text>>}
           /\ UNCHANGED <<frames, claims, calls, marks, consumed>>
  <2>1. p.acct \in By /\ p.text \in Text /\ id \in Nat
    BY <1>3, Elements, PostFields DEF Posts
  <2>2. <<p.text>> \in Seq(Text)
    BY <2>1, OneElement
  <2>3. r \in ARow /\ r.id = id /\ r.dir = "in"
    BY <2>1, <2>2, RowFields
  <2> HIDE DEF r
  <2>4. /\ rows \subseteq rows' /\ rows' \subseteq ARow /\ consumed' \subseteq rows'
        /\ \A q \in rows' \ rows : q.dir = "in"
    BY <1>3, <1>5, <2>3
  <2>5. TypeOK'
    BY <1>1, <1>2, <1>5, <2>4 DEF Inv, TypeOK
  <2>6. FramesSound' /\ RecordedOnce' /\ EchoIsNoMessage'
    BY <1>1, <1>3, <1>5, <2>4, Known, SameRecord DEF Posts
  <2>7. RowsSound'
    BY <1>5, <2>4, MoreRows
  <2>8. CallsSound'
    BY <1>1, <1>5, Known DEF CallsSound, Frames
  <2> DEFINE D == {}
  <2>9. calls' \subseteq calls \cup D /\ \A d \in D : FALSE
    BY <1>5
  <2> HIDE DEF D
  <2>10. PostsSound'
    BY <1>1, <1>5, <2>9, SamePosts
  <2>11. \A x \in pending \ pending' : \E i \in Posts :
           x = <<posts[i].acct, posts[i].text>> /\ \E q \in rows' : q.id = i
    BY <1>3, <1>5, <2>3
  <2>12. EchoSound'
    BY <1>1, <1>5, <2>4, <2>9, <2>11, StillAwaited
  <2> QED
    BY <2>5, <2>6, <2>7, <2>8, <2>10, <2>12 DEF Inv, PlatformSound
<1>6. CASE /\ ~Recorded(id) /\ ~EchoOf(p)
           /\ Appends(Frame("message", p.acct, <<p.text>>, life, id), rows \cup {r}, Beings)
  <2>1. Fits(Frame("message", p.acct, <<p.text>>, life, id), rows \cup {r}, Beings)
    BY <1>6, InputFits
  <2> DEFINE f == Frame("message", p.acct, <<p.text>>, life, id)
             rs == rows \cup {r}
  <2>2. Fits(f, rs, Beings) /\ Appends(f, rs, Beings)
    BY <1>6, <2>1
  <2> HIDE DEF f, rs
  <2> QED
    BY <1>1, <1>2, <2>2, AppendsKeep
<1> QED
  BY <1>4, <1>5, <1>6 DEF Applies, Without

(* The house ends, and starts again with its files and the platform.       *)
LEMMA EndsKeeps ==
  ASSUME Cast, Inv, NEW U \in AtBoot, NEW rs, Ends(U, rs),
         rows \subseteq rs, rs \subseteq ARow, \A r \in rs \ rows : r.dir = "in"
  PROVE  Inv'
<1>1. /\ life' = life + 1 /\ rows' = rs
      /\ calls' = {} /\ pending' = {} /\ marks' = <<>> /\ consumed' = {}
      /\ inbox' = [b \in Beings |-> {}]
      /\ up' = [b \in Beings |-> FALSE] /\ wasReady' = [b \in Beings |-> FALSE]
      /\ tails' = U
      /\ UNCHANGED <<frames, claims, posts, flips>>
  BY DEF Ends
<1>2. U \subseteq Beings /\ life \in Nat /\ life' \in Nat
  BY <1>1, Known DEF Cast
<1>3. TypeOK'
  <2>1. inbox' \in [Beings -> SUBSET DOMAIN posts]
    BY <1>1
  <2>2. up' \in [Beings -> BOOLEAN] /\ wasReady' \in [Beings -> BOOLEAN]
    BY <1>1
  <2>3. TypeOK
    BY Known
  <2> QED
    BY <1>1, <1>2, <2>1, <2>2, <2>3 DEF TypeOK
<1>4. FramesSound' /\ RecordedOnce' /\ EchoIsNoMessage'
  <2>1. life <= life' /\ rows \subseteq rows'
    BY <1>1, <1>2
  <2> QED
    BY <1>1, <1>2, <2>1, Known, SameRecord DEF Posts
<1>5. RowsSound'
  <2>1. consumed' \subseteq rows' /\ \A r \in rows' \ rows : r.dir # "out"
    BY <1>1
  <2> QED
    BY <1>1, <2>1, MoreRows
<1>6. CallsSound'
  BY <1>1 DEF CallsSound
<1>7. PostsSound'
  BY <1>1, Known DEF PostsSound, OwnPosts, FrameOf, Frames
<1>8. EchoSound'
  <2>1. \A i \in OwnPosts : posts[i].life # life'
    <3> SUFFICES ASSUME NEW i \in OwnPosts PROVE posts[i].life # life'
      OBVIOUS
    <3>1. posts[i].seq \in Frames /\ posts[i].life = frames[posts[i].seq].life
      BY Known DEF PostsSound, FrameOf
    <3>2. frames[posts[i].seq].life <= life /\ frames[posts[i].seq] \in AFrame
      BY <3>1, Known, Elements DEF FramesSound, Frames
    <3>3. frames[posts[i].seq].life \in Nat
      BY <3>2, FrameFields
    <3> QED
      BY <1>1, <1>2, <3>1, <3>2, <3>3
  <2>2. OwnPosts' = OwnPosts
    BY <1>1 DEF OwnPosts
  <2> QED
    BY <1>1, <2>1, <2>2 DEF EchoSound
<1> QED
  BY <1>3, <1>4, <1>5, <1>6, <1>7, <1>8 DEF Inv, PlatformSound

(* It may end between the row of a message and its frame.                  *)
LEMMA EndsInInputKeeps ==
  ASSUME Cast, Inv, NEW U \in AtBoot, NEW b \in Beings, NEW id \in inbox[b], EndsInInput(b, id, U)
  PROVE  Inv'
<1> DEFINE r == InRow(id, posts[id].acct, <<posts[id].text>>)
<1>1. id \in Posts /\ id \in Nat /\ posts[id] \in APost
  <2>1. id \in DOMAIN posts
    BY Known DEF TypeOK
  <2> QED
    BY <2>1, Known, Elements DEF Posts
<1>2. posts[id].acct \in By /\ posts[id].text \in Text
  BY <1>1, PostFields
<1>3. <<posts[id].text>> \in Seq(Text)
  BY <1>2, OneElement
<1>4. r \in ARow /\ r.dir = "in"
  BY <1>1, <1>2, <1>3, RowFields
<1>5. Ends(U, rows \cup {r})
  BY DEF EndsInInput
<1> HIDE DEF r
<1> DEFINE rs == rows \cup {r}
<1>6. rows \subseteq rs /\ rs \subseteq ARow /\ \A q \in rs \ rows : q.dir = "in"
  BY <1>4, Known
<1> HIDE DEF rs
<1> QED
  BY <1>5, <1>6, EndsKeeps DEF rs

-----------------------------------------------------------------------------
(* The whole.                                                              *)

(* A house starts on an empty record.                                      *)
LEMMA InitSound ==
  ASSUME Cast, Init
  PROVE  Inv
<1>1. /\ frames = <<>> /\ rows = {} /\ claims = {} /\ posts = <<>>
      /\ inbox = [b \in Beings |-> {}]
      /\ up = [b \in Beings |-> FALSE] /\ wasReady = [b \in Beings |-> FALSE]
      /\ tails \in AtBoot
      /\ calls = {} /\ pending = {} /\ marks = <<>> /\ consumed = {}
      /\ life = 1 /\ flips = 0
  BY DEF Init
<1>2. frames \in Seq(AFrame) /\ posts \in Seq(APost)
  BY <1>1
<1>3. up \in [Beings -> BOOLEAN] /\ wasReady \in [Beings -> BOOLEAN] /\ inbox \in [Beings -> SUBSET DOMAIN posts]
  BY <1>1
<1>4. tails \subseteq Beings /\ life \in Nat /\ flips \in Nat
  BY <1>1 DEF Cast
<1>5. TypeOK
  BY <1>1, <1>2, <1>3, <1>4 DEF TypeOK
<1>6. DOMAIN frames = {} /\ Frames = {} /\ DOMAIN posts = {}
  BY <1>1 DEF Frames
<1>7. OwnPosts = {}
  BY <1>6 DEF OwnPosts
<1>8. FramesSound
  BY <1>6 DEF FramesSound
<1>9. RowsSound /\ CallsSound /\ PostsSound
  BY <1>1, <1>7 DEF RowsSound, CallsSound, PostsSound
<1>10. EchoSound
  BY <1>1, <1>7 DEF EchoSound
<1>11. RecordedOnce /\ EchoIsNoMessage
  BY <1>6 DEF RecordedOnce, EchoIsNoMessage
<1> QED
  BY <1>5, <1>8, <1>9, <1>10, <1>11 DEF Inv, PlatformSound

(* Every handler keeps the invariant.                                      *)
LEMMA StepSound ==
  ASSUME Cast, Inv, [Next]_vars
  PROVE  Inv'
<1>1. CASE UNCHANGED vars
  <2>1. TypeOK'
    BY <1>1 DEF Inv, TypeOK, vars
  <2> QED
    BY <1>1, <2>1, HostsMove DEF vars
<1>2. ASSUME NEW b \in Beings, Polls(b) \/ HostUp(b) \/ HostDown(b) PROVE Inv'
  BY <1>2, PollsKeeps, HostUpKeeps, HostDownKeeps
<1>3. ASSUME NEW b \in Speakers, NEW sp \in Speeches, Speaks(b, sp) PROVE Inv'
  BY <1>3, SpeaksKeeps
<1>4. ASSUME NEW by \in Speakers \cup {Human}, Attaches(by) PROVE Inv'
  BY <1>4, AttachesKeeps
<1>5. ASSUME NEW x \in Lines,
             \/ TypesInApp(x) \/ Notice(x) \/ HumanPosts(x)
             \/ Retrofit("message", Human, x)
             \/ \E b \in Speakers : Retrofit("speech", b, x)
      PROVE  Inv'
  <2>1. ASSUME Retrofit("message", Human, x) PROVE Inv'
    <3>1. "message" \in Kinds /\ Human \in By
      BY DEF Kinds, By
    <3> QED
      BY <2>1, <3>1, RetrofitKeeps
  <2>2. ASSUME NEW b \in Speakers, Retrofit("speech", b, x) PROVE Inv'
    <3>1. "speech" \in Kinds /\ b \in By
      BY DEF Kinds, By, Cast
    <3> QED
      BY <2>2, <3>1, RetrofitKeeps
  <2> QED
    BY <1>5, <2>1, <2>2, TypesKeeps, NoticeKeeps, HumanPostsKeeps
<1>6. ASSUME NEW b \in Beings, NEW id \in DOMAIN posts, Applies(b, id) PROVE Inv'
  BY <1>6, AppliesKeeps
<1>7. ASSUME NEW c \in calls, Lands(c) \/ Returns(c) \/ Fails(c) \/ Redelivers(c) PROVE Inv'
  BY <1>7, LandsKeeps, ReturnsKeeps, FailsKeeps, RedeliversKeeps
<1>8. ASSUME NEW U \in AtBoot, Restart(U) PROVE Inv'
  <2>1. Ends(U, rows) /\ rows \subseteq ARow
    BY <1>8, Known DEF Restart
  <2> QED
    BY <2>1, EndsKeeps
<1>9. ASSUME NEW U \in AtBoot, NEW b \in Beings, NEW id \in inbox[b], EndsInInput(b, id, U) PROVE Inv'
  BY <1>9, EndsInInputKeeps
<1>10. CASE Next
  BY <1>2, <1>3, <1>4, <1>5, <1>6, <1>7, <1>8, <1>9, <1>10 DEF Next
<1> QED
  BY <1>1, <1>10

(* In every state the room's files, calls and posts are in keeping.        *)
LEMMA AlwaysSound ==
  Spec => []Inv
<1>1. Init => Inv
  BY InitSound, CastAssumption
<1>2. Inv /\ [Next]_vars => Inv'
  BY StepSound, CastAssumption
<1> QED
  BY <1>1, <1>2, PTL DEF Spec

(* Frames, rows, posts and calls are what the handlers can write.          *)
THEOREM TypesKept ==
  Spec => []TypeOK
<1>1. Inv => TypeOK
  BY DEF Inv
<1> QED
  BY <1>1, AlwaysSound, PTL

(* Neither way is anything doubled: one message at most for each post, and *)
(* no frame that is relayed is posted twice, or goes back to where it came *)
(* from, or goes out in a later run of the house than it was written in.   *)
THEOREM NothingIsDoubled ==
  Spec => []OnceEach
<1>1. ASSUME Inv PROVE OnceEach
  <2>1. RecordedOnce /\ PostsSound
    BY <1>1 DEF Inv, PlatformSound
  <2>2. NothingOld
    BY <2>1 DEF NothingOld, PostsSound
  <2>3. RelayedOnce
    BY <2>1 DEF RelayedOnce, PostsSound, Voice, Relayable
  <2> QED
    BY <2>1, <2>2, <2>3 DEF OnceEach, NewOnce
<1> QED
  BY <1>1, AlwaysSound, PTL

(* An account says its own being's frames, what a person attached, and the *)
(* owner's alone relays: whatever is lost, redelivered or restarted.       *)
THEOREM EachSpeaksForItself ==
  Spec => []OwnVoice
<1>1. ASSUME Inv PROVE OwnVoice
  <2>1. PostsSound
    BY <1>1 DEF Inv, PlatformSound
  <2> QED
    BY <2>1 DEF OwnVoice, PostsSound, Voice
<1> QED
  BY <1>1, AlwaysSound, PTL

(* A being's words that come back by another account are no message, but   *)
(* for the four cases that the property names.                             *)
THEOREM EchoesAreNoMessages ==
  Spec => []EchoIsNoMessage
<1>1. Inv => EchoIsNoMessage
  BY DEF Inv, PlatformSound
<1> QED
  BY <1>1, AlwaysSound, PTL

-----------------------------------------------------------------------------
(* Wakings.                                                                *)

(* What a tick goes by, the history of the beings, is never older than the *)
(* room's last waking.                                                     *)
Remembered ==
  /\ history \in [Sleepers -> 0 .. Gap] /\ sinceWoken \in 0 .. Gap
  /\ sinceWoken < Gap => \E b \in Sleepers : history[b] <= sinceWoken

(* A tick wakes a being only where nobody was woken within the gap.        *)
LEMMA TickRemembers ==
  ASSUME Remembered, W!Tick
  PROVE  Remembered'
<1>1. Gap \in Nat
  BY PartsAssumption
<1>2. PICK due \in [W!Fresh -> 0 .. SeedWithin] :
        LET a == [b \in Sleepers |-> IF b \in W!Fresh THEN due[b] ELSE alarm[b]]
            h == [b \in Sleepers |-> IF b \in W!Lapsed(a) THEN 0 ELSE history[b]]
        IN \/ history' = h /\ sinceWoken' = sinceWoken
           \/ \E b \in W!Picks(a, h) : history' = W!Entered(b, h) /\ sinceWoken' = W!Woken
  BY DEF W!Tick
<1> DEFINE a == [b \in Sleepers |-> IF b \in W!Fresh THEN due[b] ELSE alarm[b]]
           h == [b \in Sleepers |-> IF b \in W!Lapsed(a) THEN 0 ELSE history[b]]
<1>3. h \in [Sleepers -> 0 .. Gap] /\ \A b \in Sleepers : h[b] <= history[b]
  <2> HIDE DEF a
  <2> QED
    BY <1>1 DEF Remembered
<1>4. CASE history' = h /\ sinceWoken' = sinceWoken
  <2> HIDE DEF h
  <2>1. ASSUME sinceWoken < Gap PROVE \E b \in Sleepers : h[b] <= sinceWoken
    <3>1. PICK b \in Sleepers : history[b] <= sinceWoken
      BY <2>1 DEF Remembered
    <3>2. h[b] \in 0 .. Gap /\ history[b] \in 0 .. Gap /\ h[b] <= history[b] /\ sinceWoken \in 0 .. Gap
      BY <1>3 DEF Remembered
    <3> QED
      BY <1>1, <3>1, <3>2
  <2> QED
    BY <1>3, <1>4, <2>1 DEF Remembered
<1>5. ASSUME NEW b \in W!Picks(a, h), history' = W!Entered(b, h), sinceWoken' = W!Woken
      PROVE  Remembered'
  <2>1. b \in Sleepers /\ ~W!InGap(h)
    <3> HIDE DEF a, h
    <3> QED
      BY <1>5 DEF W!Picks, W!Free, W!Due
  <2> HIDE DEF h
  <2>2. \A c \in Sleepers : h[c] = Gap
    BY <1>1, <1>3, <2>1 DEF W!InGap
  <2>3. sinceWoken = Gap
    <3>1. \A c \in Sleepers : history[c] = Gap
      BY <1>1, <1>3, <2>2 DEF Remembered
    <3> QED
      BY <1>1, <3>1 DEF Remembered
  <2>4. sinceWoken' = 0
    BY <1>5, <2>3 DEF W!Woken
  <2>5. history' \in [Sleepers -> 0 .. Gap] /\ history'[b] = 0
    BY <1>1, <1>3, <1>5, <2>1 DEF W!Entered
  <2> QED
    BY <1>1, <2>1, <2>4, <2>5 DEF Remembered
<1> HIDE DEF a, h
<1> QED
  BY <1>2, <1>4, <1>5 DEF a, h

(* Time passes, for the room and for each being alike.                     *)
LEMMA PassingRemembers ==
  ASSUME Remembered, W!Passes
  PROVE  Remembered'
<1>1. Gap \in Nat
  BY PartsAssumption
<1>2. /\ history' = [b \in Sleepers |-> W!Younger(history[b], Gap)]
      /\ sinceWoken' = W!Younger(sinceWoken, Gap)
  BY DEF W!Passes
<1>3. \A n \in 0 .. Gap : /\ W!Younger(n, Gap) \in 0 .. Gap
                          /\ W!Younger(n, Gap) < Gap => n < Gap /\ W!Younger(n, Gap) = n + 1
                          /\ W!Younger(n, Gap) <= n + 1
  BY <1>1 DEF W!Younger
<1>4. history' \in [Sleepers -> 0 .. Gap] /\ sinceWoken' \in 0 .. Gap
  BY <1>2, <1>3 DEF Remembered
<1>5. ASSUME sinceWoken' < Gap PROVE \E b \in Sleepers : history'[b] <= sinceWoken'
  <2>1. sinceWoken < Gap /\ sinceWoken' = sinceWoken + 1 /\ sinceWoken \in 0 .. Gap
    BY <1>2, <1>3, <1>5 DEF Remembered
  <2>2. PICK b \in Sleepers : history[b] <= sinceWoken
    BY <2>1 DEF Remembered
  <2>3. history[b] \in 0 .. Gap /\ history'[b] <= history[b] + 1 /\ history'[b] \in 0 .. Gap
    BY <1>2, <1>3, <1>4 DEF Remembered
  <2> QED
    BY <1>1, <2>1, <2>2, <2>3
<1> QED
  BY <1>4, <1>5 DEF Remembered

(* However turns end, are refused or cut off by a restart, two wakings of  *)
(* a room are Gap apart (wakings.mjs, pick): for any number of beings and  *)
(* every value of the gap, the floor, the ceiling and the lapse.           *)
THEOREM WakingsStayApart ==
  MCSpec => []WakingsApart
<1>1. MCInit => Remembered
  <2> SUFFICES ASSUME MCInit PROVE Remembered
    OBVIOUS
  <2>1. history = [b \in Sleepers |-> Gap] /\ sinceWoken = Gap
    BY DEF MCInit, W!Init
  <2> QED
    BY <2>1, PartsAssumption DEF Remembered
<1>2. Remembered /\ [MCNext]_upkeepVars => Remembered'
  <2> SUFFICES ASSUME Remembered, [MCNext]_upkeepVars PROVE Remembered'
    OBVIOUS
  <2>1. W!Next \/ UNCHANGED wakeVars
    BY DEF MCNext, upkeepVars
  <2>2. CASE history' = history /\ sinceWoken' = sinceWoken
    BY <2>2 DEF Remembered
  <2>3. CASE W!Tick \/ W!Passes
    BY <2>3, TickRemembers, PassingRemembers
  <2>4. ASSUME W!Next PROVE W!Tick \/ W!Passes \/ (history' = history /\ sinceWoken' = sinceWoken)
    BY <2>4 DEF W!Next, W!HumanSpeaks, W!Closes, W!Opens, W!Turns, W!TurnEnds, W!WakeMe, W!Disk
  <2> QED
    BY <2>1, <2>2, <2>3, <2>4 DEF wakeVars
<1>3. Remembered => WakingsApart
  BY PartsAssumption DEF Remembered, WakingsApart, W!WakingsApart
<1> QED
  BY <1>1, <1>2, <1>3, PTL DEF MCSpec

-----------------------------------------------------------------------------
(* Park: sequences.                                                        *)

Rising(s) == \A i, j \in 1 .. Len(s) : i < j => s[i] < s[j]
Below(s, t) == \A i \in 1 .. Len(s), j \in 1 .. Len(t) : s[i] < t[j]
UpTo(s, n) == \A i \in 1 .. Len(s) : s[i] <= n

(* s is the end of t.                                                      *)
EndOf(s, t) ==
  /\ s \in Seq(Nat) /\ Len(s) <= Len(t)
  /\ \A i \in 1 .. Len(s) : s[i] = t[i + (Len(t) - Len(s))]

(* The end of a sequence is in its order.                                  *)
LEMMA EndKeeps ==
  ASSUME NEW s, NEW t \in Seq(Nat), EndOf(s, t)
  PROVE  /\ ToSet(s) \subseteq ToSet(t)
         /\ Rising(t) => Rising(s)
         /\ \A n \in Nat : UpTo(t, n) => UpTo(s, n)
         /\ \A u \in Seq(Nat) : /\ Below(t, u) => Below(s, u)
                                /\ Below(u, t) => Below(u, s)
<1>1. s \in Seq(Nat) /\ Len(s) \in Nat /\ Len(t) \in Nat /\ Len(s) <= Len(t)
  BY DEF EndOf
<1> DEFINE k == Len(t) - Len(s)
<1>2. k \in Nat /\ \A i \in 1 .. Len(s) : i + k \in 1 .. Len(t) /\ s[i] = t[i + k]
  BY <1>1 DEF EndOf
<1>3. \A i, j \in 1 .. Len(s) : i < j => i + k < j + k
  BY <1>1, <1>2
<1> HIDE DEF k
<1>4. ToSet(s) \subseteq ToSet(t)
  <2>1. DOMAIN s = 1 .. Len(s) /\ DOMAIN t = 1 .. Len(t)
    BY <1>1
  <2> QED
    BY <1>2, <2>1 DEF ToSet
<1>5. Rising(t) => Rising(s)
  BY <1>2, <1>3 DEF Rising
<1>6. \A n \in Nat : UpTo(t, n) => UpTo(s, n)
  BY <1>2 DEF UpTo
<1>7. \A u \in Seq(Nat) : (Below(t, u) => Below(s, u)) /\ (Below(u, t) => Below(u, s))
  BY <1>2 DEF Below
<1> QED
  BY <1>4, <1>5, <1>6, <1>7

(* What is left when the first is gone.                                    *)
LEMMA HeadAndTail ==
  ASSUME NEW t \in Seq(Nat), t # <<>>
  PROVE  /\ EndOf(Tail(t), t) /\ Head(t) \in Nat /\ Tail(t) \in Seq(Nat)
         /\ ToSet(t) = {Head(t)} \cup ToSet(Tail(t))
         /\ Rising(t) => \A i \in 1 .. Len(Tail(t)) : Head(t) < Tail(t)[i]
         /\ Head(t) = t[1] /\ 1 \in 1 .. Len(t)
<1>1. Len(t) \in Nat /\ Len(t) >= 1 /\ Head(t) = t[1] /\ Head(t) \in Nat
  BY EmptySeq
<1>2. Tail(t) \in Seq(Nat) /\ Len(Tail(t)) = Len(t) - 1
      /\ \A i \in 1 .. Len(Tail(t)) : Tail(t)[i] = t[i + 1]
  BY <1>1
<1> DEFINE r == Tail(t)
<1> HIDE DEF r
<1>3. r \in Seq(Nat) /\ Len(r) = Len(t) - 1 /\ \A i \in 1 .. Len(r) : r[i] = t[i + 1]
  BY <1>2 DEF r
<1>4. EndOf(r, t)
  BY <1>1, <1>3 DEF EndOf
<1>5. ToSet(r) \subseteq ToSet(t) /\ Head(t) \in ToSet(t)
  BY <1>1, <1>4, EndKeeps DEF ToSet
<1>6. ASSUME NEW x \in ToSet(t), x # Head(t) PROVE x \in ToSet(r)
  <2>1. PICK i \in 1 .. Len(t) : x = t[i]
    BY <1>1 DEF ToSet
  <2>2. i # 1
    BY <1>1, <1>6, <2>1
  <2>3. i - 1 \in 1 .. Len(r) /\ i = (i - 1) + 1
    BY <1>1, <1>3, <2>2
  <2>4. r[i - 1] = x
    BY <1>3, <2>1, <2>3
  <2>5. 1 .. Len(r) = DOMAIN r
    BY <1>3
  <2> QED
    BY <2>3, <2>4, <2>5 DEF ToSet
<1>7. Rising(t) => \A i \in 1 .. Len(r) : Head(t) < r[i]
  <2> SUFFICES ASSUME Rising(t), NEW i \in 1 .. Len(r) PROVE Head(t) < r[i]
    OBVIOUS
  <2>1. 1 \in 1 .. Len(t) /\ i + 1 \in 1 .. Len(t) /\ 1 < i + 1
    BY <1>1, <1>3
  <2> QED
    BY <1>1, <1>3, <2>1 DEF Rising
<1> QED
  BY <1>1, <1>3, <1>4, <1>5, <1>6, <1>7 DEF r

(* A number above all the others comes last.                               *)
LEMMA Appended ==
  ASSUME NEW t \in Seq(Nat), NEW m \in Nat
  PROVE  /\ Append(t, m) \in Seq(Nat) /\ Append(t, m) # <<>>
         /\ ToSet(Append(t, m)) = ToSet(t) \cup {m}
         /\ Rising(t) /\ (\A i \in 1 .. Len(t) : t[i] < m) => Rising(Append(t, m))
         /\ \A n \in Nat : UpTo(t, n) /\ m <= n => UpTo(Append(t, m), n)
         /\ \A u \in Seq(Nat) :
              /\ Below(u, t) /\ (\A i \in 1 .. Len(u) : u[i] < m) => Below(u, Append(t, m))
              /\ Below(t, u) /\ (\A i \in 1 .. Len(u) : m < u[i]) => Below(Append(t, m), u)
<1> DEFINE r == Append(t, m)
<1>1. r \in Seq(Nat) /\ Len(r) = Len(t) + 1 /\ Len(t) \in Nat
      /\ (\A i \in 1 .. Len(t) : r[i] = t[i]) /\ r[Len(t) + 1] = m
  OBVIOUS
<1> HIDE DEF r
<1>2. \A i \in 1 .. Len(r) : \/ i \in 1 .. Len(t) /\ r[i] = t[i]
                             \/ i = Len(t) + 1 /\ r[i] = m
  BY <1>1
<1>3. r # <<>>
  BY <1>1, EmptySeq
<1>4. ToSet(r) = ToSet(t) \cup {m}
  <2>1. DOMAIN r = 1 .. Len(r) /\ DOMAIN t = 1 .. Len(t) /\ Len(t) + 1 \in 1 .. Len(r)
        /\ 1 .. Len(t) \subseteq 1 .. Len(r)
    BY <1>1
  <2> QED
    BY <1>1, <1>2, <2>1 DEF ToSet
<1>5. Rising(t) /\ (\A i \in 1 .. Len(t) : t[i] < m) => Rising(r)
  <2> SUFFICES ASSUME Rising(t), \A i \in 1 .. Len(t) : t[i] < m,
                      NEW i \in 1 .. Len(r), NEW j \in 1 .. Len(r), i < j
               PROVE  r[i] < r[j]
    BY DEF Rising
  <2>1. i \in 1 .. Len(t) /\ r[i] = t[i]
    BY <1>1, <1>2
  <2>2. CASE j \in 1 .. Len(t) /\ r[j] = t[j]
    BY <2>1, <2>2 DEF Rising
  <2>3. CASE j = Len(t) + 1 /\ r[j] = m
    BY <2>1, <2>3
  <2> QED
    BY <1>2, <2>2, <2>3
<1>6. \A n \in Nat : UpTo(t, n) /\ m <= n => UpTo(r, n)
  BY <1>2 DEF UpTo
<1>7. \A u \in Seq(Nat) :
         /\ Below(u, t) /\ (\A i \in 1 .. Len(u) : u[i] < m) => Below(u, r)
         /\ Below(t, u) /\ (\A i \in 1 .. Len(u) : m < u[i]) => Below(r, u)
  BY <1>2 DEF Below
<1> QED
  BY <1>1, <1>3, <1>4, <1>5, <1>6, <1>7 DEF r

(* slice(-CAP) keeps the end, and of a queue the message just pushed.      *)
LEMMA NewestIs ==
  ASSUME NEW t \in Seq(Nat), t # <<>>
  PROVE  /\ EndOf(K!Newest(t), t)
         /\ t[Len(t)] \in ToSet(K!Newest(t)) /\ K!Newest(t) # <<>>
<1>1. Cap \in Nat /\ Cap >= 1
  BY PartsAssumption
<1>2. Len(t) \in Nat /\ Len(t) >= 1
  BY EmptySeq
<1> DEFINE k == IF Len(t) > Cap THEN Len(t) - Cap + 1 ELSE 1
           r == SubSeq(t, k, Len(t))
<1>3. k \in Nat /\ 1 <= k /\ k <= Len(t)
  BY <1>1, <1>2
<1> HIDE DEF k
<1>4. r \in Seq(Nat) /\ Len(r) = Len(t) - k + 1
      /\ \A i \in 1 .. (Len(t) - k + 1) : r[i] = t[k + i - 1]
  BY <1>2, <1>3, SubSeqProperties
<1>5. K!Newest(t) = r
  BY DEF K!Newest, k
<1> HIDE DEF r
<1>6. EndOf(r, t)
  <2>1. \A i \in 1 .. Len(r) : k + i - 1 = i + (Len(t) - Len(r))
    BY <1>2, <1>3, <1>4
  <2> QED
    BY <1>2, <1>3, <1>4, <2>1 DEF EndOf
<1>7. Len(r) \in 1 .. Len(r) /\ r[Len(r)] = t[Len(t)]
  <2>1. Len(r) >= 1 /\ Len(r) \in Nat /\ Len(r) + (Len(t) - Len(r)) = Len(t)
    BY <1>2, <1>3, <1>4
  <2>2. Len(r) \in 1 .. Len(r)
    BY <2>1
  <2>3. \A i \in 1 .. Len(r) : r[i] = t[i + (Len(t) - Len(r))]
    BY <1>6 DEF EndOf
  <2>4. r[Len(r)] = t[Len(r) + (Len(t) - Len(r))]
    BY <2>2, <2>3
  <2> QED
    BY <2>1, <2>2, <2>4
<1>8. t[Len(t)] \in ToSet(r) /\ r # <<>>
  BY <1>4, <1>7, EmptySeq DEF ToSet
<1> QED
  BY <1>5, <1>6, <1>8

-----------------------------------------------------------------------------
(* Park: the invariant.                                                    *)

Fates == {"none", "waiting", "parked", "cut"} \cup K!Ends
Queued == IF queue = 0 THEN <<>> ELSE heap[queue]
Parked == {m \in K!Messages : fate[m] = "parked"}

DrainsTyped ==
  /\ drains \in [1 .. MaxDrains -> [array : 0 .. Len(heap), message : 0 .. MaxMessages, pushes : Nat]]
  /\ \A d \in K!Running : /\ drains[d].array \in 1 .. Len(heap) /\ drains[d].message \in K!Messages
                          /\ drains[d].pushes <= pushes

ParkTyped ==
  /\ arrived \in 0 .. MaxMessages
  /\ chain \in Seq(K!Messages)
  /\ heap \in Seq(Seq(K!Messages))
  /\ queue \in 0 .. Len(heap)
  /\ DrainsTyped
  /\ fate \in [K!Messages -> Fates]
  /\ replayed \in Seq(K!Messages)
  /\ overlaps \in BOOLEAN /\ pushes \in Nat

OneDrain == ~overlaps => \A d, e \in K!Running : d = e

(* Until a second message is parked while it runs, the drain goes through  *)
(* an array that holds every parked message, and so does the map's.        *)
DrainKept ==
  ~overlaps /\ pushes <= 1 =>
    /\ Parked \subseteq ToSet(Queued)
    /\ \A d \in K!Running :
         /\ heap[drains[d].array] # <<>> /\ drains[d].message = Head(heap[drains[d].array])
         /\ Parked \subseteq ToSet(heap[drains[d].array])
         /\ drains[d].pushes = 0 => drains[d].array = queue

(* Until one is, what was replayed, what is parked and what waits is in    *)
(* the order it came.                                                      *)
InOrder ==
  ~overlaps /\ pushes = 0 =>
    /\ Rising(replayed) /\ Rising(Queued) /\ Rising(chain)
    /\ Below(replayed, Queued) /\ Below(replayed, chain) /\ Below(Queued, chain)
    /\ UpTo(replayed, arrived) /\ UpTo(Queued, arrived) /\ UpTo(chain, arrived)

ParkKept == ParkTyped /\ OneDrain /\ DrainKept /\ InOrder

(* Messages are numbers.                                                   *)
LEMMA Numbers ==
  ASSUME ParkTyped
  PROVE  /\ K!Messages \subseteq Nat /\ Seq(K!Messages) \subseteq Seq(Nat)
         /\ Queued \in Seq(K!Messages) /\ Queued \in Seq(Nat)
         /\ replayed \in Seq(Nat) /\ chain \in Seq(Nat) /\ arrived \in Nat
<1>1. K!Messages \subseteq Nat
  BY PartsAssumption DEF K!Messages
<1>2. Seq(K!Messages) \subseteq Seq(Nat)
  BY <1>1, SeqMonotonic
<1>3. Queued \in Seq(K!Messages)
  BY DEF ParkTyped, Queued
<1> QED
  BY <1>1, <1>2, <1>3, PartsAssumption DEF ParkTyped

(* Where the arrays and the drains stay and no message is parked, what is  *)
(* said of them stays true.                                                *)
LEMMA ArraysStay ==
  ASSUME ParkKept, UNCHANGED <<heap, queue, drains, overlaps, pushes>>, Parked' \subseteq Parked
  PROVE  DrainsTyped' /\ OneDrain' /\ DrainKept' /\ Queued' = Queued
<1>1. K!Running' = K!Running /\ Queued' = Queued
  BY DEF K!Running, K!Idle, Queued
<1>2. DrainsTyped'
  BY <1>1 DEF ParkKept, ParkTyped, DrainsTyped
<1>3. OneDrain'
  BY <1>1 DEF ParkKept, OneDrain
<1>4. DrainKept'
  BY <1>1 DEF ParkKept, DrainKept
<1> QED
  BY <1>1, <1>2, <1>3, <1>4

(* A message is accepted.                                                  *)
LEMMA ArrivingKeeps ==
  ASSUME ParkKept, K!OnIncoming
  PROVE  ParkKept'
<1>1. ParkTyped
  BY DEF ParkKept
<1>2. arrived + 1 \in K!Messages /\ arrived + 1 \in Nat /\ arrived' = arrived + 1
  BY <1>1, PartsAssumption DEF ParkTyped, K!OnIncoming, K!Messages
<1>3. fate' = [fate EXCEPT ![arrived + 1] = "waiting"] /\ fate \in [K!Messages -> Fates]
  BY <1>1 DEF ParkTyped, K!OnIncoming
<1>4. fate' \in [K!Messages -> Fates] /\ Parked' \subseteq Parked
  BY <1>2, <1>3 DEF Fates, Parked, K!Messages
<1>5. UNCHANGED <<heap, queue, drains, overlaps, pushes, replayed>>
  BY DEF K!OnIncoming
<1>6. DrainsTyped' /\ OneDrain' /\ DrainKept' /\ Queued' = Queued
  BY <1>4, <1>5, ArraysStay
<1>7. chain' = Append(chain, arrived + 1) /\ chain' \in Seq(K!Messages)
  BY <1>1, <1>2 DEF ParkTyped, K!OnIncoming
<1>8. ParkTyped'
  <2>1. arrived' \in 0 .. MaxMessages
    BY <1>2, PartsAssumption DEF K!Messages
  <2>2. heap' \in Seq(Seq(K!Messages)) /\ queue' \in 0 .. Len(heap') /\ replayed' \in Seq(K!Messages)
        /\ overlaps' \in BOOLEAN /\ pushes' \in Nat
    BY <1>1, <1>5 DEF ParkTyped
  <2>3. K!Messages' = K!Messages
    BY DEF K!Messages
  <2> QED
    BY <1>4, <1>6, <1>7, <2>1, <2>2, <2>3 DEF ParkTyped
<1>9. InOrder'
  <2> SUFFICES ASSUME ~overlaps, pushes = 0
               PROVE  /\ Rising(replayed) /\ Rising(Queued) /\ Rising(chain')
                      /\ Below(replayed, Queued) /\ Below(replayed, chain') /\ Below(Queued, chain')
                      /\ UpTo(replayed, arrived + 1) /\ UpTo(Queued, arrived + 1)
                      /\ UpTo(chain', arrived + 1)
    BY <1>2, <1>5, <1>6 DEF InOrder
  <2>1. /\ Rising(replayed) /\ Rising(Queued) /\ Rising(chain)
        /\ Below(replayed, Queued) /\ Below(replayed, chain) /\ Below(Queued, chain)
        /\ UpTo(replayed, arrived) /\ UpTo(Queued, arrived) /\ UpTo(chain, arrived)
    BY DEF ParkKept, InOrder
  <2>2. \A s \in Seq(Nat) : UpTo(s, arrived) =>
          UpTo(s, arrived + 1) /\ \A i \in 1 .. Len(s) : s[i] < arrived + 1
    <3>1. ASSUME NEW s \in Seq(Nat), UpTo(s, arrived), NEW i \in 1 .. Len(s)
          PROVE  s[i] <= arrived + 1 /\ s[i] < arrived + 1
      <4>1. s[i] \in Nat /\ s[i] <= arrived /\ arrived \in Nat
        BY <1>1, <3>1, Numbers DEF UpTo
      <4> QED
        BY <4>1
    <3> QED
      BY <3>1 DEF UpTo
  <2>3. replayed \in Seq(Nat) /\ Queued \in Seq(Nat) /\ chain \in Seq(Nat)
    BY <1>1, Numbers
  <2>4. Rising(chain') /\ Below(replayed, chain') /\ Below(Queued, chain')
    BY <1>2, <1>7, <2>1, <2>2, <2>3, Appended
  <2>5. UpTo(chain', arrived + 1)
    BY <1>2, <1>7, <2>1, <2>2, <2>3, Appended
  <2> QED
    BY <2>1, <2>2, <2>3, <2>4, <2>5
<1> QED
  BY <1>6, <1>8, <1>9 DEF ParkKept

(* A message is applied when its turn comes, or fails for good.            *)
LEMMA ApplyingKeeps ==
  ASSUME ParkKept, NEW end \in K!Ends, K!Guarded(end)
  PROVE  ParkKept'
<1>1. ParkTyped /\ chain \in Seq(K!Messages) /\ chain # <<>> /\ chain' = Tail(chain)
  BY DEF ParkKept, ParkTyped, K!Guarded
<1>2. end # "locked" /\ end # "parked" /\ end \in Fates
  BY DEF K!Ends, Fates
<1>3. fate' = [fate EXCEPT ![Head(chain)] = end] /\ fate \in [K!Messages -> Fates]
      /\ UNCHANGED <<heap, queue, drains, overlaps, pushes, replayed, arrived>>
  BY <1>1, <1>2 DEF K!Guarded, ParkTyped
<1>4. chain' \in Seq(K!Messages)
  BY <1>1, HeadTailProperties
<1>5. fate' \in [K!Messages -> Fates] /\ Parked' \subseteq Parked
  BY <1>2, <1>3 DEF Parked, K!Messages
<1>6. DrainsTyped' /\ OneDrain' /\ DrainKept' /\ Queued' = Queued
  BY <1>3, <1>5, ArraysStay
<1>7. ParkTyped'
  <2>1. arrived' \in 0 .. MaxMessages /\ heap' \in Seq(Seq(K!Messages)) /\ queue' \in 0 .. Len(heap')
        /\ replayed' \in Seq(K!Messages) /\ overlaps' \in BOOLEAN /\ pushes' \in Nat
    BY <1>1, <1>3 DEF ParkTyped
  <2>2. K!Messages' = K!Messages
    BY DEF K!Messages
  <2> QED
    BY <1>4, <1>5, <1>6, <2>1, <2>2 DEF ParkTyped
<1>8. InOrder'
  <2>1. chain \in Seq(Nat) /\ replayed \in Seq(Nat) /\ Queued \in Seq(Nat) /\ arrived \in Nat
    BY <1>1, Numbers
  <2>2. EndOf(chain', chain)
    BY <1>1, <2>1, HeadAndTail
  <2>3. /\ Rising(chain) => Rising(chain')
        /\ UpTo(chain, arrived) => UpTo(chain', arrived)
        /\ \A u \in Seq(Nat) : Below(u, chain) => Below(u, chain')
    BY <2>1, <2>2, EndKeeps
  <2> QED
    BY <1>3, <1>6, <2>1, <2>3 DEF ParkKept, InOrder
<1> QED
  BY <1>6, <1>7, <1>8 DEF ParkKept

(* A drain starts.                                                         *)
LEMMA StartingKeeps ==
  ASSUME ParkKept, NEW d \in 1 .. MaxDrains, K!Drain(d)
  PROVE  ParkKept'
<1>1. ParkTyped /\ DrainsTyped
  BY DEF ParkKept, ParkTyped
<1>2. queue \in 1 .. Len(heap) /\ heap[queue] \in Seq(K!Messages) /\ heap[queue] # <<>>
      /\ Queued = heap[queue] /\ Len(heap) \in Nat
  BY <1>1 DEF ParkTyped, K!Drain, Queued
<1>3. Head(heap[queue]) \in K!Messages
  BY <1>2, HeadTailProperties
<1>4. /\ UNCHANGED <<arrived, chain, heap, queue, fate, replayed, pushes>>
      /\ overlaps' = (overlaps \/ K!Running # {})
      /\ d \notin K!Running
  BY DEF K!Drain
<1> DEFINE new == [array |-> queue, message |-> Head(heap[queue]), pushes |-> 0]
<1>5. drains' = [drains EXCEPT ![d] = new]
  BY DEF K!Drain
<1>6. new \in [array : 0 .. Len(heap), message : 0 .. MaxMessages, pushes : Nat]
      /\ new.array = queue /\ new.message = Head(heap[queue]) /\ new.pushes = 0
  BY <1>1, <1>2, <1>3 DEF K!Messages
<1> HIDE DEF new
<1>7. /\ drains' \in [1 .. MaxDrains -> [array : 0 .. Len(heap), message : 0 .. MaxMessages, pushes : Nat]]
      /\ drains'[d] = new /\ \A e \in 1 .. MaxDrains : e # d => drains'[e] = drains[e]
  BY <1>1, <1>5, <1>6 DEF DrainsTyped
<1>8. \A e \in K!Running' : e = d \/ (e \in K!Running /\ drains'[e] = drains[e])
  BY <1>7 DEF K!Running, K!Idle
<1>9. DrainsTyped'
  <2>1. K!Messages' = K!Messages
    BY DEF K!Messages
  <2>2. pushes \in Nat
    BY <1>1 DEF ParkTyped
  <2>3. ASSUME NEW e \in K!Running'
        PROVE  /\ drains'[e].array \in 1 .. Len(heap) /\ drains'[e].message \in K!Messages
               /\ drains'[e].pushes <= pushes
    BY <1>1, <1>2, <1>3, <1>6, <1>7, <1>8, <2>2, <2>3 DEF DrainsTyped
  <2> QED
    BY <1>4, <1>7, <2>1, <2>3 DEF DrainsTyped
<1>10. ParkTyped'
  <2>1. K!Messages' = K!Messages /\ overlaps' \in BOOLEAN
    BY <1>1, <1>4 DEF K!Messages, ParkTyped
  <2> QED
    BY <1>1, <1>4, <1>9, <2>1 DEF ParkTyped
<1>11. OneDrain'
  BY <1>4, <1>8 DEF OneDrain
<1>12. Queued' = Queued /\ Parked' = Parked
  BY <1>4 DEF Queued, Parked, K!Messages
<1>13. DrainKept'
  <2> SUFFICES ASSUME ~overlaps', pushes <= 1
               PROVE  /\ Parked \subseteq ToSet(Queued)
                      /\ \A e \in K!Running' :
                           /\ heap[drains'[e].array] # <<>> /\ drains'[e].message = Head(heap[drains'[e].array])
                           /\ Parked \subseteq ToSet(heap[drains'[e].array])
                           /\ drains'[e].pushes = 0 => drains'[e].array = queue
    BY <1>4, <1>12 DEF DrainKept
  <2>1. ~overlaps /\ K!Running = {}
    BY <1>4
  <2>2. \A e \in K!Running' : e = d
    BY <1>8, <2>1
  <2>3. Parked \subseteq ToSet(Queued)
    BY <2>1 DEF ParkKept, DrainKept
  <2> QED
    BY <1>2, <1>6, <1>7, <2>2, <2>3
<1>14. InOrder'
  BY <1>4, <1>12 DEF ParkKept, InOrder
<1> QED
  BY <1>10, <1>11, <1>13, <1>14 DEF ParkKept

(* A drain is done with its array: the others are as they were.            *)
LEMMA LeavingIs ==
  ASSUME ParkTyped, NEW d \in K!Running, drains' = [drains EXCEPT ![d] = K!Idle]
  PROVE  /\ drains' \in [1 .. MaxDrains -> [array : 0 .. Len(heap), message : 0 .. MaxMessages, pushes : Nat]]
         /\ K!Running' \subseteq K!Running \ {d}
         /\ \A e \in K!Running' : drains'[e] = drains[e]
<1>1. d \in 1 .. MaxDrains
      /\ drains \in [1 .. MaxDrains -> [array : 0 .. Len(heap), message : 0 .. MaxMessages, pushes : Nat]]
  BY DEF K!Running, ParkTyped, DrainsTyped
<1>2. K!Idle \in [array : 0 .. Len(heap), message : 0 .. MaxMessages, pushes : Nat]
  <2>1. Len(heap) \in Nat /\ MaxMessages \in Nat
    BY PartsAssumption DEF ParkTyped
  <2> QED
    BY <2>1 DEF K!Idle
<1>3. K!Idle' = K!Idle
  BY DEF K!Idle
<1>4. drains'[d] = K!Idle /\ \A e \in 1 .. MaxDrains : e # d => drains'[e] = drains[e]
  BY <1>1
<1>5. drains' \in [1 .. MaxDrains -> [array : 0 .. Len(heap), message : 0 .. MaxMessages, pushes : Nat]]
  BY <1>1, <1>2
<1> QED
  BY <1>3, <1>4, <1>5 DEF K!Running

(* A drain meets the lock again and leaves the rest for the next.          *)
LEMMA StoppingKeeps ==
  ASSUME ParkKept, NEW d \in 1 .. MaxDrains, K!DrainLocked(d)
  PROVE  ParkKept'
<1>1. ParkTyped /\ DrainsTyped /\ d \in K!Running
  BY DEF ParkKept, ParkTyped, K!DrainLocked
<1> DEFINE left == heap[drains[d].array]
<1>2. left \in Seq(K!Messages) /\ drains[d].array \in 1 .. Len(heap)
  BY <1>1 DEF DrainsTyped, ParkTyped
<1>3. heap' = heap
  <2>1. heap' = [heap EXCEPT ![drains[d].array] = heap[drains[d].array]]
    BY DEF K!DrainLocked, K!LeftByLock
  <2> QED
    BY <1>1, <2>1 DEF ParkTyped
<1>4. /\ drains' = [drains EXCEPT ![d] = K!Idle]
      /\ queue' = (IF left = <<>> THEN 0 ELSE queue)
      /\ UNCHANGED <<arrived, chain, fate, replayed, overlaps, pushes>>
  BY DEF K!DrainLocked, K!LeftByLock, K!Leave
<1>5. /\ drains' \in [1 .. MaxDrains -> [array : 0 .. Len(heap), message : 0 .. MaxMessages, pushes : Nat]]
      /\ K!Running' \subseteq K!Running
      /\ \A e \in K!Running' : drains'[e] = drains[e]
  BY <1>1, <1>4, LeavingIs
<1>6. K!Messages' = K!Messages /\ Parked' = Parked
  BY <1>4 DEF K!Messages, Parked
<1>7. DrainsTyped'
  BY <1>1, <1>3, <1>4, <1>5, <1>6 DEF DrainsTyped
<1>8. ParkTyped'
  <2>1. queue' \in 0 .. Len(heap)
    BY <1>1, <1>4 DEF ParkTyped
  <2> QED
    BY <1>1, <1>3, <1>4, <1>6, <1>7, <2>1 DEF ParkTyped
<1>9. OneDrain'
  BY <1>4, <1>5 DEF ParkKept, OneDrain
<1>10. ~overlaps /\ pushes <= 1 => Queued' = Queued /\ queue' = queue
  <2>1. ~overlaps /\ pushes <= 1 => left # <<>>
    BY <1>1 DEF ParkKept, DrainKept
  <2> QED
    BY <1>3, <1>4, <2>1 DEF Queued
<1>11. DrainKept'
  BY <1>3, <1>4, <1>5, <1>6, <1>10 DEF ParkKept, DrainKept
<1>12. InOrder'
  <2>1. pushes = 0 => pushes <= 1
    OBVIOUS
  <2> QED
    BY <1>4, <1>10, <2>1 DEF ParkKept, InOrder
<1> QED
  BY <1>8, <1>9, <1>11, <1>12 DEF ParkKept

(* A drain applies its message and goes on to the next of its array.       *)
LEMMA DrainingIs ==
  ASSUME ParkTyped, NEW d \in 1 .. MaxDrains, NEW end \in K!Ends, K!DrainApplied(d, end),
         NEW left, left = K!Shifted(heap[drains[d].array])
  PROVE  /\ ParkTyped'
         /\ left \in Seq(K!Messages) /\ d \in K!Running /\ drains[d].array \in 1 .. Len(heap)
         /\ heap' = [heap EXCEPT ![drains[d].array] = left]
         /\ queue' = (IF left = <<>> THEN 0 ELSE queue)
         /\ K!Running' \subseteq K!Running
         /\ \A e \in K!Running' : e # d => drains'[e] = drains[e]
         /\ d \in K!Running' => /\ left # <<>> /\ drains'[d].message = Head(left)
                                /\ drains'[d].array = drains[d].array
                                /\ drains'[d].pushes = drains[d].pushes
         /\ replayed' = (IF end = "applied" THEN Append(replayed, drains[d].message) ELSE replayed)
         /\ Parked' \subseteq Parked \ {drains[d].message}
         /\ UNCHANGED <<arrived, chain, overlaps, pushes>>
<1>1. DrainsTyped /\ d \in K!Running
  BY DEF ParkTyped, K!DrainApplied
<1>2. /\ drains[d].array \in 1 .. Len(heap) /\ drains[d].message \in K!Messages
      /\ drains[d] \in [array : 0 .. Len(heap), message : 0 .. MaxMessages, pushes : Nat]
      /\ drains[d].pushes <= pushes
  BY <1>1 DEF DrainsTyped
<1>3. heap[drains[d].array] \in Seq(K!Messages)
  BY <1>2 DEF ParkTyped
<1>4. left \in Seq(K!Messages)
  <2>1. heap[drains[d].array] # <<>> => Tail(heap[drains[d].array]) \in Seq(K!Messages)
    BY <1>3, HeadTailProperties
  <2> QED
    BY <1>3, <2>1 DEF K!Shifted
<1>5. /\ heap' = [heap EXCEPT ![drains[d].array] = left]
      /\ replayed' = (IF end = "applied" THEN Append(replayed, drains[d].message) ELSE replayed)
      /\ UNCHANGED <<arrived, chain, overlaps, pushes>>
  BY DEF K!DrainApplied
<1>6. heap' \in Seq(Seq(K!Messages)) /\ Len(heap') = Len(heap)
  BY <1>2, <1>4, <1>5, ExceptSeq DEF ParkTyped
<1>7. /\ fate' \in [K!Messages -> Fates]
      /\ fate'[drains[d].message] \in K!Ends
      /\ \A m \in K!Messages : m # drains[d].message => fate'[m] = fate[m]
  <2>1. fate' = [fate EXCEPT ![drains[d].message] =
                   IF fate[drains[d].message] = "applied" THEN fate[drains[d].message] ELSE end]
    BY DEF K!DrainApplied
  <2>2. fate \in [K!Messages -> Fates]
    BY DEF ParkTyped
  <2> QED
    BY <1>2, <2>1, <2>2 DEF Fates, K!Ends
<1>8. Parked' \subseteq Parked \ {drains[d].message}
  <2>1. K!Messages' = K!Messages /\ "parked" \notin K!Ends
    BY DEF K!Messages, K!Ends
  <2> QED
    BY <1>7, <2>1 DEF Parked
<1>9. replayed' \in Seq(K!Messages)
  BY <1>2, <1>5, AppendProperties DEF ParkTyped
<1>10. CASE left = <<>>
  <2>1. drains' = [drains EXCEPT ![d] = K!Idle] /\ queue' = 0
    BY <1>10 DEF K!DrainApplied, K!Leave
  <2>2. /\ drains' \in [1 .. MaxDrains -> [array : 0 .. Len(heap), message : 0 .. MaxMessages, pushes : Nat]]
        /\ K!Running' \subseteq K!Running \ {d}
        /\ \A e \in K!Running' : drains'[e] = drains[e]
    BY <1>1, <2>1, LeavingIs
  <2>3. DrainsTyped'
    <3>1. K!Messages' = K!Messages
      BY DEF K!Messages
    <3> QED
      BY <1>1, <1>5, <1>6, <2>2, <3>1 DEF DrainsTyped
  <2>4. ParkTyped'
    <3>1. K!Messages' = K!Messages /\ Len(heap') \in Nat
      BY <1>6 DEF K!Messages
    <3> QED
      BY <1>5, <1>6, <1>7, <1>9, <2>1, <2>3, <3>1 DEF ParkTyped
  <2> QED
    BY <1>1, <1>2, <1>4, <1>5, <1>8, <1>10, <2>1, <2>2, <2>4
<1>11. CASE left # <<>>
  <2>1. Head(left) \in K!Messages
    BY <1>4, <1>11, HeadTailProperties
  <2> DEFINE new == [drains[d] EXCEPT !.message = Head(left)]
  <2>2. new \in [array : 0 .. Len(heap), message : 0 .. MaxMessages, pushes : Nat]
        /\ new.array = drains[d].array /\ new.pushes = drains[d].pushes /\ new.message = Head(left)
    BY <1>2, <2>1 DEF K!Messages
  <2>3. drains' = [drains EXCEPT ![d] = new] /\ queue' = queue
    BY <1>11 DEF K!DrainApplied
  <2> HIDE DEF new
  <2>4. /\ drains' \in [1 .. MaxDrains -> [array : 0 .. Len(heap), message : 0 .. MaxMessages, pushes : Nat]]
        /\ drains'[d] = new /\ \A e \in 1 .. MaxDrains : e # d => drains'[e] = drains[e]
    BY <1>1, <2>2, <2>3 DEF DrainsTyped
  <2>5. K!Running' \subseteq K!Running /\ \A e \in K!Running' : e # d => drains'[e] = drains[e]
    <3>1. K!Idle' = K!Idle
      BY DEF K!Idle
    <3> QED
      BY <1>1, <2>4, <3>1 DEF K!Running
  <2>6. DrainsTyped'
    <3>1. K!Messages' = K!Messages
      BY DEF K!Messages
    <3>2. ASSUME NEW e \in K!Running'
          PROVE  /\ drains'[e].array \in 1 .. Len(heap) /\ drains'[e].message \in K!Messages
                 /\ drains'[e].pushes <= pushes
      <4>1. CASE e = d
        BY <1>2, <2>1, <2>2, <2>4, <4>1
      <4>2. CASE e # d
        BY <1>1, <2>5, <4>2 DEF DrainsTyped
      <4> QED
        BY <4>1, <4>2
    <3> QED
      BY <1>5, <1>6, <2>4, <3>1, <3>2 DEF DrainsTyped
  <2>7. ParkTyped'
    <3>1. K!Messages' = K!Messages
      BY DEF K!Messages
    <3> QED
      BY <1>5, <1>6, <1>7, <1>9, <2>3, <2>6, <3>1 DEF ParkTyped
  <2> QED
    BY <1>1, <1>2, <1>4, <1>5, <1>8, <1>11, <2>2, <2>3, <2>4, <2>5, <2>7
<1> QED
  BY <1>10, <1>11

(* As long as one drain runs, and not two messages are parked meanwhile,   *)
(* the map's array goes with the drain's.                                  *)
LEMMA DrainingKeeps ==
  ASSUME ParkKept, NEW d \in 1 .. MaxDrains, NEW end \in K!Ends, K!DrainApplied(d, end)
  PROVE  ParkKept'
<1> DEFINE a == heap[drains[d].array]
           left == K!Shifted(a)
<1>1. ParkTyped /\ DrainsTyped
  BY DEF ParkKept, ParkTyped
<1>2. /\ ParkTyped'
      /\ left \in Seq(K!Messages) /\ d \in K!Running /\ drains[d].array \in 1 .. Len(heap)
      /\ heap' = [heap EXCEPT ![drains[d].array] = left]
      /\ queue' = (IF left = <<>> THEN 0 ELSE queue)
      /\ K!Running' \subseteq K!Running
      /\ \A e \in K!Running' : e # d => drains'[e] = drains[e]
      /\ d \in K!Running' => /\ left # <<>> /\ drains'[d].message = Head(left)
                             /\ drains'[d].array = drains[d].array
                             /\ drains'[d].pushes = drains[d].pushes
      /\ replayed' = (IF end = "applied" THEN Append(replayed, drains[d].message) ELSE replayed)
      /\ Parked' \subseteq Parked \ {drains[d].message}
      /\ UNCHANGED <<arrived, chain, overlaps, pushes>>
  BY <1>1, DrainingIs
<1>3. OneDrain'
  BY <1>2 DEF ParkKept, OneDrain
<1>4. a \in Seq(K!Messages) /\ a \in Seq(Nat) /\ heap \in Seq(Seq(K!Messages))
  <2>1. heap \in Seq(Seq(K!Messages))
    BY <1>1 DEF ParkTyped
  <2>2. a \in Seq(K!Messages)
    <3>1. drains[d].array \in 1 .. Len(heap)
      BY <1>2
    <3> QED
      BY <2>1, <3>1
  <2> HIDE DEF a
  <2>3. Seq(K!Messages) \subseteq Seq(Nat)
    BY <1>1, Numbers
  <2> QED
    BY <2>1, <2>2, <2>3
<1> HIDE DEF a
<1>5. ~overlaps /\ pushes <= 1 =>
        /\ a # <<>> /\ drains[d].message = Head(a) /\ left = Tail(a)
        /\ Parked \subseteq ToSet(a) /\ Parked \subseteq ToSet(Queued)
        /\ drains[d].pushes = 0 => drains[d].array = queue
  BY <1>2 DEF ParkKept, DrainKept, K!Shifted, a
<1> HIDE DEF left
<1>6. /\ heap'[drains[d].array] = left
      /\ \A r \in 1 .. Len(heap) : r # drains[d].array => heap'[r] = heap[r]
  BY <1>2, <1>4
<1>7. Queued' = IF left = <<>> THEN <<>> ELSE IF drains[d].array = queue THEN left ELSE Queued
  <2>1. queue \in 0 .. Len(heap) /\ queue # 0 => queue \in 1 .. Len(heap)
    BY <1>1 DEF ParkTyped
  <2>2. queue \in 0 .. Len(heap)
    BY <1>1 DEF ParkTyped
  <2>3. drains[d].array # 0
    BY <1>2
  <2> QED
    BY <1>2, <1>6, <2>1, <2>2, <2>3 DEF Queued
<1>8. ~overlaps /\ pushes <= 1 => Parked' \subseteq ToSet(left)
  BY <1>2, <1>4, <1>5, HeadAndTail
<1>9. DrainKept'
  <2> SUFFICES ASSUME ~overlaps, pushes <= 1
               PROVE  /\ Parked' \subseteq ToSet(Queued')
                      /\ \A e \in K!Running' :
                           /\ heap'[drains'[e].array] # <<>>
                           /\ drains'[e].message = Head(heap'[drains'[e].array])
                           /\ Parked' \subseteq ToSet(heap'[drains'[e].array])
                           /\ drains'[e].pushes = 0 => drains'[e].array = queue'
    BY <1>2 DEF DrainKept
  <2>1. Parked' \subseteq ToSet(Queued')
    BY <1>2, <1>5, <1>7, <1>8
  <2>2. \A e \in K!Running' : e = d
    BY <1>2 DEF ParkKept, OneDrain
  <2> QED
    BY <1>2, <1>5, <1>6, <1>8, <2>1, <2>2
<1>10. InOrder'
  <2> SUFFICES ASSUME ~overlaps, pushes = 0
               PROVE  /\ Rising(replayed') /\ Rising(Queued') /\ Rising(chain)
                      /\ Below(replayed', Queued') /\ Below(replayed', chain) /\ Below(Queued', chain)
                      /\ UpTo(replayed', arrived) /\ UpTo(Queued', arrived) /\ UpTo(chain, arrived)
    BY <1>2 DEF InOrder
  <2>1. /\ Rising(replayed) /\ Rising(Queued) /\ Rising(chain)
        /\ Below(replayed, Queued) /\ Below(replayed, chain) /\ Below(Queued, chain)
        /\ UpTo(replayed, arrived) /\ UpTo(Queued, arrived) /\ UpTo(chain, arrived)
    BY DEF ParkKept, InOrder
  <2>2. drains[d].pushes = 0
    <3>1. drains[d].pushes <= pushes /\ drains[d].pushes \in Nat
      BY <1>1, <1>2 DEF DrainsTyped, K!Running
    <3> QED
      BY <3>1
  <2>3. /\ a # <<>> /\ drains[d].message = Head(a) /\ left = Tail(a)
        /\ drains[d].array = queue /\ queue # 0
    BY <1>2, <1>5, <2>2
  <2>4. Queued = a /\ Queued' = left
    BY <1>7, <2>3 DEF Queued, a
  <2>5. /\ EndOf(left, a) /\ Head(a) \in Nat /\ left \in Seq(Nat)
        /\ Rising(a) => \A i \in 1 .. Len(left) : Head(a) < left[i]
        /\ Head(a) = a[1] /\ 1 \in 1 .. Len(a)
    BY <1>4, <2>3, HeadAndTail
  <2>6. replayed \in Seq(Nat) /\ chain \in Seq(Nat) /\ arrived \in Nat
    BY <1>1, Numbers
  <2>7. /\ Rising(left) /\ UpTo(left, arrived)
        /\ Below(replayed, left) /\ Below(left, chain)
    BY <1>4, <2>1, <2>4, <2>5, <2>6, EndKeeps
  <2>8. /\ \A i \in 1 .. Len(replayed) : replayed[i] < Head(a)
        /\ \A i \in 1 .. Len(chain) : Head(a) < chain[i]
        /\ Head(a) <= arrived
    BY <2>1, <2>4, <2>5 DEF Below, UpTo
  <2> DEFINE more == Append(replayed, Head(a))
  <2>9. /\ Rising(more) /\ UpTo(more, arrived)
        /\ Below(more, left) /\ Below(more, chain)
    BY <2>1, <2>4, <2>5, <2>6, <2>7, <2>8, Appended
  <2>10. replayed' = more \/ replayed' = replayed
    BY <1>2, <2>3
  <2> HIDE DEF more
  <2> QED
    BY <2>1, <2>4, <2>7, <2>9, <2>10
<1> QED
  BY <1>2, <1>3, <1>9, <1>10 DEF ParkKept

(* The larger of a number and of others that are at most one above it.     *)
LEMMA LargestIs ==
  ASSUME NEW n \in Nat, NEW S, S \subseteq 0 .. n + 1, n \in S
  PROVE  /\ K!Largest(S) \in Nat
         /\ \A x \in S : x <= K!Largest(S)
<1>1. \E x \in S : \A y \in S : y <= x
  <2>1. CASE n + 1 \in S
    BY <2>1
  <2>2. CASE n + 1 \notin S
    <3>1. \A y \in S : y <= n
      BY <2>2
    <3> QED
      BY <3>1
  <2> QED
    BY <2>1, <2>2
<1>2. K!Largest(S) \in S /\ \A y \in S : y <= K!Largest(S)
  BY <1>1 DEF K!Largest
<1>3. S \subseteq Nat
  OBVIOUS
<1> QED
  BY <1>2, <1>3

(* A message is parked: it is appended to the array the map holds, and the *)
(* end of that becomes the map's.                                          *)
LEMMA PushIs ==
  ASSUME ParkTyped, NEW m \in K!Messages, K!Push(m), NEW more, more = Append(Queued, m)
  PROVE  /\ heap' \in Seq(Seq(K!Messages)) /\ Len(heap') = Len(heap) + 1 /\ queue' = Len(heap) + 1
         /\ more \in Seq(K!Messages) /\ Queued' = K!Newest(more)
         /\ queue # 0 => heap'[queue] = more
         /\ fate' \in [K!Messages -> Fates]
         /\ Parked' \subseteq Parked \cup {m}
         /\ Parked \subseteq ToSet(Queued) => Parked' \subseteq ToSet(K!Newest(more))
         /\ K!Running' = K!Running /\ DrainsTyped'
         /\ \A d \in K!Running : /\ drains'[d].array = drains[d].array
                                 /\ drains'[d].message = drains[d].message
                                 /\ drains'[d].pushes = drains[d].pushes + 1
         /\ pushes' \in Nat /\ pushes <= pushes'
<1>1. /\ Queued \in Seq(K!Messages) /\ Queued \in Seq(Nat) /\ K!Messages \subseteq Nat
      /\ Seq(K!Messages) \subseteq Seq(Nat) /\ m \in Nat
  BY Numbers
<1>2. more \in Seq(K!Messages) /\ Len(more) = Len(Queued) + 1 /\ more[Len(more)] = m
  BY <1>1, AppendProperties
<1>3. /\ more \in Seq(Nat) /\ more # <<>> /\ ToSet(more) = ToSet(Queued) \cup {m}
  BY <1>1, Appended
<1>4. /\ K!Newest(more) \in Seq(Nat) /\ ToSet(K!Newest(more)) \subseteq ToSet(more)
      /\ m \in ToSet(K!Newest(more))
  <2>1. EndOf(K!Newest(more), more) /\ more[Len(more)] \in ToSet(K!Newest(more))
    BY <1>3, NewestIs
  <2>2. ToSet(K!Newest(more)) \subseteq ToSet(more)
    BY <1>3, <2>1, EndKeeps
  <2> QED
    BY <1>2, <2>1, <2>2 DEF EndOf
<1>5. K!Newest(more) \in Seq(K!Messages)
  <2> DEFINE r == K!Newest(more)
  <2>1. r \in Seq(Nat) /\ ToSet(r) \subseteq ToSet(more)
    BY <1>4
  <2>2. ToSet(more) \subseteq K!Messages
    BY <1>2 DEF ToSet
  <2> HIDE DEF r
  <2>3. Len(r) \in Nat /\ r \in [1 .. Len(r) -> Nat]
    BY <2>1
  <2>4. \A i \in 1 .. Len(r) : r[i] \in K!Messages
    BY <2>1, <2>2, <2>3 DEF ToSet
  <2>5. r \in [1 .. Len(r) -> K!Messages]
    BY <2>3, <2>4
  <2>6. r \in Seq(K!Messages)
    BY <2>3, <2>5, SeqDef
  <2> QED
    BY <2>6 DEF r
<1>6. K!Pushed(m) = more
  BY DEF K!Pushed, Queued
<1> DEFINE h == IF queue = 0 THEN heap ELSE [heap EXCEPT ![queue] = more]
<1>7. h \in Seq(Seq(K!Messages)) /\ Len(h) = Len(heap) /\ (queue # 0 => h[queue] = more)
  <2>1. CASE queue = 0
    BY <2>1 DEF ParkTyped
  <2>2. CASE queue # 0
    <3>1. queue \in 1 .. Len(heap) /\ heap \in Seq(Seq(K!Messages))
      BY <2>2 DEF ParkTyped
    <3> QED
      BY <1>2, <2>2, <3>1, ExceptSeq
  <2> QED
    BY <2>1, <2>2
<1>8. heap' = Append(h, K!Newest(more)) /\ queue' = Len(heap) + 1
  BY <1>6 DEF K!Push
<1> HIDE DEF h
<1>9. /\ heap' \in Seq(Seq(K!Messages)) /\ Len(heap') = Len(heap) + 1
      /\ heap'[Len(heap) + 1] = K!Newest(more)
      /\ queue # 0 => heap'[queue] = more
  <2>1. Len(heap) \in Nat /\ (queue # 0 => queue \in 1 .. Len(heap))
    BY DEF ParkTyped
  <2> DEFINE r == K!Newest(more)
  <2> HIDE DEF r
  <2>2. r \in Seq(K!Messages) /\ heap' = Append(h, r)
    BY <1>5, <1>8 DEF r
  <2>3. /\ heap' \in Seq(Seq(K!Messages)) /\ Len(heap') = Len(h) + 1 /\ heap'[Len(h) + 1] = r
        /\ \A i \in 1 .. Len(h) : heap'[i] = h[i]
    BY <1>7, <2>2, AppendProperties
  <2> QED
    BY <1>7, <2>1, <2>3 DEF r
<1>10. Queued' = K!Newest(more)
  BY <1>8, <1>9 DEF Queued, ParkTyped
<1>11. fate' = [n \in K!Messages |-> IF n \in K!CutBy(m) THEN "cut"
                                     ELSE IF n = m THEN "parked" ELSE fate[n]]
       /\ fate \in [K!Messages -> Fates]
  BY DEF K!Push, ParkTyped
<1>12. fate' \in [K!Messages -> Fates]
  BY <1>11 DEF Fates
<1>13. K!Messages' = K!Messages
  BY DEF K!Messages
<1>14. Parked' = {n \in K!Messages : n \notin K!CutBy(m) /\ (n = m \/ fate[n] = "parked")}
  BY <1>11, <1>13 DEF Parked
<1>15. Parked' \subseteq Parked \cup {m}
  BY <1>14 DEF Parked
<1>16. ASSUME Parked \subseteq ToSet(Queued), NEW n \in Parked', n # m
       PROVE  n \in ToSet(K!Newest(more))
  <2>1. n \notin K!CutBy(m) /\ fate[n] = "parked" /\ n \in ToSet(more)
    BY <1>3, <1>14, <1>16 DEF Parked
  <2>2. K!CutBy(m) = {k \in ToSet(more) \ ToSet(K!Newest(more)) : fate[k] \in {"waiting", "parked"}}
    <3>1. \A q : K!ToSet(q) = ToSet(q)
      BY DEF K!ToSet, ToSet
    <3> QED
      BY <1>6, <3>1 DEF K!CutBy
  <2> QED
    BY <2>1, <2>2
<1>17. /\ drains' = [d \in 1 .. MaxDrains |->
              IF d \in K!Running THEN [drains[d] EXCEPT !.pushes = @ + 1] ELSE K!Idle]
       /\ pushes' = K!Largest({pushes} \cup {drains'[d].pushes : d \in 1 .. MaxDrains})
       /\ DrainsTyped /\ pushes \in Nat
  BY DEF K!Push, ParkTyped
<1>18. ASSUME NEW d \in K!Running
       PROVE  /\ drains'[d].array = drains[d].array /\ drains'[d].message = drains[d].message
              /\ drains'[d].pushes = drains[d].pushes + 1 /\ drains[d].pushes \in 0 .. pushes
              /\ drains'[d] # K!Idle
              /\ drains'[d] \in [array : 0 .. Len(heap) + 1, message : 0 .. MaxMessages, pushes : Nat]
  <2> DEFINE r == [drains[d] EXCEPT !.pushes = @ + 1]
  <2>1. d \in 1 .. MaxDrains
    BY DEF K!Running
  <2>2. /\ drains[d] \in [array : 0 .. Len(heap), message : 0 .. MaxMessages, pushes : Nat]
        /\ drains[d].array \in 1 .. Len(heap) /\ drains[d].pushes <= pushes
    BY <1>17, <2>1 DEF DrainsTyped
  <2>3. drains'[d] = r
    BY <1>17, <2>1
  <2>4. r.array = drains[d].array /\ r.message = drains[d].message /\ r.pushes = drains[d].pushes + 1
    BY <2>2
  <2>5. r \in [array : 0 .. Len(heap) + 1, message : 0 .. MaxMessages, pushes : Nat]
    <3>1. Len(heap) \in Nat
      BY DEF ParkTyped
    <3> QED
      BY <2>2, <3>1
  <2>6. r # K!Idle
    BY <2>2, <2>4 DEF K!Idle
  <2>7. drains[d].pushes \in 0 .. pushes
    BY <1>17, <2>2
  <2> HIDE DEF r
  <2> QED
    BY <2>3, <2>4, <2>5, <2>6, <2>7
<1>19. K!Running' = K!Running
  <2>1. K!Idle' = K!Idle /\ K!Running \subseteq 1 .. MaxDrains
    BY DEF K!Idle, K!Running
  <2>2. \A d \in 1 .. MaxDrains : d \in K!Running <=> drains'[d] # K!Idle
    BY <1>17, <1>18
  <2> QED
    BY <2>1, <2>2 DEF K!Running
<1> DEFINE S == {pushes} \cup {drains'[d].pushes : d \in 1 .. MaxDrains}
<1>20. S \subseteq 0 .. pushes + 1 /\ pushes \in S
  <2>1. ASSUME NEW d \in 1 .. MaxDrains PROVE drains'[d].pushes \in 0 .. pushes + 1
    <3>1. CASE d \in K!Running
      <4>1. drains'[d].pushes = drains[d].pushes + 1 /\ drains[d].pushes \in 0 .. pushes
        BY <1>18, <3>1
      <4> QED
        BY <1>17, <4>1
    <3>2. CASE d \notin K!Running
      BY <1>17, <3>2 DEF K!Idle
    <3> QED
      BY <3>1, <3>2
  <2> QED
    BY <1>17, <2>1
<1>21. pushes' \in Nat /\ \A x \in S : x <= pushes'
  <2> HIDE DEF S
  <2>1. K!Largest(S) \in Nat /\ \A x \in S : x <= K!Largest(S)
    BY <1>17, <1>20, LargestIs
  <2>2. pushes' = K!Largest(S)
    BY <1>17 DEF S
  <2> QED
    BY <2>1, <2>2
<1>22. pushes <= pushes' /\ \A d \in 1 .. MaxDrains : drains'[d].pushes <= pushes'
  BY <1>21
<1>23. DrainsTyped'
  <2>1. K!Running \subseteq 1 .. MaxDrains
    BY DEF K!Running
  <2>2. Len(heap) \in Nat /\ MaxMessages \in Nat
    BY PartsAssumption DEF ParkTyped
  <2>3. K!Idle \in [array : 0 .. Len(heap) + 1, message : 0 .. MaxMessages, pushes : Nat]
    BY <2>2 DEF K!Idle
  <2>4. ASSUME NEW d \in 1 .. MaxDrains
        PROVE  drains'[d] \in [array : 0 .. Len(heap) + 1, message : 0 .. MaxMessages, pushes : Nat]
    BY <1>17, <1>18, <2>3
  <2>5. drains' \in [1 .. MaxDrains -> [array : 0 .. Len(heap) + 1, message : 0 .. MaxMessages, pushes : Nat]]
    BY <1>17, <2>4
  <2>6. ASSUME NEW d \in K!Running
        PROVE  /\ drains'[d].array \in 1 .. Len(heap) + 1 /\ drains'[d].message \in K!Messages
               /\ drains'[d].pushes <= pushes'
    <3>1. drains[d].array \in 1 .. Len(heap) /\ drains[d].message \in K!Messages
      BY <1>17 DEF DrainsTyped
    <3>2. drains'[d].array = drains[d].array /\ drains'[d].message = drains[d].message
      BY <1>18
    <3>3. drains'[d].pushes <= pushes'
      BY <1>22, <2>1
    <3> QED
      BY <2>2, <3>1, <3>2, <3>3
  <2> QED
    BY <1>9, <1>13, <1>19, <2>5, <2>6 DEF DrainsTyped
<1> QED
  BY <1>2, <1>4, <1>8, <1>9, <1>10, <1>12, <1>15, <1>16, <1>18, <1>19, <1>21, <1>22, <1>23

(* While a message is parked the record of what was before stays in order, *)
(* and the drain that runs finds it in its array.                          *)
LEMMA ParkingKeeps ==
  ASSUME ParkKept, K!Guarded("locked")
  PROVE  ParkKept'
<1> DEFINE m == Head(chain)
           more == Append(Queued, m)
<1>1. ParkTyped /\ DrainsTyped
  BY DEF ParkKept, ParkTyped
<1>2. /\ chain \in Seq(K!Messages) /\ chain # <<>> /\ chain' = Tail(chain)
      /\ K!Push(m) /\ UNCHANGED <<arrived, replayed, overlaps>>
  BY <1>1 DEF K!Guarded, ParkTyped
<1>3. m \in K!Messages /\ chain' \in Seq(K!Messages)
  BY <1>2, HeadTailProperties
<1>4. /\ heap' \in Seq(Seq(K!Messages)) /\ Len(heap') = Len(heap) + 1 /\ queue' = Len(heap) + 1
      /\ more \in Seq(K!Messages) /\ Queued' = K!Newest(more)
      /\ queue # 0 => heap'[queue] = more
      /\ fate' \in [K!Messages -> Fates]
      /\ Parked' \subseteq Parked \cup {m}
      /\ Parked \subseteq ToSet(Queued) => Parked' \subseteq ToSet(K!Newest(more))
      /\ K!Running' = K!Running /\ DrainsTyped'
      /\ \A d \in K!Running : /\ drains'[d].array = drains[d].array
                              /\ drains'[d].message = drains[d].message
                              /\ drains'[d].pushes = drains[d].pushes + 1
      /\ pushes' \in Nat /\ pushes <= pushes'
  BY <1>1, <1>2, <1>3, PushIs
<1> HIDE DEF m
<1>5. ParkTyped'
  <2>1. K!Messages' = K!Messages
    BY DEF K!Messages
  <2>2. queue' \in 0 .. Len(heap')
    <3>1. Len(heap) \in Nat
      BY <1>1 DEF ParkTyped
    <3> QED
      BY <1>4, <3>1
  <2> QED
    BY <1>1, <1>2, <1>3, <1>4, <2>1, <2>2 DEF ParkTyped
<1>6. OneDrain'
  BY <1>2, <1>4 DEF ParkKept, OneDrain
<1>7. \A d \in K!Running : /\ d \in 1 .. MaxDrains /\ drains[d].pushes \in Nat /\ drains[d].pushes <= pushes
                           /\ drains[d].array \in 1 .. Len(heap)
  BY <1>1 DEF DrainsTyped, K!Running
<1>8. \A d \in K!Running : drains[d].pushes + 1 <= pushes' /\ pushes' \in Nat /\ pushes \in Nat
  <2>1. \A d \in K!Running : drains'[d].pushes <= pushes'
    BY <1>4 DEF DrainsTyped
  <2> QED
    BY <1>1, <1>4, <2>1 DEF ParkTyped
<1>9. Queued \in Seq(Nat) /\ m \in Nat /\ chain \in Seq(Nat) /\ replayed \in Seq(Nat) /\ arrived \in Nat
  BY <1>1, <1>3, Numbers
<1>10. more \in Seq(Nat) /\ more # <<>> /\ ToSet(more) = ToSet(Queued) \cup {m}
  BY <1>9, Appended
<1>11. DrainKept'
  <2> SUFFICES ASSUME ~overlaps, pushes' <= 1
               PROVE  /\ Parked' \subseteq ToSet(Queued')
                      /\ \A d \in K!Running :
                           /\ heap'[drains'[d].array] # <<>>
                           /\ drains'[d].message = Head(heap'[drains'[d].array])
                           /\ Parked' \subseteq ToSet(heap'[drains'[d].array])
                           /\ drains'[d].pushes = 0 => drains'[d].array = queue'
    BY <1>2, <1>4 DEF DrainKept
  <2>1. pushes <= 1
    BY <1>1, <1>4 DEF ParkTyped
  <2>2. /\ Parked \subseteq ToSet(Queued)
        /\ \A d \in K!Running :
             /\ heap[drains[d].array] # <<>> /\ drains[d].message = Head(heap[drains[d].array])
             /\ drains[d].pushes = 0 => drains[d].array = queue
    BY <2>1 DEF ParkKept, DrainKept
  <2>3. Parked' \subseteq ToSet(Queued') /\ Parked' \subseteq ToSet(more)
    BY <1>4, <1>10, <2>2
  <2>4. ASSUME NEW d \in K!Running
        PROVE  /\ heap'[drains'[d].array] # <<>>
               /\ drains'[d].message = Head(heap'[drains'[d].array])
               /\ Parked' \subseteq ToSet(heap'[drains'[d].array])
               /\ drains'[d].pushes # 0
    <3>1. drains[d].pushes = 0
      BY <1>7, <1>8
    <3>2. drains'[d].array = queue /\ queue # 0 /\ drains[d].array = queue
      BY <1>4, <1>7, <2>2, <3>1
    <3>3. heap'[drains'[d].array] = more /\ drains'[d].message = drains[d].message /\ drains'[d].pushes = 1
      BY <1>4, <3>1, <3>2
    <3>4. Queued # <<>> /\ drains[d].message = Head(Queued)
      BY <2>2, <3>2 DEF Queued
    <3>5. Head(more) = Head(Queued)
      BY <1>9, <3>4, AppendProperties
    <3> QED
      BY <1>10, <2>3, <3>3, <3>4, <3>5
  <2> QED
    BY <2>3, <2>4
<1>12. InOrder'
  <2> SUFFICES ASSUME ~overlaps, pushes' = 0
               PROVE  /\ Rising(replayed) /\ Rising(Queued') /\ Rising(chain')
                      /\ Below(replayed, Queued') /\ Below(replayed, chain') /\ Below(Queued', chain')
                      /\ UpTo(replayed, arrived) /\ UpTo(Queued', arrived) /\ UpTo(chain', arrived)
    BY <1>2 DEF InOrder
  <2>1. pushes = 0
    BY <1>1, <1>4 DEF ParkTyped
  <2>2. /\ Rising(replayed) /\ Rising(Queued) /\ Rising(chain)
        /\ Below(replayed, Queued) /\ Below(replayed, chain) /\ Below(Queued, chain)
        /\ UpTo(replayed, arrived) /\ UpTo(Queued, arrived) /\ UpTo(chain, arrived)
    BY <2>1 DEF ParkKept, InOrder
  <2>3. /\ EndOf(chain', chain) /\ chain' \in Seq(Nat)
        /\ \A i \in 1 .. Len(chain') : m < chain'[i]
        /\ m = chain[1] /\ 1 \in 1 .. Len(chain)
    BY <1>2, <1>9, <2>2, HeadAndTail DEF m
  <2>4. /\ Rising(chain') /\ UpTo(chain', arrived)
        /\ Below(replayed, chain') /\ Below(Queued, chain')
    BY <1>9, <2>2, <2>3, EndKeeps
  <2>5. /\ \A i \in 1 .. Len(replayed) : replayed[i] < m
        /\ \A i \in 1 .. Len(Queued) : Queued[i] < m
        /\ m <= arrived
    BY <2>2, <2>3 DEF Below, UpTo
  <2>6. /\ Rising(more) /\ UpTo(more, arrived)
        /\ Below(replayed, more) /\ Below(more, chain')
    BY <1>9, <2>2, <2>3, <2>4, <2>5, Appended
  <2>7. EndOf(Queued', more)
    BY <1>4, <1>10, NewestIs
  <2>8. /\ Rising(Queued') /\ UpTo(Queued', arrived)
        /\ Below(replayed, Queued') /\ Below(Queued', chain')
    <3> HIDE DEF more
    <3> QED
      BY <1>9, <1>10, <2>3, <2>6, <2>7, EndKeeps
  <2> QED
    BY <2>2, <2>4, <2>8
<1> QED
  BY <1>5, <1>6, <1>11, <1>12 DEF ParkKept

(* park.mjs: a parked message stays held, in the map's array or a drain's, *)
(* until it is applied, fails or is cut at CAP, as long as no drain starts *)
(* while another runs and no two messages are parked during one; and as    *)
(* long as none is, messages are replayed oldest first, none twice.  For   *)
(* any cap above 0, any number of messages and of drains.                  *)
THEOREM ParkedIsKept ==
  MCSpec => []ParkSound
<1>1. MCInit => ParkKept
  <2> SUFFICES ASSUME MCInit PROVE ParkKept
    OBVIOUS
  <2>1. /\ arrived = 0 /\ chain = <<>> /\ heap = <<>> /\ queue = 0 /\ replayed = <<>>
        /\ drains = [d \in 1 .. MaxDrains |-> K!Idle]
        /\ fate = [m \in K!Messages |-> "none"] /\ overlaps = FALSE /\ pushes = 0
    BY DEF MCInit, K!Init
  <2>2. K!Running = {} /\ Parked = {} /\ Queued = <<>>
    BY <2>1 DEF K!Running, Parked, Queued
  <2>3. \A S : <<>> \in Seq(S)
    OBVIOUS
  <2>4. DrainsTyped
    <3>1. K!Idle \in [array : 0 .. Len(heap), message : 0 .. MaxMessages, pushes : Nat]
      BY <2>1, PartsAssumption DEF K!Idle
    <3> QED
      BY <2>1, <2>2, <3>1 DEF DrainsTyped
  <2>5. ParkTyped
    <3>1. chain \in Seq(K!Messages) /\ heap \in Seq(Seq(K!Messages)) /\ replayed \in Seq(K!Messages)
      BY <2>1, <2>3
    <3>2. fate \in [K!Messages -> Fates]
      BY <2>1 DEF Fates
    <3>3. overlaps \in BOOLEAN
      BY <2>1
    <3>4. Len(heap) = 0
      BY <2>1
    <3>5. arrived \in 0 .. MaxMessages /\ queue \in 0 .. Len(heap) /\ pushes \in Nat
      BY <2>1, <3>4, PartsAssumption
    <3> QED
      BY <2>4, <3>1, <3>2, <3>3, <3>5 DEF ParkTyped
  <2>6. OneDrain /\ DrainKept
    BY <2>2 DEF OneDrain, DrainKept
  <2>7. InOrder
    BY <2>1, <2>2 DEF InOrder, Rising, Below, UpTo
  <2> QED
    BY <2>5, <2>6, <2>7 DEF ParkKept
<1>2. ParkKept /\ [MCNext]_upkeepVars => ParkKept'
  <2> SUFFICES ASSUME ParkKept, [MCNext]_upkeepVars PROVE ParkKept'
    OBVIOUS
  <2>1. K!Next \/ UNCHANGED parkVars
    BY DEF MCNext, upkeepVars
  <2>2. CASE UNCHANGED parkVars
    <3>1. /\ UNCHANGED <<heap, queue, drains, overlaps, pushes, arrived, chain, fate, replayed>>
          /\ Parked' = Parked /\ K!Messages' = K!Messages
      BY <2>2 DEF parkVars, Parked, K!Messages
    <3>2. DrainsTyped' /\ OneDrain' /\ DrainKept' /\ Queued' = Queued
      BY <3>1, ArraysStay
    <3>3. ParkTyped'
      BY <3>1, <3>2 DEF ParkKept, ParkTyped
    <3>4. InOrder'
      BY <3>1, <3>2 DEF ParkKept, InOrder
    <3> QED
      BY <3>2, <3>3, <3>4 DEF ParkKept
  <2>3. ASSUME K!Next PROVE ParkKept'
    <3>1. \/ K!OnIncoming
          \/ \E end \in K!Ends : K!Guarded(end)
          \/ K!Guarded("locked")
          \/ \E d \in 1 .. MaxDrains : K!Drain(d) \/ K!DrainLocked(d) \/ \E end \in K!Ends : K!DrainApplied(d, end)
      BY <2>3 DEF K!Next
    <3> QED
      BY <3>1, ArrivingKeeps, ApplyingKeeps, ParkingKeeps, StartingKeeps, StoppingKeeps, DrainingKeeps
  <2> QED
    BY <2>1, <2>2, <2>3
<1>3. ParkKept => ParkSound
  <2> SUFFICES ASSUME ParkKept PROVE ParkSound
    OBVIOUS
  <2>1. K!KeptUnlessCrossed
    <3> SUFFICES ASSUME ~overlaps, pushes <= 1, NEW m \in K!Messages, fate[m] = "parked"
                 PROVE  K!Held(m)
      BY DEF K!KeptUnlessCrossed, K!Kept
    <3>1. m \in ToSet(Queued)
      BY DEF ParkKept, DrainKept, Parked
    <3>2. ToSet(<<>>) = {}
      BY DEF ToSet
    <3>3. queue # 0 /\ m \in ToSet(heap[queue])
      BY <3>1, <3>2 DEF Queued
    <3>4. \A q : K!ToSet(q) = ToSet(q)
      BY DEF K!ToSet, ToSet
    <3> QED
      BY <3>3, <3>4 DEF K!Held
  <2>2. K!ReplayedInOrder
    BY DEF ParkKept, InOrder, Rising, K!ReplayedInOrder
  <2> QED
    BY <2>1, <2>2 DEF ParkSound, K!Sound
<1> QED
  BY <1>1, <1>2, <1>3, PTL DEF MCSpec

-----------------------------------------------------------------------------
(* Walkers: the invariant.                                                 *)

WalkersTyped ==
  /\ walkers \in 0 .. MaxWalkers
  /\ process \in [A!Ids -> {"no", "runs", "killed", "dead", "seen"}]
  /\ row \in [A!Ids -> [planned : BOOLEAN, restarts : Nat]]
  /\ revivals \in [A!Ids -> Nat] /\ stopCalls \in Nat
  /\ spawning \subseteq [walker : A!Ids, after : 0 .. A!AtHand]
  /\ stopping \subseteq [walker : A!Ids, phase : {"asked", "SIGTERM"}, call : Nat]
  /\ \E k \in 0 .. MaxWalkers : A!Launched = 1 .. k

Gone(w) == row[w].planned \/ process[w] = "seen"
Spawned(w) == \E s \in spawning : s.walker = w

(* The table has the last walker launched, and only that one may be there  *)
(* without having been stopped.                                            *)
TableKept ==
  /\ walkers # 0 => walkers \in A!Launched /\ \A w \in A!Launched : w <= walkers
  /\ A!OneWalker
  /\ \A w \in A!Launched : w = walkers \/ Gone(w)

(* The walker that is being stopped is the one the table has.              *)
StopsKept ==
  /\ \A c, d \in stopping : c = d
  /\ \A c \in stopping : c.walker = walkers /\ row[c.walker].planned

(* A restart is counted when its spawn resolves, on the row it made.       *)
SpawnKept ==
  /\ \A s, t \in spawning : s = t
  /\ \A s \in spawning :
       /\ walkers \in {0, s.walker} /\ s.walker \in A!Launched
       /\ s.after = A!AtHand => revivals[s.walker] = 0
       /\ s.after # A!AtHand => s.after < MAX_RESTARTS /\ revivals[s.walker] <= s.after + 1

ChainKept ==
  /\ A!GivesUp /\ ~unasked
  /\ \A w \in A!Launched : revivals[w] <= row[w].restarts \/ Spawned(w) \/ Gone(w)

WalkersKept == WalkersTyped /\ (crossed \/ (TableKept /\ StopsKept /\ SpawnKept /\ ChainKept))

(* Walkers are launched in the order of their numbers.                     *)
LEMMA NextWalker ==
  ASSUME WalkersTyped
  PROVE  /\ A!Cardinality(A!Launched) \in 0 .. MaxWalkers
         /\ A!Launched = 1 .. A!Cardinality(A!Launched)
<1>1. PICK k \in 0 .. MaxWalkers : A!Launched = 1 .. k
  BY DEF WalkersTyped
<1>2. k \in Nat /\ 1 \in Int /\ k \in Int
  BY <1>1, PartsAssumption
<1>3. Cardinality(1 .. k) = IF 1 > k THEN 0 ELSE k - 1 + 1
  BY <1>2, FS_Interval
<1>4. Cardinality(1 .. k) = k
  BY <1>2, <1>3
<1>5. \A S : A!Cardinality(S) = Cardinality(S)
  BY DEF A!Cardinality, Cardinality
<1> QED
  BY <1>1, <1>4, <1>5

(* A walker is launched where the table is empty and nobody is spawned.    *)
LEMMA LaunchingKeeps ==
  ASSUME WalkersTyped, NEW dead, NEW after \in 0 .. A!AtHand, NEW n \in Nat,
         dead \in [A!Ids -> {"no", "runs", "killed", "dead", "seen"}],
         \A w \in A!Ids : dead[w] = "no" <=> process[w] = "no",
         A!Launch(dead, after, n), UNCHANGED <<row, stopCalls>>,
         stopping' \subseteq stopping
  PROVE  /\ WalkersTyped'
         /\ \E v \in A!Ids :
              /\ v \notin A!Launched /\ A!Launched' = A!Launched \cup {v}
              /\ \A w \in A!Launched : w < v
              /\ walkers' = v /\ process' = [dead EXCEPT ![v] = "runs"]
              /\ spawning' = {[walker |-> v, after |-> after]}
              /\ revivals' = [revivals EXCEPT ![v] = n]
              /\ unasked' => unasked \/ (after # A!AtHand /\ A!Stopped)
<1> DEFINE k == A!Cardinality(A!Launched)
           v == k + 1
<1>1. k \in 0 .. MaxWalkers /\ A!Launched = 1 .. k /\ MaxWalkers \in Nat
  BY NextWalker, PartsAssumption
<1>2. /\ v \in A!Ids /\ walkers' = v /\ process' = [dead EXCEPT ![v] = "runs"]
      /\ spawning' = {[walker |-> v, after |-> after]}
      /\ revivals' = [revivals EXCEPT ![v] = n]
      /\ unasked' => unasked \/ (after # A!AtHand /\ A!Stopped)
  BY DEF A!Launch
<1>3. v \notin A!Launched /\ (\A w \in A!Launched : w < v) /\ v \in 1 .. MaxWalkers /\ k + 1 \in 0 .. MaxWalkers
  BY <1>1, <1>2 DEF A!Ids
<1> HIDE DEF k
<1>4. process' \in [A!Ids -> {"no", "runs", "killed", "dead", "seen"}]
  BY <1>2
<1>5. A!Ids' = A!Ids /\ A!AtHand' = A!AtHand
  BY DEF A!Ids, A!AtHand
<1>6. \A w \in A!Ids : process'[w] # "no" <=> (w = v \/ process[w] # "no")
  BY <1>2
<1>7. A!Launched' = A!Launched \cup {v}
  BY <1>2, <1>5, <1>6 DEF A!Launched
<1>8. A!Launched \cup {v} = 1 .. (k + 1)
  BY <1>1
<1>9. spawning' \subseteq [walker : A!Ids, after : 0 .. A!AtHand]
  BY <1>2
<1>10. revivals' \in [A!Ids -> Nat]
  BY <1>2 DEF WalkersTyped
<1>11. walkers' \in 0 .. MaxWalkers
  BY <1>1, <1>2, <1>3
<1>12. WalkersTyped'
  BY <1>3, <1>4, <1>5, <1>7, <1>8, <1>9, <1>10, <1>11 DEF WalkersTyped
<1> QED
  BY <1>2, <1>3, <1>7, <1>12

(* Somebody asks for a walker.                                             *)
LEMMA SpawnKeeps ==
  ASSUME WalkersKept, A!HandleRoomWalkerSpawn
  PROVE  WalkersKept'
<1>1. WalkersTyped /\ MAX_RESTARTS \in Nat /\ A!AtHand = MAX_RESTARTS + 1
  BY PartsAssumption DEF WalkersKept, A!AtHand
<1>2. /\ A!Launch(process, A!AtHand, 0) /\ UNCHANGED <<row, stopping, stopCalls, crossed>>
      /\ walkers = 0 /\ spawning = {}
  BY DEF A!HandleRoomWalkerSpawn, A!MaySpawn, A!None
<1>3. A!AtHand \in 0 .. A!AtHand /\ process \in [A!Ids -> {"no", "runs", "killed", "dead", "seen"}]
  BY <1>1 DEF WalkersTyped
<1>4. stopping' \subseteq stopping /\ UNCHANGED <<row, stopCalls>>
  BY <1>2
<1>5. /\ WalkersTyped'
      /\ \E v \in A!Ids :
              /\ v \notin A!Launched /\ A!Launched' = A!Launched \cup {v}
              /\ \A w \in A!Launched : w < v
              /\ walkers' = v /\ process' = [process EXCEPT ![v] = "runs"]
              /\ spawning' = {[walker |-> v, after |-> A!AtHand]}
              /\ revivals' = [revivals EXCEPT ![v] = 0]
              /\ unasked' => unasked \/ (A!AtHand # A!AtHand /\ A!Stopped)
  BY <1>1, <1>2, <1>3, <1>4, LaunchingKeeps
<1>6. PICK v \in A!Ids :
        /\ v \notin A!Launched /\ A!Launched' = A!Launched \cup {v}
        /\ \A w \in A!Launched : w < v
        /\ walkers' = v /\ process' = [process EXCEPT ![v] = "runs"]
        /\ spawning' = {[walker |-> v, after |-> A!AtHand]}
        /\ revivals' = [revivals EXCEPT ![v] = 0]
        /\ unasked' => unasked
  BY <1>5
<1>7. SUFFICES ASSUME ~crossed PROVE (TableKept /\ StopsKept /\ SpawnKept /\ ChainKept)'
  BY <1>2, <1>5 DEF WalkersKept
<1>8. TableKept /\ StopsKept /\ SpawnKept /\ ChainKept
  BY <1>7 DEF WalkersKept
<1>9. /\ process \in [A!Ids -> {"no", "runs", "killed", "dead", "seen"}] /\ A!Ids \subseteq Nat
      /\ revivals \in [A!Ids -> Nat] /\ A!Launched \subseteq A!Ids /\ A!Ids' = A!Ids /\ A!AtHand' = A!AtHand
      /\ 0 \notin A!Ids
  BY <1>1 DEF WalkersTyped, A!Launched, A!Ids, A!AtHand
<1>10. \A w \in A!Ids : w # v => process'[w] = process[w] /\ revivals'[w] = revivals[w]
  BY <1>6, <1>9
<1>11. process'[v] = "runs" /\ revivals'[v] = 0
  BY <1>6, <1>9
<1>12. \A w \in A!Ids : process[w] # "runs"
  BY <1>2, <1>8, <1>9 DEF TableKept, A!OneWalker
<1>13. TableKept'
  <2>1. \A w \in A!Launched' : w <= walkers'
    BY <1>6, <1>9
  <2>2. A!OneWalker'
    BY <1>6, <1>9, <1>10, <1>12 DEF A!OneWalker
  <2>3. ASSUME NEW w \in A!Launched' PROVE w = walkers' \/ Gone(w)'
    <3>1. CASE w = v
      BY <1>6, <3>1
    <3>2. CASE w \in A!Launched
      BY <1>2, <1>6, <1>8, <1>9, <1>10, <3>2 DEF TableKept, Gone
    <3> QED
      BY <1>6, <3>1, <3>2
  <2> QED
    BY <1>6, <2>1, <2>2, <2>3 DEF TableKept
<1>14. StopsKept'
  <2>1. stopping = {}
    BY <1>1, <1>2, <1>8, <1>9 DEF StopsKept, WalkersTyped
  <2> QED
    BY <1>2, <2>1 DEF StopsKept
<1>15. SpawnKept'
  <2> DEFINE r == [walker |-> v, after |-> A!AtHand]
  <2>1. r.walker = v /\ r.after = A!AtHand
    OBVIOUS
  <2> HIDE DEF r
  <2>2. spawning' = {r}
    BY <1>6 DEF r
  <2> QED
    BY <1>6, <1>9, <1>11, <2>1, <2>2 DEF SpawnKept
<1>16. ChainKept'
  <2>1. A!GivesUp'
    <3>1. \A w \in A!Ids : revivals[w] <= MAX_RESTARTS
      BY <1>8 DEF ChainKept, A!GivesUp
    <3>2. \A w \in A!Ids : revivals'[w] <= MAX_RESTARTS
      BY <1>1, <1>10, <1>11, <3>1
    <3> QED
      BY <1>9, <3>2 DEF A!GivesUp
  <2>2. ASSUME NEW w \in A!Launched' PROVE revivals'[w] <= row'[w].restarts \/ Spawned(w)' \/ Gone(w)'
    <3>1. CASE w = v
      <4>1. [walker |-> v, after |-> A!AtHand].walker = v
        OBVIOUS
      <4> QED
        BY <1>6, <3>1, <4>1 DEF Spawned
    <3>2. CASE w \in A!Launched /\ w # v
      BY <1>2, <1>8, <1>9, <1>10, <3>2 DEF ChainKept, Spawned, Gone
    <3> QED
      BY <1>6, <3>1, <3>2
  <2> QED
    BY <1>6, <1>8, <2>1, <2>2 DEF ChainKept
<1> QED
  BY <1>13, <1>14, <1>15, <1>16

(* What is said of the table stays true where its state does.              *)
LEMMA TableStays ==
  ASSUME WalkersKept,
         UNCHANGED <<walkers, process, row, spawning, stopping, stopCalls, revivals, crossed, unasked>>
  PROVE  WalkersKept'
<1>1. UNCHANGED <<walkers, process, row, spawning, stopping, stopCalls, revivals, crossed, unasked>>
  OBVIOUS
<1>2. A!Launched' = A!Launched /\ A!Ids' = A!Ids /\ A!AtHand' = A!AtHand
  BY <1>1 DEF A!Launched, A!Ids, A!AtHand
<1>3. WalkersTyped => WalkersTyped'
  BY <1>1, <1>2 DEF WalkersTyped
<1>4. TableKept => TableKept'
  BY <1>1, <1>2 DEF TableKept, A!OneWalker, Gone
<1>5. StopsKept => StopsKept'
  BY <1>1 DEF StopsKept
<1>6. SpawnKept => SpawnKept'
  BY <1>1, <1>2 DEF SpawnKept
<1>7. ChainKept => ChainKept'
  BY <1>1, <1>2 DEF ChainKept, A!GivesUp, Spawned, Gone
<1> QED
  BY <1>1, <1>3, <1>4, <1>5, <1>6, <1>7 DEF WalkersKept

(* A spawn resolves, and its restart is counted.                           *)
LEMMA ResolvingKeeps ==
  ASSUME WalkersKept, NEW s \in spawning, A!SpawnResolves(s)
  PROVE  WalkersKept'
<1>1. WalkersTyped /\ MAX_RESTARTS \in Nat /\ A!AtHand = MAX_RESTARTS + 1 /\ A!AtHand' = A!AtHand
  BY PartsAssumption DEF WalkersKept, A!AtHand
<1>2. /\ spawning' = spawning \ {s} /\ UNCHANGED <<walkers, process, stopping, stopCalls, revivals, crossed, unasked>>
      /\ row' = IF s.after = A!AtHand \/ walkers = 0 THEN row
                ELSE [row EXCEPT ![walkers].restarts = s.after + 1]
  BY DEF A!SpawnResolves, A!None, A!walkersGhosts
<1>3. s \in [walker : A!Ids, after : 0 .. A!AtHand] /\ s.walker \in A!Ids /\ s.after \in Nat
  BY <1>1 DEF WalkersTyped
<1>4. /\ row \in [A!Ids -> [planned : BOOLEAN, restarts : Nat]] /\ revivals \in [A!Ids -> Nat]
      /\ A!Ids' = A!Ids /\ A!Launched' = A!Launched /\ A!Launched \subseteq A!Ids /\ walkers \in 0 .. MaxWalkers
      /\ A!Ids = 1 .. MaxWalkers /\ MaxWalkers \in Nat
  BY <1>1, <1>2, PartsAssumption DEF WalkersTyped, A!Ids, A!Launched
<1>5. /\ row' \in [A!Ids -> [planned : BOOLEAN, restarts : Nat]]
      /\ \A w \in A!Ids : row[w].planned => row'[w].planned
      /\ \A w \in A!Ids : w # walkers => row'[w].restarts = row[w].restarts
      /\ walkers \in A!Ids => row'[walkers].restarts = IF s.after = A!AtHand THEN row[walkers].restarts ELSE s.after + 1
  <2>1. CASE s.after = A!AtHand \/ walkers = 0
    BY <1>2, <1>4, <2>1
  <2>2. CASE ~(s.after = A!AtHand \/ walkers = 0)
    <3> DEFINE r == [row[walkers] EXCEPT !.restarts = s.after + 1]
    <3>1. walkers \in A!Ids /\ row[walkers] \in [planned : BOOLEAN, restarts : Nat] /\ s.after + 1 \in Nat
      BY <1>3, <1>4, <2>2
    <3>2. r \in [planned : BOOLEAN, restarts : Nat] /\ (row[walkers].planned => r.planned) /\ r.restarts = s.after + 1
      BY <3>1
    <3>3. row' = [row EXCEPT ![walkers] = r]
      BY <1>2, <2>2
    <3> HIDE DEF r
    <3> QED
      BY <1>4, <2>2, <3>1, <3>2, <3>3
  <2> QED
    BY <2>1, <2>2
<1>6. WalkersTyped'
  BY <1>1, <1>2, <1>4, <1>5 DEF WalkersTyped
<1>7. SUFFICES ASSUME ~crossed PROVE (TableKept /\ StopsKept /\ SpawnKept /\ ChainKept)'
  BY <1>2, <1>6 DEF WalkersKept
<1>8. TableKept /\ StopsKept /\ SpawnKept /\ ChainKept
  BY <1>7 DEF WalkersKept
<1>9. \A w \in A!Ids : Gone(w) => Gone(w)'
  BY <1>2, <1>5 DEF Gone
<1>10. TableKept'
  <2>1. A!OneWalker'
    BY <1>2, <1>4, <1>8 DEF TableKept, A!OneWalker
  <2> QED
    BY <1>2, <1>4, <1>8, <1>9, <2>1 DEF TableKept
<1>11. StopsKept'
  <2>1. \A c \in stopping : c.walker \in A!Ids
    BY <1>1 DEF WalkersTyped
  <2> QED
    BY <1>2, <1>5, <1>8, <2>1 DEF StopsKept
<1>12. SpawnKept'
  BY <1>1, <1>2, <1>4, <1>8 DEF SpawnKept
<1>13. ChainKept'
  <2>1. A!GivesUp'
    BY <1>2, <1>4, <1>8 DEF ChainKept, A!GivesUp
  <2>2. ASSUME NEW w \in A!Launched PROVE revivals[w] <= row'[w].restarts \/ Gone(w)'
    <3>1. w \in A!Ids
      BY <1>4
    <3>2. CASE w = walkers /\ w = s.walker
      <4>1. CASE s.after = A!AtHand
        <5>1. revivals[w] = 0 /\ row'[w].restarts \in Nat
          BY <1>5, <1>8, <3>1, <3>2, <4>1 DEF SpawnKept
        <5> QED
          BY <5>1
      <4>2. CASE s.after # A!AtHand
        BY <1>5, <1>8, <3>1, <3>2, <4>2 DEF SpawnKept
      <4> QED
        BY <4>1, <4>2
    <3>3. CASE w # walkers
      BY <1>8, <1>9, <3>1, <3>3 DEF TableKept
    <3>4. CASE w = walkers /\ w # s.walker
      BY <1>4, <1>8, <3>1, <3>4 DEF SpawnKept
    <3> QED
      BY <3>2, <3>3, <3>4
  <2> QED
    BY <1>2, <1>4, <1>8, <2>1, <2>2 DEF ChainKept
<1> QED
  BY <1>10, <1>11, <1>12, <1>13

(* A process dies, of itself or killed.                                    *)
LEMMA DeathKeeps ==
  ASSUME WalkersKept, NEW w \in A!Ids, NEW state \in {"dead", "killed"}, A!Runs(w),
         process' = [process EXCEPT ![w] = state],
         UNCHANGED <<walkers, row, spawning, stopping, stopCalls, revivals, crossed, unasked>>
  PROVE  WalkersKept'
<1>1. WalkersTyped
  BY DEF WalkersKept
<1>2. process \in [A!Ids -> {"no", "runs", "killed", "dead", "seen"}] /\ process[w] \in {"runs", "killed"}
  BY <1>1 DEF WalkersTyped, A!Runs
<1>3. /\ process' \in [A!Ids -> {"no", "runs", "killed", "dead", "seen"}] /\ process'[w] = state
      /\ \A v \in A!Ids : v # w => process'[v] = process[v]
  BY <1>2
<1>4. A!Ids' = A!Ids /\ A!AtHand' = A!AtHand
  BY DEF A!Ids, A!AtHand
<1>5. A!Launched' = A!Launched /\ A!Launched \subseteq A!Ids
  BY <1>2, <1>3, <1>4 DEF A!Launched
<1>6. WalkersTyped'
  BY <1>1, <1>3, <1>4, <1>5 DEF WalkersTyped
<1>7. \A v \in A!Ids : Gone(v) => Gone(v)'
  BY <1>2, <1>3 DEF Gone
<1>8. TableKept => TableKept'
  <2>1. A!OneWalker => A!OneWalker'
    BY <1>3, <1>4 DEF A!OneWalker
  <2> QED
    BY <1>5, <1>7, <2>1 DEF TableKept
<1>9. StopsKept => StopsKept'
  BY DEF StopsKept
<1>10. SpawnKept => SpawnKept'
  BY <1>4, <1>5 DEF SpawnKept
<1>11. ChainKept => ChainKept'
  <2>1. A!GivesUp => A!GivesUp'
    BY <1>4 DEF A!GivesUp
  <2> QED
    BY <1>5, <1>7, <2>1 DEF ChainKept, Spawned
<1> QED
  BY <1>6, <1>8, <1>9, <1>10, <1>11 DEF WalkersKept

(* A walker's exit is seen, and it is restarted or is not.                 *)
LEMMA ExitKeeps ==
  ASSUME WalkersKept, NEW w \in A!Ids, A!ExitSeen(w)
  PROVE  WalkersKept'
<1> DEFINE dead == [process EXCEPT ![w] = "seen"]
           again == A!Restarts(w) /\ A!MaySpawn(A!Deleted(w))
<1>1. WalkersTyped /\ MAX_RESTARTS \in Nat /\ A!AtHand = MAX_RESTARTS + 1 /\ A!AtHand' = A!AtHand
  BY PartsAssumption DEF WalkersKept, A!AtHand
<1>2. /\ process[w] = "dead" /\ stopping' = {c \in stopping : c.walker # w}
      /\ UNCHANGED <<row, stopCalls, crossed>>
      /\ \/ again /\ A!Launch(dead, row[w].restarts, revivals[w] + 1)
         \/ ~again /\ walkers' = A!Deleted(w) /\ process' = dead /\ UNCHANGED <<spawning, revivals, unasked>>
  BY DEF A!ExitSeen
<1> HIDE DEF again
<1>3. /\ process \in [A!Ids -> {"no", "runs", "killed", "dead", "seen"}] /\ A!Ids \subseteq Nat
      /\ row \in [A!Ids -> [planned : BOOLEAN, restarts : Nat]]
      /\ revivals \in [A!Ids -> Nat] /\ A!Launched \subseteq A!Ids /\ A!Ids' = A!Ids
      /\ 0 \notin A!Ids /\ walkers \in 0 .. MaxWalkers
      /\ A!Ids = 1 .. MaxWalkers /\ MaxWalkers \in Nat
  BY <1>1, PartsAssumption DEF WalkersTyped, A!Launched, A!Ids
<1>4. /\ dead \in [A!Ids -> {"no", "runs", "killed", "dead", "seen"}] /\ dead[w] = "seen"
      /\ \A v \in A!Ids : v # w => dead[v] = process[v]
      /\ \A v \in A!Ids : dead[v] = "no" <=> process[v] = "no"
  BY <1>2, <1>3
<1> HIDE DEF dead
<1>5. w \in A!Launched /\ stopping' \subseteq stopping /\ \A c \in stopping : c.walker \in A!Ids
  BY <1>1, <1>2 DEF A!Launched, WalkersTyped
<1>6. A!Deleted(w) \in {0, walkers} /\ (walkers = w => A!Deleted(w) = 0)
  BY DEF A!Deleted, A!None
<1>7. ASSUME ~crossed, walkers # w PROVE A!Deleted(w) = walkers
  BY <1>7 DEF A!Deleted, A!None, WalkersKept, StopsKept
<1>8. CASE again
  <2> DEFINE n == revivals[w] + 1
             after == row[w].restarts
  <2>1. /\ A!Launch(dead, after, n) /\ ~row[w].planned /\ row[w].restarts < MAX_RESTARTS
        /\ spawning = {} /\ A!Deleted(w) = 0
    BY <1>2, <1>8 DEF again, A!Restarts, A!MaySpawn, A!None
  <2>2. /\ after \in 0 .. A!AtHand /\ n \in Nat /\ after # A!AtHand
        /\ n = revivals[w] + 1 /\ revivals[w] \in Nat /\ after = row[w].restarts /\ after \in Nat
    BY <1>1, <1>3, <2>1
  <2> HIDE DEF n, after
  <2>3. /\ WalkersTyped'
        /\ \E v \in A!Ids :
              /\ v \notin A!Launched /\ A!Launched' = A!Launched \cup {v}
              /\ \A u \in A!Launched : u < v
              /\ walkers' = v /\ process' = [dead EXCEPT ![v] = "runs"]
              /\ spawning' = {[walker |-> v, after |-> after]}
              /\ revivals' = [revivals EXCEPT ![v] = n]
              /\ unasked' => unasked \/ (after # A!AtHand /\ A!Stopped)
    <3>1. UNCHANGED <<row, stopCalls>>
      BY <1>2
    <3> QED
      BY <1>1, <1>4, <1>5, <2>1, <2>2, <3>1, LaunchingKeeps
  <2>4. PICK v \in A!Ids :
          /\ v \notin A!Launched /\ A!Launched' = A!Launched \cup {v}
          /\ \A u \in A!Launched : u < v
          /\ walkers' = v /\ process' = [dead EXCEPT ![v] = "runs"]
          /\ spawning' = {[walker |-> v, after |-> after]}
          /\ revivals' = [revivals EXCEPT ![v] = n]
          /\ unasked' => unasked \/ A!Stopped
    BY <2>3
  <2>5. SUFFICES ASSUME ~crossed PROVE (TableKept /\ StopsKept /\ SpawnKept /\ ChainKept)'
    BY <1>2, <2>3 DEF WalkersKept
  <2>6. TableKept /\ StopsKept /\ SpawnKept /\ ChainKept
    BY <2>5 DEF WalkersKept
  <2>7. walkers = w
    BY <1>2, <1>5, <1>7, <2>1, <2>5, <2>6 DEF TableKept, Gone
  <2>8. \A u \in A!Ids : u # v => process'[u] = dead[u] /\ revivals'[u] = revivals[u]
    BY <1>3, <1>4, <2>4
  <2>9. process'[v] = "runs" /\ revivals'[v] = n /\ v # w /\ process'[w] = "seen"
    BY <1>3, <1>4, <1>5, <2>4
  <2>10. \A u \in A!Ids : dead[u] # "runs"
    BY <1>3, <1>4, <2>6, <2>7 DEF TableKept, A!OneWalker
  <2>11. revivals[w] <= row[w].restarts
    BY <1>2, <1>5, <2>1, <2>6 DEF ChainKept, Spawned, Gone
  <2>12. ~A!Stopped
    <3>1. \A u \in A!Launched : u <= w
      BY <1>3, <1>5, <2>6, <2>7 DEF TableKept
    <3>2. ASSUME NEW u \in A!Launched, \A x \in A!Launched : x <= u PROVE u = w
      <4>1. u <= w /\ w <= u /\ u \in Nat /\ w \in Nat
        BY <1>3, <1>5, <3>1, <3>2
      <4> QED
        BY <4>1
    <3> QED
      BY <2>1, <3>2 DEF A!Stopped
  <2>13. TableKept'
    <3>1. \A u \in A!Launched' : u <= walkers'
      BY <1>3, <2>4
    <3>2. A!OneWalker'
      BY <1>3, <2>4, <2>8, <2>10 DEF A!OneWalker
    <3>3. ASSUME NEW u \in A!Launched' PROVE u = walkers' \/ Gone(u)'
      <4>1. CASE u = v
        BY <2>4, <4>1
      <4>2. CASE u = w
        BY <2>9, <4>2 DEF Gone
      <4>3. CASE u \in A!Launched /\ u # v /\ u # w
        BY <1>2, <1>3, <1>4, <2>6, <2>7, <2>8, <4>3 DEF TableKept, Gone
      <4> QED
        BY <2>4, <4>1, <4>2, <4>3
    <3> QED
      BY <2>4, <3>1, <3>2, <3>3 DEF TableKept
  <2>14. StopsKept'
    <3>1. stopping' = {}
      BY <1>2, <2>6, <2>7 DEF StopsKept
    <3> QED
      BY <3>1 DEF StopsKept
  <2>15. SpawnKept'
    <3> DEFINE r == [walker |-> v, after |-> after]
    <3>1. r.walker = v /\ r.after = after
      OBVIOUS
    <3> HIDE DEF r
    <3>2. spawning' = {r}
      BY <2>4 DEF r
    <3>3. after < MAX_RESTARTS /\ n <= after + 1
      BY <1>1, <2>1, <2>2, <2>11
    <3> QED
      BY <1>1, <2>2, <2>4, <2>9, <3>1, <3>2, <3>3 DEF SpawnKept
  <2>16. ChainKept'
    <3>1. A!GivesUp'
      <4>1. \A u \in A!Ids : revivals[u] <= MAX_RESTARTS
        BY <2>6 DEF ChainKept, A!GivesUp
      <4>2. n <= MAX_RESTARTS
        BY <1>1, <2>1, <2>2, <2>11
      <4>3. \A u \in A!Ids : revivals'[u] <= MAX_RESTARTS
        BY <2>8, <2>9, <4>1, <4>2
      <4> QED
        BY <1>3, <4>3 DEF A!GivesUp
    <3>2. ASSUME NEW u \in A!Launched' PROVE revivals'[u] <= row'[u].restarts \/ Spawned(u)' \/ Gone(u)'
      <4>1. CASE u = v
        <5>1. [walker |-> v, after |-> after].walker = v
          OBVIOUS
        <5> QED
          BY <2>4, <4>1, <5>1 DEF Spawned
      <4>2. CASE u = w
        BY <2>9, <4>2 DEF Gone
      <4>3. CASE u \in A!Launched /\ u # v /\ u # w
        BY <1>2, <1>3, <1>4, <2>1, <2>6, <2>8, <4>3 DEF ChainKept, Spawned, Gone
      <4> QED
        BY <2>4, <4>1, <4>2, <4>3
    <3> QED
      BY <2>4, <2>6, <2>12, <3>1, <3>2 DEF ChainKept
  <2> QED
    BY <2>13, <2>14, <2>15, <2>16
<1>9. CASE ~again
  <2>1. walkers' = A!Deleted(w) /\ process' = dead /\ UNCHANGED <<spawning, revivals, unasked>>
    BY <1>2, <1>9
  <2>2. A!Launched' = A!Launched
    BY <1>3, <1>4, <2>1 DEF A!Launched
  <2>3. WalkersTyped'
    <3>1. walkers' \in 0 .. MaxWalkers
      BY <1>3, <1>6, <2>1
    <3>2. stopping' \subseteq [walker : A!Ids, phase : {"asked", "SIGTERM"}, call : Nat]
      BY <1>1, <1>5 DEF WalkersTyped
    <3> QED
      BY <1>1, <1>2, <1>3, <1>4, <2>1, <2>2, <3>1, <3>2 DEF WalkersTyped
  <2>4. SUFFICES ASSUME ~crossed PROVE (TableKept /\ StopsKept /\ SpawnKept /\ ChainKept)'
    BY <1>2, <2>3 DEF WalkersKept
  <2>5. TableKept /\ StopsKept /\ SpawnKept /\ ChainKept
    BY <2>4 DEF WalkersKept
  <2>6. walkers' = IF walkers = w THEN 0 ELSE walkers
    BY <1>6, <1>7, <2>1, <2>4
  <2>7. /\ \A v \in A!Ids : Gone(v) => Gone(v)'
        /\ Gone(w)' /\ \A v \in A!Ids : v # w => process'[v] = process[v]
    BY <1>2, <1>3, <1>4, <2>1 DEF Gone
  <2>8. TableKept'
    <3>1. A!OneWalker'
      BY <1>3, <1>4, <2>1, <2>5, <2>6 DEF TableKept, A!OneWalker
    <3> QED
      BY <1>3, <2>2, <2>5, <2>6, <2>7, <3>1 DEF TableKept
  <2>9. StopsKept'
    BY <1>2, <1>5, <2>5, <2>6 DEF StopsKept
  <2>10. SpawnKept'
    BY <1>1, <2>1, <2>2, <2>5, <2>6 DEF SpawnKept
  <2>11. ChainKept'
    <3>1. A!GivesUp'
      BY <1>3, <2>1, <2>5 DEF ChainKept, A!GivesUp
    <3> QED
      BY <1>2, <1>3, <2>1, <2>2, <2>5, <2>7, <3>1 DEF ChainKept, Spawned
  <2> QED
    BY <2>8, <2>9, <2>10, <2>11
<1> QED
  BY <1>8, <1>9

(* A walker is to be stopped: planned at once, and a call that waits.      *)
LEMMA StopKeeps ==
  ASSUME WalkersKept, walkers \in A!Ids, A!Stops(walkers),
         UNCHANGED <<walkers, process, spawning, revivals, unasked>>
  PROVE  WalkersKept'
<1> DEFINE c == [walker |-> walkers, phase |-> "asked", call |-> stopCalls]
<1>1. WalkersTyped
  BY DEF WalkersKept
<1>2. /\ row' = [row EXCEPT ![walkers].planned = TRUE] /\ stopping' = stopping \cup {c}
      /\ stopCalls' = stopCalls + 1 /\ crossed' = (crossed \/ \E d \in stopping : d.walker = walkers)
  BY DEF A!Stops
<1>3. /\ row \in [A!Ids -> [planned : BOOLEAN, restarts : Nat]] /\ stopCalls \in Nat
      /\ A!Launched' = A!Launched /\ A!Ids' = A!Ids /\ A!AtHand' = A!AtHand /\ A!Launched \subseteq A!Ids
  BY <1>1 DEF WalkersTyped, A!Launched, A!Ids, A!AtHand
<1>4. c.walker = walkers /\ c \in [walker : A!Ids, phase : {"asked", "SIGTERM"}, call : Nat]
  BY <1>3
<1> HIDE DEF c
<1>5. /\ row' \in [A!Ids -> [planned : BOOLEAN, restarts : Nat]]
      /\ \A w \in A!Ids : (row[w].planned => row'[w].planned) /\ row'[w].restarts = row[w].restarts
      /\ row'[walkers].planned
  <2> DEFINE r == [row[walkers] EXCEPT !.planned = TRUE]
  <2>1. row[walkers] \in [planned : BOOLEAN, restarts : Nat]
    BY <1>3
  <2>2. r \in [planned : BOOLEAN, restarts : Nat] /\ r.planned /\ r.restarts = row[walkers].restarts
    BY <2>1
  <2>3. row' = [row EXCEPT ![walkers] = r]
    BY <1>2
  <2> HIDE DEF r
  <2> QED
    BY <1>3, <2>2, <2>3
<1>6. WalkersTyped'
  <2>1. stopCalls' \in Nat
    BY <1>2, <1>3
  <2>2. stopping' \subseteq [walker : A!Ids, phase : {"asked", "SIGTERM"}, call : Nat]
    BY <1>1, <1>2, <1>4 DEF WalkersTyped
  <2> QED
    BY <1>1, <1>3, <1>5, <2>1, <2>2 DEF WalkersTyped
<1>7. SUFFICES ASSUME ~crossed' PROVE (TableKept /\ StopsKept /\ SpawnKept /\ ChainKept)'
  BY <1>6 DEF WalkersKept
<1>8. ~crossed /\ \A d \in stopping : d.walker # walkers
  BY <1>2, <1>7
<1>9. TableKept /\ StopsKept /\ SpawnKept /\ ChainKept
  BY <1>8 DEF WalkersKept
<1>10. \A w \in A!Ids : Gone(w) => Gone(w)'
  BY <1>5 DEF Gone
<1>11. TableKept'
  <2>1. A!OneWalker'
    BY <1>3, <1>9 DEF TableKept, A!OneWalker
  <2> QED
    BY <1>3, <1>9, <1>10, <2>1 DEF TableKept
<1>12. StopsKept'
  <2>1. stopping = {}
    BY <1>8, <1>9 DEF StopsKept
  <2>2. stopping' = {c}
    BY <1>2, <2>1
  <2> QED
    BY <1>4, <1>5, <2>2 DEF StopsKept
<1>13. SpawnKept'
  BY <1>3, <1>9 DEF SpawnKept
<1>14. ChainKept'
  <2>1. A!GivesUp'
    BY <1>3, <1>9 DEF ChainKept, A!GivesUp
  <2> QED
    BY <1>3, <1>5, <1>9, <1>10, <2>1 DEF ChainKept, Spawned
<1> QED
  BY <1>11, <1>12, <1>13, <1>14

(* The call that stops a walker waits no longer.                           *)
LEMMA StopWaitKeeps ==
  ASSUME WalkersKept, NEW c \in stopping, A!StopWaits(c)
  PROVE  WalkersKept'
<1>1. WalkersTyped
  BY DEF WalkersKept
<1>2. c \in [walker : A!Ids, phase : {"asked", "SIGTERM"}, call : Nat] /\ c.walker \in A!Ids
  BY <1>1 DEF WalkersTyped
<1>3. UNCHANGED <<row, spawning, stopCalls, revivals, crossed, unasked>>
  BY DEF A!StopWaits, A!walkersGhosts
<1>4. CASE /\ stopping' = (stopping \ {c}) \cup {[c EXCEPT !.phase = "SIGTERM"]}
           /\ UNCHANGED <<process, walkers>>
  <2> DEFINE d == [c EXCEPT !.phase = "SIGTERM"]
  <2>1. d.walker = c.walker /\ d \in [walker : A!Ids, phase : {"asked", "SIGTERM"}, call : Nat]
    BY <1>2
  <2>2. stopping' = (stopping \ {c}) \cup {d}
    BY <1>4
  <2> HIDE DEF d
  <2>3. A!Launched' = A!Launched /\ A!Ids' = A!Ids /\ A!AtHand' = A!AtHand
    BY <1>4 DEF A!Launched, A!Ids, A!AtHand
  <2>4. WalkersTyped'
    <3>1. stopping' \subseteq [walker : A!Ids, phase : {"asked", "SIGTERM"}, call : Nat]
      BY <1>1, <2>1, <2>2 DEF WalkersTyped
    <3> QED
      BY <1>1, <1>3, <1>4, <2>3, <3>1 DEF WalkersTyped
  <2>5. TableKept => TableKept'
    BY <1>3, <1>4, <2>3 DEF TableKept, A!OneWalker, Gone
  <2>6. StopsKept => StopsKept'
    <3> SUFFICES ASSUME StopsKept PROVE StopsKept'
      OBVIOUS
    <3>1. stopping' = {d}
      BY <2>2 DEF StopsKept
    <3>2. c.walker = walkers /\ row[c.walker].planned
      BY DEF StopsKept
    <3> QED
      BY <1>3, <1>4, <2>1, <3>1, <3>2 DEF StopsKept
  <2>7. SpawnKept => SpawnKept'
    BY <1>3, <1>4, <2>3 DEF SpawnKept
  <2>8. ChainKept => ChainKept'
    BY <1>3, <1>4, <2>3 DEF ChainKept, A!GivesUp, Spawned, Gone
  <2> QED
    BY <1>3, <2>4, <2>5, <2>6, <2>7, <2>8 DEF WalkersKept
<1>5. CASE /\ stopping' = stopping \ {c} /\ walkers' = 0
           /\ process' = IF A!Runs(c.walker) THEN [process EXCEPT ![c.walker] = "killed"] ELSE process
  <2>1. /\ process \in [A!Ids -> {"no", "runs", "killed", "dead", "seen"}] /\ A!Ids' = A!Ids
        /\ A!AtHand' = A!AtHand /\ 0 \in 0 .. MaxWalkers /\ A!Launched \subseteq A!Ids
    BY <1>1, PartsAssumption DEF WalkersTyped, A!Ids, A!AtHand, A!Launched
  <2>2. /\ process' \in [A!Ids -> {"no", "runs", "killed", "dead", "seen"}]
        /\ \A w \in A!Ids : w # c.walker => process'[w] = process[w]
        /\ \A w \in A!Ids : process'[w] = "no" <=> process[w] = "no"
        /\ \A w \in A!Ids : process'[w] = "seen" <=> process[w] = "seen"
        /\ process'[c.walker] # "runs"
    BY <1>2, <1>5, <2>1 DEF A!Runs
  <2>3. A!Launched' = A!Launched
    BY <2>1, <2>2 DEF A!Launched
  <2>4. WalkersTyped'
    <3>1. stopping' \subseteq [walker : A!Ids, phase : {"asked", "SIGTERM"}, call : Nat]
      BY <1>1, <1>5 DEF WalkersTyped
    <3> QED
      BY <1>1, <1>3, <1>5, <2>1, <2>2, <2>3, <3>1 DEF WalkersTyped
  <2>5. SUFFICES ASSUME ~crossed PROVE (TableKept /\ StopsKept /\ SpawnKept /\ ChainKept)'
    BY <1>3, <2>4 DEF WalkersKept
  <2>6. TableKept /\ StopsKept /\ SpawnKept /\ ChainKept
    BY <2>5 DEF WalkersKept
  <2>7. \A w \in A!Ids : Gone(w) => Gone(w)'
    BY <1>3, <2>2 DEF Gone
  <2>8. c.walker = walkers /\ \A w \in A!Ids : w = walkers => Gone(w)'
    BY <1>3, <2>6 DEF StopsKept, Gone
  <2>9. TableKept'
    <3>1. A!OneWalker'
      BY <1>5, <2>1, <2>2, <2>6, <2>8 DEF TableKept, A!OneWalker
    <3> QED
      BY <1>5, <2>1, <2>3, <2>6, <2>7, <2>8, <3>1 DEF TableKept
  <2>10. StopsKept'
    <3>1. stopping' = {}
      BY <1>5, <2>6 DEF StopsKept
    <3> QED
      BY <3>1 DEF StopsKept
  <2>11. SpawnKept'
    BY <1>3, <1>5, <2>1, <2>3, <2>6 DEF SpawnKept
  <2>12. ChainKept'
    <3>1. A!GivesUp'
      BY <1>3, <2>1, <2>6 DEF ChainKept, A!GivesUp
    <3> QED
      BY <1>3, <2>1, <2>3, <2>6, <2>7, <3>1 DEF ChainKept, Spawned
  <2> QED
    BY <2>9, <2>10, <2>11, <2>12
<1> QED
  BY <1>4, <1>5 DEF A!StopWaits, A!None

(* One step of the table of walkers.                                       *)
LEMMA WalkersStep ==
  ASSUME WalkersKept, A!Next
  PROVE  WalkersKept'
<1>1. CASE A!RoomsComeAndGo \/ A!SeatCloses \/ A!ShutdownBegins \/ A!HouseLeaves
           \/ (\E w \in A!Ids \cup {A!Elsewhere} : A!Attaches(w))
  <2>1. UNCHANGED <<walkers, process, row, spawning, stopping, stopCalls, revivals, crossed, unasked>>
    BY <1>1 DEF A!RoomsComeAndGo, A!SeatCloses, A!ShutdownBegins, A!HouseLeaves, A!Attaches, A!rowVars, A!walkersGhosts
  <2> QED
    BY <2>1, TableStays
<1>2. CASE A!HandleRoomWalkerSpawn
  BY <1>2, SpawnKeeps
<1>3. CASE A!StopWalker
  <2>1. walkers \in A!Ids /\ A!Stops(walkers) /\ UNCHANGED <<walkers, process, spawning, revivals, unasked>>
    BY <1>3 DEF A!StopWalker
  <2> QED
    BY <2>1, StopKeeps
<1>4. ASSUME NEW s \in spawning, A!SpawnResolves(s) PROVE WalkersKept'
  BY <1>4, ResolvingKeeps
<1>5. ASSUME NEW w \in A!Ids, A!Dies(w) PROVE WalkersKept'
  <2>1. /\ A!Runs(w) /\ process' = [process EXCEPT ![w] = "dead"]
        /\ UNCHANGED <<walkers, row, spawning, stopping, stopCalls, revivals, crossed, unasked>>
    BY <1>5 DEF A!Dies, A!walkersGhosts
  <2> QED
    BY <2>1, DeathKeeps
<1>6. ASSUME NEW w \in A!Ids, A!ExitSeen(w) PROVE WalkersKept'
  BY <1>6, ExitKeeps
<1>7. ASSUME NEW c \in stopping, A!StopWaits(c) PROVE WalkersKept'
  BY <1>7, StopWaitKeeps
<1>8. CASE A!RoomsRested
  <2>1. UNCHANGED <<walkers, process, spawning, revivals, unasked>>
    BY <1>8 DEF A!RoomsRested
  <2>2. CASE walkers \in A!Ids /\ A!Stops(walkers)
    BY <2>1, <2>2, StopKeeps
  <2>3. CASE UNCHANGED <<row, stopping, stopCalls, crossed>>
    BY <2>1, <2>3, TableStays
  <2> QED
    BY <1>8, <2>2, <2>3 DEF A!RoomsRested
<1> QED
  BY <1>1, <1>2, <1>3, <1>4, <1>5, <1>6, <1>7, <1>8 DEF A!Next

-----------------------------------------------------------------------------
(* ToolSessions: the invariant.                                            *)

CallsOf(Ids) ==
  [at : {"idle", "waits", "submitted", "said"}, on : Ids, late : BOOLEAN, long : BOOLEAN,
   said : {"", "Error", "running", "killed", "terminated", "exit code", "none", "runs", "exited"}]

SessionsTyped ==
  /\ proc \in [T!Sessions -> {"none", "runs", "exited"}]
  /\ listed \subseteq T!Sessions
  /\ sent \in [T!Sessions -> {"", "TERM", "KILL"}]
  /\ call \in [Calls -> CallsOf(0 .. MaxSpawns)]

(* What a call of a session says is no more than what happened to it; one  *)
(* that waits on an old one has a timeout that is longer still.            *)
Told(c) ==
  /\ call[c].said \in {"exit code", "killed", "terminated"} => call[c].on \in T!Sessions
  /\ call[c].said = "exit code" => proc[call[c].on] = "exited"
  /\ call[c].said \in {"killed", "terminated"} => (sent[call[c].on] # "" \/ proc[call[c].on] = "exited")
Waits(c) ==
  call[c].at = "waits" => /\ call[c].on \in T!Sessions /\ (call[c].on \in old => call[c].long)
                          /\ call[c].on \in listed \/ call[c].long

(* A session that was not started yet is nowhere.                          *)
Fresh == \A i \in T!Sessions : proc[i] = "none" => sent[i] = "" /\ i \notin listed \cup old \cup grace
InGrace == \A i \in T!Running : sent[i] = "TERM" => i \in grace
Within == T!Running \subseteq listed /\ Cardinality(T!Running) <= MAX_CONCURRENT
Ended == crashed => \E c \in Calls : call[c].long

SessionsKept ==
  SessionsTyped /\ Within /\ InGrace /\ Ended /\ Fresh /\ \A c \in Calls : Told(c) /\ Waits(c)

(* There are no more sessions than numbers.                                *)
LEMMA FewSessions ==
  ASSUME NEW S \in SUBSET T!Sessions
  PROVE  IsFiniteSet(S) /\ Cardinality(S) \in Nat /\ \A R \in SUBSET S : Cardinality(R) <= Cardinality(S)
<1>1. MaxSpawns \in Int /\ 1 \in Int
  BY PartsAssumption
<1>2. IsFiniteSet(1 .. MaxSpawns)
  BY <1>1, FS_Interval
<1>3. IsFiniteSet(S)
  BY <1>2, FS_Subset DEF T!Sessions
<1> QED
  BY <1>3, FS_Subset, FS_CardinalityType

(* What a call becomes when it is answered.                                *)
LEMMA AnswerIs ==
  ASSUME SessionsTyped, NEW c \in Calls, NEW id \in 0 .. MaxSpawns,
         NEW what \in {"Error", "running", "killed", "terminated", "exit code", "none", "runs", "exited"},
         T!Answers(c, id, what)
  PROVE  /\ call' \in [Calls -> CallsOf(0 .. MaxSpawns)]
         /\ \A d \in Calls : d # c => call'[d] = call[d]
         /\ call'[c].at = "said" /\ call'[c].on = id /\ call'[c].said = what /\ call'[c].long = call[c].long
<1> DEFINE k == [call[c] EXCEPT !.at = "said", !.on = id, !.said = what]
<1>1. call \in [Calls -> CallsOf(0 .. MaxSpawns)] /\ call[c] \in CallsOf(0 .. MaxSpawns)
  BY DEF SessionsTyped
<1>2. k \in CallsOf(0 .. MaxSpawns) /\ k.at = "said" /\ k.on = id /\ k.said = what /\ k.long = call[c].long
  BY <1>1 DEF CallsOf
<1>3. call' = [call EXCEPT ![c] = k]
  BY DEF T!Answers
<1> HIDE DEF k
<1> QED
  BY <1>1, <1>2, <1>3

(* A call that is answered with what is so, while the sessions stay.       *)
LEMMA AnswerKeeps ==
  ASSUME SessionsKept, NEW c \in Calls, NEW id \in 0 .. MaxSpawns,
         NEW what \in {"Error", "running", "killed", "terminated", "exit code", "none", "runs", "exited"},
         T!Answers(c, id, what), UNCHANGED <<proc, listed, old, crashed>>,
         sent' \in [T!Sessions -> {"", "TERM", "KILL"}],
         \A i \in T!Sessions : \/ sent'[i] = sent[i]
                               \/ proc[i] # "none" /\ sent'[i] = "TERM" /\ i \in grace',
         grace \subseteq grace', \A i \in grace' : i \in grace \/ proc[i] # "none",
         what \in {"exit code", "killed", "terminated"} => id \in T!Sessions,
         what = "exit code" => proc[id] = "exited",
         what \in {"killed", "terminated"} => sent'[id] # "" \/ proc[id] = "exited"
  PROVE  SessionsKept'
<1>1. SessionsTyped
  BY DEF SessionsKept
<1>2. /\ call' \in [Calls -> CallsOf(0 .. MaxSpawns)]
      /\ \A d \in Calls : d # c => call'[d] = call[d]
      /\ call'[c].at = "said" /\ call'[c].on = id /\ call'[c].said = what /\ call'[c].long = call[c].long
  BY <1>1, AnswerIs, Zenon
<1>3. T!Sessions' = T!Sessions /\ T!Running' = T!Running /\ T!Running \subseteq T!Sessions
  BY DEF T!Sessions, T!Running
<1>4. SessionsTyped'
  BY <1>1, <1>2, <1>3 DEF SessionsTyped
<1>5. ASSUME NEW d \in Calls PROVE Told(d)' /\ Waits(d)'
  <2>1. CASE d = c
    <3>1. what \in {"exit code", "killed", "terminated"} => id \in T!Sessions
      OBVIOUS
    <3> QED
      BY <1>2, <1>3, <2>1, <3>1 DEF Told, Waits
  <2>2. CASE d # c
    <3>1. Told(d) /\ Waits(d)
      BY DEF SessionsKept
    <3>2. call'[d] = call[d]
      BY <1>2, <2>2
    <3>3. \A i \in T!Sessions : sent[i] # "" => sent'[i] # ""
      OBVIOUS
    <3> QED
      BY <1>3, <3>1, <3>2, <3>3 DEF Told, Waits
  <2> QED
    BY <2>1, <2>2
<1>6. Within' /\ InGrace' /\ Fresh'
  BY <1>3 DEF SessionsKept, Within, InGrace, Fresh
<1>7. Ended'
  BY <1>2 DEF SessionsKept, Ended
<1> QED
  BY <1>4, <1>5, <1>6, <1>7 DEF SessionsKept

(* A call that is under way.                                               *)
LEMMA AtIs ==
  ASSUME SessionsTyped, NEW c \in Calls, NEW id \in T!Sessions, NEW where \in {"waits", "submitted"},
         NEW long \in BOOLEAN, call' = [call EXCEPT ![c] = T!At(where, id, long)]
  PROVE  /\ call' \in [Calls -> CallsOf(0 .. MaxSpawns)]
         /\ \A d \in Calls : d # c => call'[d] = call[d]
         /\ call'[c].at = where /\ call'[c].on = id /\ call'[c].said = ""
<1> DEFINE k == T!At(where, id, long)
<1>1. id \in 0 .. MaxSpawns
  BY DEF T!Sessions
<1>2. k \in CallsOf(0 .. MaxSpawns) /\ k.at = where /\ k.on = id /\ k.said = ""
  BY <1>1 DEF CallsOf, T!At
<1>3. call' = [call EXCEPT ![c] = k] /\ call \in [Calls -> CallsOf(0 .. MaxSpawns)]
  BY DEF SessionsTyped
<1> HIDE DEF k
<1> QED
  BY <1>2, <1>3

(* A kill is a signal now and a second one when its grace has passed.      *)
LEMMA KillIs ==
  ASSUME SessionsKept, NEW id \in listed, T!Kill(id)
  PROVE  /\ id \in T!Sessions /\ sent' \in [T!Sessions -> {"", "TERM", "KILL"}]
         /\ \A i \in T!Sessions : \/ sent'[i] = sent[i]
                                  \/ proc[i] # "none" /\ sent'[i] = "TERM" /\ i \in grace'
         /\ grace \subseteq grace' /\ \A i \in grace' : i \in grace \/ proc[i] # "none"
         /\ sent'[id] # "" \/ proc[id] = "exited"
<1>1. SessionsTyped /\ id \in T!Sessions /\ proc[id] # "none"
  BY DEF SessionsKept, Fresh, SessionsTyped
<1>2. sent \in [T!Sessions -> {"", "TERM", "KILL"}]
  BY <1>1 DEF SessionsTyped
<1>3. CASE proc[id] = "exited"
  BY <1>1, <1>2, <1>3 DEF T!Kill
<1>4. CASE proc[id] # "exited"
  BY <1>1, <1>2, <1>4 DEF T!Kill
<1> QED
  BY <1>3, <1>4

(* terminal: a session, or an error.                                       *)
LEMMA TerminalKeeps ==
  ASSUME SessionsKept, NEW c \in Calls, NEW background \in BOOLEAN, NEW long \in BOOLEAN,
         T!Terminal(c, background, long)
  PROVE  SessionsKept'
<1>1. SessionsTyped /\ UNCHANGED <<old, sent, grace, crashed>> /\ MaxSpawns \in Nat /\ MAX_CONCURRENT \in Nat
  BY PartsAssumption DEF SessionsKept, T!Terminal
<1>2. CASE T!Answers(c, 0, "Error") /\ UNCHANGED <<proc, listed>>
  <2>1. 0 \in 0 .. MaxSpawns /\ "Error" \notin {"exit code", "killed", "terminated"}
    BY <1>1
  <2>2. sent' \in [T!Sessions -> {"", "TERM", "KILL"}]
    BY <1>1 DEF SessionsTyped
  <2> QED
    BY <1>1, <1>2, <2>1, <2>2, AnswerKeeps
<1>3. ASSUME T!Cardinality(T!Unfinished) < MAX_CONCURRENT, ~crashed, \E i \in T!Sessions : proc[i] = "none",
             LET id == T!Min({i \in T!Sessions : proc[i] = "none"}) IN
               /\ proc' = [proc EXCEPT ![id] = "runs"] /\ listed' = listed \cup {id}
               /\ IF background THEN T!Answers(c, id, "running")
                  ELSE call' = [call EXCEPT ![c] = T!At("waits", id, long)]
      PROVE  SessionsKept'
  <2> DEFINE free == {i \in T!Sessions : proc[i] = "none"}
             id == T!Min(free)
  <2>1. free \subseteq Nat /\ free # {} /\ free \subseteq T!Sessions
    BY <1>3 DEF T!Sessions
  <2>2. id \in free
    <3> HIDE DEF free
    <3>1. \E n \in free : \A m \in free : n <= m
      BY <2>1, Least
    <3> QED
      BY <3>1 DEF T!Min
  <2>3. /\ proc' = [proc EXCEPT ![id] = "runs"] /\ listed' = listed \cup {id}
        /\ IF background THEN T!Answers(c, id, "running")
           ELSE call' = [call EXCEPT ![c] = T!At("waits", id, long)]
    BY <1>3
  <2>4. id \in T!Sessions /\ proc[id] = "none"
    BY <2>2
  <2> HIDE DEF id
  <2>5. id \in 0 .. MaxSpawns
    BY <2>4 DEF T!Sessions
  <2>6. proc \in [T!Sessions -> {"none", "runs", "exited"}] /\ T!Sessions' = T!Sessions /\ listed \subseteq T!Sessions
    BY <1>1 DEF SessionsTyped, T!Sessions
  <2>7. /\ proc' \in [T!Sessions -> {"none", "runs", "exited"}] /\ proc'[id] = "runs"
        /\ \A i \in T!Sessions : i # id => proc'[i] = proc[i]
    BY <2>3, <2>4, <2>6
  <2>8. T!Running' = T!Running \cup {id}
    BY <2>4, <2>6, <2>7 DEF T!Running
  <2>9. Within'
    <3>1. T!Running \subseteq listed /\ T!Unfinished \subseteq T!Sessions
      BY <2>6 DEF SessionsKept, Within, T!Unfinished
    <3>2. T!Running \subseteq T!Unfinished
      BY <3>1 DEF T!Running, T!Unfinished
    <3>3. T!Cardinality(T!Unfinished) = Cardinality(T!Unfinished)
      BY DEF T!Cardinality, Cardinality
    <3>4. /\ Cardinality(T!Running) <= Cardinality(T!Unfinished) /\ Cardinality(T!Unfinished) \in Nat
          /\ IsFiniteSet(T!Unfinished) /\ IsFiniteSet(T!Running) /\ Cardinality(T!Running) \in Nat
      <4>1. T!Running \subseteq T!Sessions
        BY DEF T!Running
      <4> QED
        BY <3>1, <3>2, <4>1, FewSessions
    <3>5. Cardinality(T!Running \cup {id}) <= Cardinality(T!Running) + 1
      <4>1. Cardinality(T!Running \cup {id}) = IF id \in T!Running THEN Cardinality(T!Running) ELSE Cardinality(T!Running) + 1
        BY <3>4, FS_AddElement
      <4> QED
        BY <3>4, <4>1
    <3>6. Cardinality(T!Running \cup {id}) \in Nat
      <4>1. T!Running \cup {id} \subseteq T!Sessions
        BY <2>4 DEF T!Running
      <4> QED
        BY <4>1, FewSessions
    <3>7. Cardinality(T!Running) + 1 <= MAX_CONCURRENT
      BY <1>1, <1>3, <3>3, <3>4
    <3>8. Cardinality(T!Running \cup {id}) <= MAX_CONCURRENT
      BY <1>1, <3>4, <3>5, <3>6, <3>7
    <3> QED
      BY <2>3, <2>8, <3>1, <3>8 DEF Within
  <2>10. InGrace'
    BY <1>1, <2>4, <2>6, <2>8 DEF SessionsKept, InGrace, Fresh
  <2>11. Fresh'
    BY <1>1, <2>3, <2>4, <2>6, <2>7 DEF SessionsKept, Fresh
  <2>12. ~crashed'
    BY <1>1, <1>3
  <2>13. /\ call' \in [Calls -> CallsOf(0 .. MaxSpawns)]
         /\ \A d \in Calls : d # c => call'[d] = call[d]
         /\ call'[c].on = id /\ call'[c].said \in {"", "running"}
    <3>1. CASE background
      BY <1>1, <2>3, <2>5, <3>1, AnswerIs
    <3>2. CASE ~background
      BY <1>1, <2>3, <2>4, <3>2, AtIs
    <3> QED
      BY <3>1, <3>2
  <2>14. ASSUME NEW d \in Calls PROVE Told(d)' /\ Waits(d)'
    <3>1. CASE d = c
      <4>1. id \notin old /\ id \in listed'
        BY <2>3, <2>4 DEF SessionsKept, Fresh
      <4> QED
        BY <1>1, <2>4, <2>6, <2>13, <3>1, <4>1 DEF Told, Waits
    <3>2. CASE d # c
      <4>1. Told(d) /\ Waits(d)
        BY DEF SessionsKept
      <4>2. call'[d] = call[d]
        BY <2>13, <3>2
      <4>3. \A i \in T!Sessions : proc[i] = "exited" => proc'[i] = "exited"
        BY <2>4, <2>7
      <4> QED
        BY <1>1, <2>3, <2>6, <4>1, <4>2, <4>3 DEF Told, Waits
    <3> QED
      BY <3>1, <3>2
  <2>15. SessionsTyped'
    <3>1. listed' \subseteq T!Sessions
      BY <2>3, <2>4, <2>6
    <3> QED
      BY <1>1, <2>6, <2>7, <2>13, <3>1 DEF SessionsTyped
  <2> QED
    BY <2>9, <2>10, <2>11, <2>12, <2>14, <2>15 DEF SessionsKept, Ended
<1> QED
  BY <1>2, <1>3 DEF T!Terminal, T!Asks

(* A call that neither is answered nor waits anew leaves the sessions so.  *)
LEMMA CallsKeep ==
  ASSUME SessionsKept, NEW c \in Calls, NEW k \in CallsOf(0 .. MaxSpawns),
         call' = [call EXCEPT ![c] = k], k.long = call[c].long \/ ~crashed,
         k.at = "waits" => call[c].at = "waits" /\ k.on = call[c].on /\ k.long = call[c].long,
         k.said \notin {"killed", "terminated", "exit code"} \/ (k.said = call[c].said /\ k.on = call[c].on),
         UNCHANGED <<proc, listed, old, sent, grace, crashed>>
  PROVE  SessionsKept'
<1>1. SessionsTyped /\ T!Sessions' = T!Sessions /\ T!Running' = T!Running
  BY DEF SessionsKept, T!Sessions, T!Running
<1>2. call' \in [Calls -> CallsOf(0 .. MaxSpawns)] /\ call'[c] = k /\ \A d \in Calls : d # c => call'[d] = call[d]
  BY <1>1 DEF SessionsTyped
<1>3. SessionsTyped'
  BY <1>1, <1>2 DEF SessionsTyped
<1>4. Within' /\ InGrace' /\ Fresh'
  BY <1>1 DEF SessionsKept, Within, InGrace, Fresh
<1>5. Ended'
  BY <1>2 DEF SessionsKept, Ended
<1>6. ASSUME NEW d \in Calls PROVE Told(d)' /\ Waits(d)'
  <2>1. Told(d) /\ Waits(d)
    BY DEF SessionsKept
  <2> QED
    BY <1>1, <1>2, <2>1 DEF Told, Waits
<1> QED
  BY <1>3, <1>4, <1>5, <1>6 DEF SessionsKept

(* process: submit.                                                        *)
LEMMA SubmitKeeps ==
  ASSUME SessionsKept, NEW c \in Calls, NEW id \in T!Sessions, T!Submits(c, id)
  PROVE  SessionsKept'
<1>1. SessionsTyped /\ id \in 0 .. MaxSpawns
  BY DEF SessionsKept, T!Sessions
<1>2. UNCHANGED <<proc, listed, old, sent, grace, crashed>> /\ ~crashed
  BY DEF T!Submits, T!Asks
<1>3. CASE T!Answers(c, id, "Error")
  <2>1. sent' \in [T!Sessions -> {"", "TERM", "KILL"}]
    BY <1>1, <1>2 DEF SessionsTyped
  <2> QED
    BY <1>1, <1>2, <1>3, <2>1, AnswerKeeps
<1>4. CASE call' = [call EXCEPT ![c] = T!At("submitted", id, FALSE)]
  <2> DEFINE k == T!At("submitted", id, FALSE)
  <2>1. k \in CallsOf(0 .. MaxSpawns) /\ k.at = "submitted" /\ k.said = ""
    BY <1>1 DEF CallsOf, T!At
  <2>2. call' = [call EXCEPT ![c] = k]
    BY <1>4
  <2> HIDE DEF k
  <2> QED
    BY <1>2, <2>1, <2>2, CallsKeep
<1> QED
  BY <1>3, <1>4 DEF T!Submits

(* The timeout of a call passes.                                           *)
LEMMA TimeoutKeeps ==
  ASSUME SessionsKept, NEW c \in Calls, T!TimeoutPasses(c)
  PROVE  SessionsKept'
<1> DEFINE k == [call[c] EXCEPT !.late = TRUE]
<1>1. UNCHANGED <<proc, listed, old, sent, grace, crashed>> /\ call' = [call EXCEPT ![c] = k]
  BY DEF T!TimeoutPasses
<1>2. call[c] \in CallsOf(0 .. MaxSpawns) /\ call[c].at = "waits"
  BY DEF SessionsKept, SessionsTyped, T!TimeoutPasses
<1>3. /\ k \in CallsOf(0 .. MaxSpawns) /\ k.at = call[c].at /\ k.said = call[c].said
      /\ k.on = call[c].on /\ k.long = call[c].long
  BY <1>2 DEF CallsOf
<1> HIDE DEF k
<1> QED
  BY <1>1, <1>2, <1>3, CallsKeep

(* waitForExit's check.                                                    *)
LEMMA CheckKeeps ==
  ASSUME SessionsKept, NEW c \in Calls, T!Checks(c)
  PROVE  SessionsKept'
<1> DEFINE id == call[c].on
<1>1. SessionsTyped /\ Waits(c)
  BY DEF SessionsKept
<1>2. call[c].at = "waits" /\ ~crashed /\ UNCHANGED <<proc, listed, old>> /\ id \in T!Sessions
  BY <1>1 DEF T!Checks, Waits
<1>3. id \in 0 .. MaxSpawns
  BY <1>2 DEF T!Sessions
<1>4. sent \in [T!Sessions -> {"", "TERM", "KILL"}]
  BY <1>1 DEF SessionsTyped
<1>5. CASE id \notin listed /\ crashed' = TRUE /\ UNCHANGED <<call, sent, grace>>
  <2>1. call[c].long
    BY <1>1, <1>2, <1>5 DEF Waits
  <2>2. SessionsTyped' /\ Within' /\ InGrace' /\ Fresh'
    BY <1>2, <1>5 DEF SessionsKept, SessionsTyped, Within, InGrace, Fresh, T!Sessions, T!Running
  <2>3. \A d \in Calls : Told(d)' /\ Waits(d)'
    BY <1>2, <1>5 DEF SessionsKept, Told, Waits, T!Sessions
  <2>4. Ended'
    BY <1>5, <2>1 DEF Ended
  <2> QED
    BY <2>2, <2>3, <2>4 DEF SessionsKept
<1>6. CASE /\ id \in listed /\ proc[id] = "exited" /\ T!Answers(c, id, "exit code")
           /\ UNCHANGED <<sent, grace, crashed>>
  <2> HIDE DEF id
  <2> QED
    BY <1>2, <1>3, <1>4, <1>6, AnswerKeeps
<1>7. CASE id \in listed /\ T!Kill(id) /\ T!Answers(c, id, "killed") /\ UNCHANGED crashed
  <2> HIDE DEF id
  <2>1. /\ id \in T!Sessions /\ sent' \in [T!Sessions -> {"", "TERM", "KILL"}]
        /\ \A i \in T!Sessions : \/ sent'[i] = sent[i]
                                 \/ proc[i] # "none" /\ sent'[i] = "TERM" /\ i \in grace'
        /\ grace \subseteq grace' /\ \A i \in grace' : i \in grace \/ proc[i] # "none"
        /\ sent'[id] # "" \/ proc[id] = "exited"
    BY <1>7, KillIs
  <2> QED
    BY <1>2, <1>3, <1>7, <2>1, AnswerKeeps
<1> QED
  BY <1>5, <1>6, <1>7 DEF T!Checks

(* What a poll tells.                                                      *)
LEMMA PollKeeps ==
  ASSUME SessionsKept, NEW c \in Calls, NEW id \in 0 .. MaxSpawns,
         T!Answers(c, id, IF id \notin listed THEN "Error" ELSE proc[id]),
         UNCHANGED <<proc, listed, old, sent, grace, crashed>>
  PROVE  SessionsKept'
<1> DEFINE what == IF id \notin listed THEN "Error" ELSE proc[id]
<1>1. /\ sent' \in [T!Sessions -> {"", "TERM", "KILL"}] /\ listed \subseteq T!Sessions
      /\ proc \in [T!Sessions -> {"none", "runs", "exited"}]
  BY DEF SessionsKept, SessionsTyped
<1>2. what \in {"Error", "none", "runs", "exited"} /\ T!Answers(c, id, what)
  BY <1>1
<1> HIDE DEF what
<1> QED
  BY <1>1, <1>2, AnswerKeeps

(* process: kill.                                                          *)
LEMMA KillsKeeps ==
  ASSUME SessionsKept, NEW c \in Calls, NEW i \in T!Sessions, T!Kills(c, i)
  PROVE  SessionsKept'
<1>1. /\ i \in 0 .. MaxSpawns /\ sent \in [T!Sessions -> {"", "TERM", "KILL"}]
      /\ UNCHANGED <<proc, listed, old, crashed>>
  <2>1. sent \in [T!Sessions -> {"", "TERM", "KILL"}]
    BY DEF SessionsKept, SessionsTyped
  <2>2. i \in 0 .. MaxSpawns
    BY DEF T!Sessions
  <2>3. UNCHANGED <<proc, listed, old, crashed>>
    BY DEF T!Kills
  <2> QED
    BY <2>1, <2>2, <2>3
<1>2. CASE i \notin listed /\ T!Answers(c, i, "Error") /\ UNCHANGED <<sent, grace>>
  BY <1>1, <1>2, AnswerKeeps
<1>3. CASE i \in listed /\ T!Kill(i) /\ T!Answers(c, i, "terminated")
  <2>1. /\ i \in T!Sessions /\ sent' \in [T!Sessions -> {"", "TERM", "KILL"}]
        /\ \A j \in T!Sessions : \/ sent'[j] = sent[j]
                                 \/ proc[j] # "none" /\ sent'[j] = "TERM" /\ j \in grace'
        /\ grace \subseteq grace' /\ \A j \in grace' : j \in grace \/ proc[j] # "none"
        /\ sent'[i] # "" \/ proc[i] = "exited"
    BY <1>3, KillIs
  <2> QED
    BY <1>1, <1>3, <2>1, AnswerKeeps
<1> QED
  BY <1>2, <1>3 DEF T!Kills

(* A session ends, ages, is killed at last or is forgotten.                *)
LEMMA SessionKeeps ==
  ASSUME SessionsKept,
         T!PruneFinished \/ \E i \in T!Sessions : T!GraceEnds(i) \/ T!Exits(i) \/ T!Ages(i)
  PROVE  SessionsKept'
<1>1. /\ SessionsTyped /\ T!Sessions' = T!Sessions
      /\ proc \in [T!Sessions -> {"none", "runs", "exited"}] /\ sent \in [T!Sessions -> {"", "TERM", "KILL"}]
      /\ listed \subseteq T!Sessions
  BY DEF SessionsKept, SessionsTyped, T!Sessions
<1>2. CASE T!PruneFinished
  <2>1. /\ listed' = {id \in listed : proc[id] # "exited" \/ id \notin old}
        /\ UNCHANGED <<proc, old, sent, grace, call, crashed>>
    BY <1>2 DEF T!PruneFinished
  <2>2. T!Running' = T!Running
    BY <1>1, <2>1 DEF T!Running
  <2>3. SessionsTyped' /\ Within' /\ InGrace' /\ Ended' /\ Fresh'
    <3>1. T!Running \subseteq listed'
      BY <2>1 DEF SessionsKept, Within, T!Running
    <3> QED
      BY <1>1, <2>1, <2>2, <3>1 DEF SessionsKept, SessionsTyped, Within, InGrace, Ended, Fresh
  <2>4. ASSUME NEW d \in Calls PROVE Told(d)' /\ Waits(d)'
    <3>1. Told(d) /\ Waits(d)
      BY DEF SessionsKept
    <3> QED
      BY <1>1, <2>1, <3>1 DEF Told, Waits
  <2> QED
    BY <2>3, <2>4 DEF SessionsKept
<1>3. ASSUME NEW i \in T!Sessions, T!GraceEnds(i) PROVE SessionsKept'
  <2>1. /\ grace' = grace \ {i} /\ UNCHANGED <<proc, listed, old, call, crashed>> /\ i \in grace
        /\ sent' = IF proc[i] = "exited" THEN sent ELSE [sent EXCEPT ![i] = "KILL"]
    BY <1>3 DEF T!GraceEnds
  <2>2. /\ sent' \in [T!Sessions -> {"", "TERM", "KILL"}]
        /\ \A j \in T!Sessions : j # i => sent'[j] = sent[j]
        /\ proc[i] # "exited" => sent'[i] = "KILL"
        /\ sent[i] # "" => sent'[i] # ""
    BY <1>1, <2>1
  <2>3. T!Running' = T!Running
    BY <1>1, <2>1 DEF T!Running
  <2>4. SessionsTyped' /\ Within' /\ Ended'
    BY <1>1, <2>1, <2>2, <2>3 DEF SessionsKept, SessionsTyped, Within, Ended
  <2>5. InGrace'
    BY <1>1, <2>1, <2>2, <2>3 DEF SessionsKept, InGrace, T!Running
  <2>6. ASSUME proc[i] # "none" PROVE Fresh'
    BY <1>1, <2>1, <2>2, <2>6 DEF SessionsKept, Fresh
  <2>7. ASSUME NEW d \in Calls PROVE Told(d)' /\ Waits(d)'
    <3>1. Told(d) /\ Waits(d)
      BY DEF SessionsKept
    <3>2. \A j \in T!Sessions : sent[j] # "" => sent'[j] # ""
      BY <2>2
    <3> QED
      BY <1>1, <2>1, <3>1, <3>2 DEF Told, Waits
  <2>8. proc[i] # "none"
    BY <2>1 DEF SessionsKept, Fresh
  <2> QED
    BY <2>4, <2>5, <2>6, <2>7, <2>8 DEF SessionsKept
<1>4. ASSUME NEW i \in T!Sessions, T!Exits(i) PROVE SessionsKept'
  <2>1. /\ proc[i] = "runs" /\ proc' = [proc EXCEPT ![i] = "exited"]
        /\ UNCHANGED <<listed, old, sent, grace, call, crashed>>
    BY <1>4 DEF T!Exits
  <2>2. /\ proc' \in [T!Sessions -> {"none", "runs", "exited"}] /\ proc'[i] = "exited"
        /\ \A j \in T!Sessions : j # i => proc'[j] = proc[j]
    BY <1>1, <2>1
  <2>3. T!Running' = T!Running \ {i} /\ T!Running \subseteq T!Sessions
    BY <1>1, <2>2 DEF T!Running
  <2>4. Within'
    <3>1. Cardinality(T!Running') <= Cardinality(T!Running) /\ Cardinality(T!Running) \in Nat
          /\ Cardinality(T!Running') \in Nat
      BY <2>3, FewSessions
    <3> QED
      BY <2>1, <2>3, <3>1, PartsAssumption DEF SessionsKept, Within
  <2>5. SessionsTyped' /\ InGrace' /\ Fresh' /\ Ended'
    BY <1>1, <2>1, <2>2, <2>3 DEF SessionsKept, SessionsTyped, InGrace, Fresh, Ended
  <2>6. ASSUME NEW d \in Calls PROVE Told(d)' /\ Waits(d)'
    <3>1. Told(d) /\ Waits(d)
      BY DEF SessionsKept
    <3> QED
      BY <1>1, <2>1, <2>2, <3>1 DEF Told, Waits
  <2> QED
    BY <2>4, <2>5, <2>6 DEF SessionsKept
<1>5. ASSUME NEW i \in T!Sessions, T!Ages(i) PROVE SessionsKept'
  <2>1. /\ proc[i] # "none" /\ old' = old \cup {i} /\ UNCHANGED <<proc, listed, sent, grace, call, crashed>>
        /\ \A c \in Calls : (call[c].at = "waits" /\ call[c].on = i) => call[c].long
    BY <1>5 DEF T!Ages
  <2>2. T!Running' = T!Running
    BY <1>1, <2>1 DEF T!Running
  <2>3. SessionsTyped' /\ Within' /\ InGrace' /\ Ended' /\ Fresh'
    BY <1>1, <2>1, <2>2 DEF SessionsKept, SessionsTyped, Within, InGrace, Ended, Fresh
  <2>4. ASSUME NEW d \in Calls PROVE Told(d)' /\ Waits(d)'
    <3>1. Told(d) /\ Waits(d)
      BY DEF SessionsKept
    <3> QED
      BY <1>1, <2>1, <3>1 DEF Told, Waits
  <2> QED
    BY <2>3, <2>4 DEF SessionsKept
<1> QED
  BY <1>2, <1>3, <1>4, <1>5

(* One step of the shell sessions.                                         *)
LEMMA SessionsStep ==
  ASSUME SessionsKept, T!Next
  PROVE  SessionsKept'
<1>1. CASE \E c \in Calls, background, long \in BOOLEAN : T!Terminal(c, background, long)
  BY <1>1, TerminalKeeps
<1>2. ASSUME NEW c \in Calls, T!Checks(c) \/ T!TimeoutPasses(c) \/ T!AfterSubmit(c) PROVE SessionsKept'
  <2>1. CASE T!AfterSubmit(c)
    <3>1. call[c].on \in 0 .. MaxSpawns
      BY DEF SessionsKept, SessionsTyped, CallsOf
    <3>2. /\ T!Answers(c, call[c].on, IF call[c].on \notin listed THEN "Error" ELSE proc[call[c].on])
          /\ UNCHANGED <<proc, listed, old, sent, grace, crashed>>
      BY <2>1 DEF T!AfterSubmit
    <3> QED
      BY <3>1, <3>2, PollKeeps
  <2> QED
    BY <1>2, <2>1, CheckKeeps, TimeoutKeeps
<1>3. ASSUME NEW c \in Calls, NEW id \in T!Sessions, T!Polls(c, id) \/ T!Submits(c, id) \/ T!Kills(c, id)
      PROVE  SessionsKept'
  <2>1. CASE T!Polls(c, id)
    <3>1. id \in 0 .. MaxSpawns
      BY DEF T!Sessions
    <3>2. /\ T!Answers(c, id, IF id \notin listed THEN "Error" ELSE proc[id])
          /\ UNCHANGED <<proc, listed, old, sent, grace, crashed>>
      BY <2>1 DEF T!Polls
    <3> QED
      BY <3>1, <3>2, PollKeeps
  <2> QED
    BY <1>3, <2>1, SubmitKeeps, KillsKeeps
<1>4. CASE T!PruneFinished \/ \E i \in T!Sessions : T!GraceEnds(i) \/ T!Exits(i) \/ T!Ages(i)
  BY <1>4, SessionKeeps
<1> QED
  BY <1>1, <1>2, <1>3, <1>4 DEF T!Next

-----------------------------------------------------------------------------
(* Rooms: the runs.                                                        *)

Places == {M!Stream} \cup ForkNames
Dirs == [place : Places, written : BOOLEAN, roster : SUBSET Guests]
Runs == DOMAIN dirs

(* A run that is changed.                                                  *)
LEMMA EntryIs ==
  ASSUME NEW d \in Seq(Dirs), NEW i \in DOMAIN d, NEW x \in Dirs
  PROVE  /\ [d EXCEPT ![i] = x] \in Seq(Dirs) /\ DOMAIN [d EXCEPT ![i] = x] = DOMAIN d
         /\ Len([d EXCEPT ![i] = x]) = Len(d) /\ [d EXCEPT ![i] = x][i] = x
         /\ \A j \in DOMAIN d : j # i => [d EXCEPT ![i] = x][j] = d[j]
<1>1. i \in 1 .. Len(d) /\ DOMAIN d = 1 .. Len(d)
  OBVIOUS
<1>2. [d EXCEPT ![i] = x] \in Seq(Dirs) /\ Len([d EXCEPT ![i] = x]) = Len(d)
  BY <1>1, ExceptSeq
<1> QED
  BY <1>1, <1>2

(* Beings join the run.                                                    *)
LEMMA JoinedIs ==
  ASSUME NEW d \in Seq(Dirs), NEW i \in DOMAIN d, NEW bs \in SUBSET Guests
  PROVE  /\ M!Joined(d, i, bs) \in Seq(Dirs) /\ DOMAIN M!Joined(d, i, bs) = DOMAIN d
         /\ Len(M!Joined(d, i, bs)) = Len(d)
         /\ M!Joined(d, i, bs)[i].roster = d[i].roster \cup bs
         /\ M!Joined(d, i, bs)[i].place = d[i].place
         /\ M!Joined(d, i, bs)[i].written <=> d[i].written
         /\ \A j \in DOMAIN d : j # i => M!Joined(d, i, bs)[j] = d[j]
<1> DEFINE x == [d[i] EXCEPT !.roster = @ \cup bs]
<1>1. d[i] \in Dirs
  OBVIOUS
<1>2. x \in Dirs /\ x.place = d[i].place /\ x.roster = d[i].roster \cup bs /\ (x.written <=> d[i].written)
  BY <1>1 DEF Dirs
<1>3. M!Joined(d, i, bs) = [d EXCEPT ![i] = x]
  BY DEF M!Joined
<1> HIDE DEF x
<1> DEFINE e == M!Joined(d, i, bs)
<1>4. e = [d EXCEPT ![i] = x]
  BY <1>3
<1> HIDE DEF e
<1>5. e \in Seq(Dirs) /\ DOMAIN e = DOMAIN d /\ Len(e) = Len(d) /\ e[i] = x
      /\ \A j \in DOMAIN d : j # i => e[j] = d[j]
  BY <1>2, <1>4, EntryIs
<1> QED
  BY <1>2, <1>5 DEF e

(* class.json is written.                                                  *)
Wrote(d, i) == [d EXCEPT ![i].written = TRUE]

LEMMA WrittenIs ==
  ASSUME NEW d \in Seq(Dirs), NEW i \in DOMAIN d
  PROVE  /\ Wrote(d, i) \in Seq(Dirs) /\ DOMAIN Wrote(d, i) = DOMAIN d /\ Len(Wrote(d, i)) = Len(d)
         /\ Wrote(d, i)[i].roster = d[i].roster /\ Wrote(d, i)[i].place = d[i].place
         /\ Wrote(d, i)[i].written
         /\ \A j \in DOMAIN d : j # i => Wrote(d, i)[j] = d[j]
<1> DEFINE x == [d[i] EXCEPT !.written = TRUE]
           e == Wrote(d, i)
<1>1. d[i] \in Dirs
  OBVIOUS
<1>2. x \in Dirs /\ x.place = d[i].place /\ x.roster = d[i].roster /\ x.written
  BY <1>1 DEF Dirs
<1>3. e = [d EXCEPT ![i] = x]
  BY DEF Wrote
<1> HIDE DEF x, e
<1>4. e \in Seq(Dirs) /\ DOMAIN e = DOMAIN d /\ Len(e) = Len(d) /\ e[i] = x
      /\ \A j \in DOMAIN d : j # i => e[j] = d[j]
  BY <1>2, <1>3, EntryIs
<1> QED
  BY <1>2, <1>4 DEF e

(* A directory is made.                                                    *)
Made(d, place, bs) == Append(d, M!Dir(place, bs))
NextId(d) == Len(d) + 1

LEMMA MadeIs ==
  ASSUME NEW d \in Seq(Dirs), NEW place \in Places, NEW bs \in SUBSET Guests
  PROVE  /\ Made(d, place, bs) \in Seq(Dirs) /\ Len(Made(d, place, bs)) = NextId(d)
         /\ \A j : j \in DOMAIN Made(d, place, bs) <=> j \in DOMAIN d \/ j = NextId(d)
         /\ Made(d, place, bs)[NextId(d)].place = place
         /\ Made(d, place, bs)[NextId(d)].roster = bs
         /\ ~Made(d, place, bs)[NextId(d)].written
         /\ \A j \in DOMAIN d : Made(d, place, bs)[j] = d[j]
         /\ NextId(d) \in Nat /\ NextId(d) # 0 /\ NextId(d) \notin DOMAIN d
<1> DEFINE x == M!Dir(place, bs)
           e == Made(d, place, bs)
           n == NextId(d)
<1>1. x \in Dirs /\ x.place = place /\ x.roster = bs /\ ~x.written
  BY DEF M!Dir, Dirs
<1>2. e = Append(d, x) /\ n = Len(d) + 1
  BY DEF Made, NextId
<1> HIDE DEF x, e, n
<1>3. e \in Seq(Dirs) /\ Len(e) = n /\ e[n] = x /\ n \in Nat /\ n # 0
      /\ \A j \in 1 .. Len(d) : e[j] = d[j]
  BY <1>1, <1>2, AppendProperties
<1>4. DOMAIN e = 1 .. Len(e) /\ DOMAIN d = 1 .. Len(d) /\ Len(d) \in Nat
  BY <1>3
<1>5. DOMAIN e = DOMAIN d \cup {n} /\ n \notin DOMAIN d /\ \A j \in DOMAIN d : e[j] = d[j]
  BY <1>2, <1>3, <1>4
<1> QED
  BY <1>1, <1>3, <1>5 DEF e, n

(* Rooms: the invariant.                                                   *)

RoomsTyped ==
  /\ dirs \in Seq(Dirs) /\ Len(dirs) <= MaxDirs /\ opened \subseteq Runs
  /\ tailed \in [Guests -> SUBSET M!Ids] /\ seats \in [M!Ids -> SUBSET Guests] /\ seated \subseteq Guests
  /\ turns \cup walks \subseteq Guests \X Runs

(* One open at a time, and only of a stream that has no room yet.          *)
OneOpening ==
  /\ \A i, j \in M!Found : i = j
  /\ \A o, p \in opening : o = p
  /\ \A o \in opening :
       /\ M!Found = {} /\ o.id \in Runs /\ dirs[o.id].place = M!Stream
       /\ o \in [id : Nat, waiting : SUBSET Guests] /\ o.waiting # {}
       /\ \A b \in Anywhere : o.waiting = {b} => b \in dirs[o.id].roster

RosterKept ==
  /\ \A i \in opened \cap M!Found : dirs[i].roster \cap seated \subseteq seats[i]
  /\ \A b \in Anywhere, i \in M!Found : i \in tailed[b] => b \in dirs[i].roster

(* A name's child, on the list of forks and on the copies of it that those *)
(* who mint one hold, is a run made under that name.                       *)
Children(known) ==
  /\ DOMAIN known \subseteq ForkNames
  /\ \A n \in DOMAIN known : known[n] \in Runs /\ dirs[known[n]].place = n
Mints(b) == forking[b].id # 0
ForksTyped ==
  /\ Children(forks) /\ DOMAIN forking = Guests
  /\ \A b \in Guests : Mints(b) =>
       /\ forking[b].name \in ForkNames /\ forking[b].id \in Runs
       /\ dirs[forking[b].id].place = forking[b].name /\ Children(forking[b].known)
       /\ M!Found # {}

(* While a fork is entered, the turns of its room are known to be crossed. *)
Heard ==
  /\ turns \subseteq walks \cup forkedOver
  /\ \A t \in turns \cup walks : dirs[t[2]].place = M!Stream => dirs[t[2]].written
  /\ M!ActiveFork # 0 => \A t \in turns : t[2] \in M!Found => t \in forkedOver

OneFork ==
  ~twice =>
    /\ M!NamesKeepTheirChild
    /\ \A b, c \in Guests : Mints(b) /\ Mints(c) => b = c
    /\ \A b \in Guests : Mints(b) => forking[b].known = forks /\ forking[b].name \notin DOMAIN forks

RoomsKept == RoomsTyped /\ OneOpening /\ RosterKept /\ ForksTyped /\ Heard /\ OneFork

(* The runs stay what they were, and more are made.                        *)
Grown ==
  /\ dirs' \in Seq(Dirs) /\ Len(dirs') <= MaxDirs /\ Runs \subseteq Runs'
  /\ \A i \in Runs : dirs'[i].place = dirs[i].place /\ dirs[i].roster \subseteq dirs'[i].roster
  /\ \A i \in Runs : dirs[i].written => dirs'[i].written

(* The runs are numbered, and names of forks are no stream's.              *)
LEMMA Ground ==
  /\ M!Ids' = M!Ids /\ M!Ids = 1 .. MaxDirs /\ MaxDirs \in Nat
  /\ M!Stream = "stream" /\ M!Outside = "none" /\ M!Stream \notin ForkNames /\ M!Outside \notin ForkNames
  /\ M!Found \subseteq Runs
  /\ \A i \in M!Found : dirs[i].written /\ dirs[i].place = M!Stream
  /\ \A i \in Runs : dirs[i].written /\ dirs[i].place = M!Stream => i \in M!Found
  /\ RoomsTyped => Runs \subseteq M!Ids /\ Runs = 1 .. Len(dirs) /\ Len(dirs) \in Nat
<1>1. /\ M!Ids' = M!Ids /\ M!Ids = 1 .. MaxDirs /\ MaxDirs \in Nat
      /\ M!Stream = "stream" /\ M!Outside = "none" /\ M!Stream \notin ForkNames /\ M!Outside \notin ForkNames
  BY PartsAssumption DEF M!Ids, M!Stream, M!Outside
<1>2. /\ M!Found \subseteq Runs
      /\ \A i \in M!Found : dirs[i].written /\ dirs[i].place = M!Stream
      /\ \A i \in Runs : dirs[i].written /\ dirs[i].place = M!Stream => i \in M!Found
  BY DEF M!Found, Runs
<1>3. RoomsTyped => Runs \subseteq M!Ids /\ Runs = 1 .. Len(dirs) /\ Len(dirs) \in Nat
  BY <1>1 DEF RoomsTyped, Runs
<1> QED
  BY <1>1, <1>2, <1>3

(* The stream's room is the one that is found.                             *)
LEMMA RoomIs ==
  ASSUME OneOpening, M!Found # {}
  PROVE  M!Room \in M!Found /\ M!Found = {M!Room}
<1>1. M!Room \in M!Found
  BY DEF M!Room
<1> QED
  BY <1>1 DEF OneOpening

(* Where the runs stay, so does what is found.                             *)
LEMMA RunsStay ==
  ASSUME dirs' = dirs, RoomsTyped
  PROVE  Grown /\ M!Found' = M!Found /\ Runs' = Runs
<1>1. M!Found' = M!Found /\ Runs' = Runs
  BY DEF M!Found, Runs, M!Stream
<1> QED
  BY <1>1 DEF Grown, RoomsTyped

(* A list of forks stays one where the runs do.                            *)
LEMMA ChildrenStay ==
  ASSUME Grown, NEW known, Children(known)
  PROVE  /\ DOMAIN known \subseteq ForkNames
         /\ \A n \in DOMAIN known : known[n] \in Runs' /\ dirs'[known[n]].place = n
BY DEF Children, Grown

(* The forks stay where no fork is minted or listed.                       *)
LEMMA ForksStay ==
  ASSUME ForksTyped, Grown, UNCHANGED <<forks, forking>>
  PROVE  ForksTyped'
<1>1. Children(forks)'
  <2>1. Children(forks)
    BY DEF ForksTyped
  <2>2. DOMAIN forks \subseteq ForkNames /\ \A n \in DOMAIN forks : forks[n] \in Runs' /\ dirs'[forks[n]].place = n
    BY <2>1, ChildrenStay
  <2> QED
    BY <2>2 DEF Children
<1>2. ASSUME NEW b \in Guests, Mints(b)'
      PROVE  /\ forking'[b].name \in ForkNames /\ forking'[b].id \in Runs'
             /\ dirs'[forking'[b].id].place = forking'[b].name /\ Children(forking[b].known)'
  <2>1. /\ forking[b].name \in ForkNames /\ forking[b].id \in Runs
        /\ dirs[forking[b].id].place = forking[b].name /\ Children(forking[b].known)
    BY <1>2 DEF ForksTyped, Mints
  <2> DEFINE k == forking[b].known
  <2>2. Children(k) /\ forking'[b].known = k
    BY <2>1
  <2> HIDE DEF k
  <2>3. DOMAIN k \subseteq ForkNames /\ \A n \in DOMAIN k : k[n] \in Runs' /\ dirs'[k[n]].place = n
    BY <2>2, ChildrenStay
  <2>4. Children(forking[b].known)'
    BY <2>2, <2>3 DEF Children
  <2> QED
    BY <2>1, <2>4 DEF Grown
<1>3. M!Found \subseteq M!Found'
  BY DEF M!Found, Grown, Runs, M!Stream
<1> QED
  BY <1>1, <1>2, <1>3 DEF ForksTyped, Mints

(* A name keeps its child where no fork is written, minted or listed.      *)
LEMMA OneForkStays ==
  ASSUME OneFork, Grown, UNCHANGED <<forks, forking, twice>>,
         \A i \in Runs' : dirs'[i].written /\ dirs'[i].place # M!Stream => i \in Runs /\ dirs[i].written
  PROVE  OneFork'
<1>1. SUFFICES ASSUME ~twice
               PROVE  /\ M!NamesKeepTheirChild'
                      /\ \A b, c \in Guests : Mints(b)' /\ Mints(c)' => b = c
                      /\ \A b \in Guests : Mints(b)' => forking'[b].known = forks' /\ forking'[b].name \notin DOMAIN forks'
  BY DEF OneFork
<1>2. M!NamesKeepTheirChild'
  <2>1. M!NamesKeepTheirChild
    BY <1>1 DEF OneFork
  <2> QED
    BY <1>1, <2>1 DEF M!NamesKeepTheirChild, Grown, Runs, M!Stream
<1> QED
  BY <1>1, <1>2 DEF OneFork, Mints

(* The opens in flight stay.                                               *)
LEMMA OpeningStays ==
  ASSUME OneOpening, Grown, M!Found' = M!Found, opening' \subseteq opening
  PROVE  OneOpening'
BY DEF OneOpening, Grown, M!Stream

(* No room is opened and nobody comes to know it.                          *)
LEMMA RosterStays ==
  ASSUME RosterKept, M!Found' = M!Found, \A i \in M!Found : dirs'[i].roster = dirs[i].roster,
         opened' \cap M!Found \subseteq opened, seated' = seated,
         \A i \in M!Found : seats[i] \subseteq seats'[i],
         \A b \in Guests, i \in M!Found : i \in tailed'[b] => i \in tailed[b]
  PROVE  RosterKept'
BY PartsAssumption DEF RosterKept

(* No turn begins, and what ends ends for both.                            *)
LEMMA HeardStays ==
  ASSUME Heard, RoomsTyped, Grown, M!Found' = M!Found, turns' \cup walks' \subseteq turns \cup walks,
         turns' \subseteq walks' \cup forkedOver',
         M!ActiveFork' # 0 => \A t \in turns' : t[2] \in M!Found => t \in forkedOver'
  PROVE  Heard'
<1>1. \A t \in turns \cup walks : t[2] \in Runs
  BY DEF RoomsTyped
<1>2. \A t \in turns' \cup walks' : dirs'[t[2]].place = M!Stream => dirs'[t[2]].written
  BY <1>1 DEF Heard, Grown
<1> QED
  BY <1>2 DEF Heard, M!Stream

(* A turn ends, is stopped or is given up.                                 *)
LEMMA TurnsEnd ==
  ASSUME RoomsKept,
         \/ \E t \in walks : M!Ends(t[1], t[2])
         \/ \E t \in turns : M!GraceExpires(t) \/ M!Stops(t)
  PROVE  RoomsKept'
<1>1. /\ UNCHANGED <<dirs, opened, opening, tailed, seated, seats, forks, entered, forking, twice, forkedOver>>
      /\ turns' \subseteq turns /\ walks' \subseteq walks
  BY DEF M!Ends, M!GraceExpires, M!Stops, M!Registry, M!Forking
<1>2. RoomsTyped /\ OneOpening /\ RosterKept /\ ForksTyped /\ Heard /\ OneFork
  BY DEF RoomsKept
<1>3. Grown /\ M!Found' = M!Found /\ Runs' = Runs
  BY <1>1, <1>2, RunsStay
<1>4. M!ActiveFork' = M!ActiveFork
  BY <1>1 DEF M!ActiveFork
<1>5. RoomsTyped'
  BY <1>1, <1>2, <1>3, Ground DEF RoomsTyped
<1>6. OneOpening' /\ RosterKept' /\ ForksTyped'
  BY <1>1, <1>2, <1>3, OpeningStays, RosterStays, ForksStay
<1>7. OneFork'
  BY <1>1, <1>2, <1>3, OneForkStays
<1>8. turns' \subseteq walks' \cup forkedOver'
  <2>1. turns \subseteq walks \cup forkedOver
    BY <1>2 DEF Heard
  <2>2. ASSUME NEW t \in walks, M!Ends(t[1], t[2]) PROVE turns' \subseteq walks' \cup forkedOver'
    <3>1. PICK b \in Guests, i \in Runs : t = <<b, i>>
      BY <1>2 DEF RoomsTyped
    <3>2. /\ walks' = walks \ {t}
          /\ IF M!RoutedTo(i) = i THEN turns' = turns \ {t} ELSE turns' = turns
      BY <2>2, <3>1 DEF M!Ends
    <3>3. CASE M!RoutedTo(i) = i
      BY <1>1, <2>1, <3>2, <3>3
    <3>4. CASE M!RoutedTo(i) # i
      <4>1. dirs[i].place = M!Stream /\ M!ActiveFork # 0
        BY <3>4 DEF M!RoutedTo
      <4>2. t \in turns => i \in M!Found
        <5>1. dirs[t[2]].written /\ t[2] = i
          BY <1>2, <3>1, <4>1 DEF Heard
        <5> QED
          BY <3>1, <4>1, <5>1, Ground
      <4>3. t \in turns => t \in forkedOver
        BY <1>2, <3>1, <4>1, <4>2 DEF Heard
      <4> QED
        BY <1>1, <2>1, <3>2, <3>4, <4>3
    <3> QED
      BY <3>3, <3>4
  <2>3. ASSUME NEW t \in turns, M!GraceExpires(t) \/ M!Stops(t) PROVE turns' \subseteq walks' \cup forkedOver'
    BY <1>1, <2>1, <2>3 DEF M!GraceExpires, M!Stops
  <2> QED
    BY <2>2, <2>3
<1>9. Heard'
  <2>1. M!ActiveFork' # 0 => \A t \in turns' : t[2] \in M!Found => t \in forkedOver'
    BY <1>1, <1>2, <1>4 DEF Heard
  <2> QED
    BY <1>1, <1>2, <1>3, <1>8, <2>1, HeardStays
<1> QED
  BY <1>5, <1>6, <1>7, <1>9 DEF RoomsKept

(* A being's connection goes and comes; a room rests.                      *)
LEMMA SeatsKeep ==
  ASSUME RoomsKept,
         (\E b \in Guests : M!Leaves(b) \/ M!Returns(b)) \/ \E i \in opened : M!Rests(i)
  PROVE  RoomsKept'
<1>1. UNCHANGED <<dirs, opened, opening, tailed, turns, walks, forkedOver, forks, entered, forking, twice>>
  BY DEF M!Leaves, M!Returns, M!Rests, M!Turning, M!Forking
<1>2. RoomsTyped /\ OneOpening /\ RosterKept /\ ForksTyped /\ Heard /\ OneFork
  BY DEF RoomsKept
<1>3. Grown /\ M!Found' = M!Found /\ Runs' = Runs
  BY <1>1, <1>2, RunsStay
<1>4. M!ActiveFork' = M!ActiveFork
  BY <1>1 DEF M!ActiveFork
<1>5. OneOpening' /\ ForksTyped' /\ OneFork'
  <2>1. OneFork'
    BY <1>1, <1>2, <1>3, OneForkStays
  <2> QED
    BY <1>1, <1>2, <1>3, <2>1, OpeningStays, ForksStay
<1>6. Heard'
  <2>1. M!ActiveFork' # 0 => \A t \in turns' : t[2] \in M!Found => t \in forkedOver'
    BY <1>1, <1>2, <1>4 DEF Heard
  <2>2. turns' \subseteq walks' \cup forkedOver'
    BY <1>1, <1>2 DEF Heard
  <2> QED
    BY <1>1, <1>2, <1>3, <2>1, <2>2, HeardStays
<1>7. /\ seats \in [M!Ids -> SUBSET Guests] /\ seated \subseteq Guests /\ opened \subseteq Runs
      /\ Runs \subseteq M!Ids /\ M!Ids' = M!Ids
  BY <1>2, Ground DEF RoomsTyped
<1>8. /\ seats' \in [M!Ids -> SUBSET Guests] /\ seated' \subseteq Guests
      /\ \A i \in opened \cap M!Found : dirs[i].roster \cap seated' \subseteq seats'[i]
  <2>1. \A i \in opened \cap M!Found : dirs[i].roster \cap seated \subseteq seats[i]
    BY <1>2 DEF RosterKept
  <2>2. ASSUME NEW b \in Guests, M!Leaves(b)
        PROVE  /\ seats' \in [M!Ids -> SUBSET Guests] /\ seated' \subseteq Guests
               /\ \A i \in opened \cap M!Found : dirs[i].roster \cap seated' \subseteq seats'[i]
    <3>1. seated' = seated \ {b} /\ seats' = [i \in M!Ids |-> seats[i] \ {b}]
      BY <2>2 DEF M!Leaves
    <3> QED
      BY <1>7, <2>1, <3>1
  <2>3. ASSUME NEW b \in Guests, M!Returns(b)
        PROVE  /\ seats' \in [M!Ids -> SUBSET Guests] /\ seated' \subseteq Guests
               /\ \A i \in opened \cap M!Found : dirs[i].roster \cap seated' \subseteq seats'[i]
    <3>1. /\ seated' = seated \cup {b}
          /\ seats' = [i \in M!Ids |-> IF i \in {j \in opened : b \in dirs[j].roster} THEN seats[i] \cup {b} ELSE seats[i]]
      BY <2>3 DEF M!Returns
    <3> QED
      BY <1>7, <2>1, <3>1
  <2>4. ASSUME NEW j \in opened, M!Rests(j) PROVE UNCHANGED <<seats, seated>>
    BY <2>4 DEF M!Rests
  <2> QED
    BY <1>7, <2>1, <2>2, <2>3, <2>4
<1>9. RosterKept'
  BY <1>1, <1>2, <1>3, <1>8 DEF RosterKept
<1>10. RoomsTyped'
  BY <1>1, <1>2, <1>3, <1>7, <1>8 DEF RoomsTyped
<1> QED
  BY <1>5, <1>6, <1>9, <1>10 DEF RoomsKept

(* A second open of the stream waits for the first one's end.              *)
LEMMA JoiningKeeps ==
  ASSUME RoomsKept, NEW b \in Guests, M!JoinsOpen(b)
  PROVE  RoomsKept'
<1>1. UNCHANGED <<dirs, opened, seats, tailed, seated, turns, walks, forkedOver, forks, entered, forking, twice>>
  BY DEF M!JoinsOpen, M!Registry, M!Turning, M!Forking
<1>2. RoomsTyped /\ OneOpening /\ RosterKept /\ ForksTyped /\ Heard /\ OneFork
  BY DEF RoomsKept
<1>3. Grown /\ M!Found' = M!Found /\ Runs' = Runs
  BY <1>1, <1>2, RunsStay
<1>4. ForksTyped' /\ OneFork' /\ RosterKept'
  <2>1. OneFork'
    BY <1>1, <1>2, <1>3, OneForkStays
  <2> QED
    BY <1>1, <1>2, <1>3, <2>1, RosterStays, ForksStay
<1>5. Heard'
  BY <1>1, <1>2, <1>3 DEF Heard, M!ActiveFork, M!Stream
<1>6. RoomsTyped'
  BY <1>1, <1>2, <1>3, Ground DEF RoomsTyped
<1>7. OneOpening'
  <2>1. PICK o \in opening : /\ b \notin o.waiting
                             /\ opening' = (opening \ {o}) \cup {[o EXCEPT !.waiting = @ \cup {b}]}
    BY DEF M!JoinsOpen
  <2>2. opening = {o}
    BY <1>2, <2>1 DEF OneOpening
  <2> DEFINE p == [o EXCEPT !.waiting = @ \cup {b}]
  <2>3. opening' = {p}
    BY <2>1, <2>2
  <2>4. p.id = o.id /\ p.waiting = o.waiting \cup {b}
    BY <1>2 DEF OneOpening
  <2>6. p \in [id : Nat, waiting : SUBSET Guests]
    BY <1>2 DEF OneOpening
  <2> HIDE DEF p
  <2>5. \A a \in Anywhere : p.waiting = {a} => o.waiting = {a}
    BY <1>2, <2>1, <2>4 DEF OneOpening
  <2> QED
    BY <1>1, <1>2, <1>3, <2>1, <2>3, <2>4, <2>5, <2>6 DEF OneOpening, M!Stream
<1> QED
  BY <1>4, <1>5, <1>6, <1>7 DEF RoomsKept

(* What a roster is made of.                                               *)
LEMMA RosterIs ==
  ASSUME RoomsKept, NEW b \in Guests
  PROVE  M!Roster(b) \subseteq Guests /\ (b \in Anywhere => b \in M!Roster(b))
<1>1. SeatsItself[b] \subseteq Guests /\ Anywhere \subseteq Guests
  BY PartsAssumption DEF SeatsItself
<1>2. M!Found # {} => dirs[M!Room].roster \subseteq Guests
  <2>1. ASSUME M!Found # {} PROVE M!Room \in Runs
    BY <2>1, RoomIs, Ground DEF RoomsKept
  <2>2. \A i \in Runs : dirs[i] \in Dirs
    BY DEF RoomsKept, RoomsTyped, Runs
  <2> QED
    BY <2>1, <2>2 DEF Dirs
<1> QED
  BY <1>1, <1>2 DEF M!Roster

(* The stream's room is registered, and its siblings come to it.           *)
LEMMA RegisteringKeeps ==
  ASSUME RoomsKept, NEW e \in Seq(Dirs), NEW i \in DOMAIN e, NEW by \in SUBSET Guests, by # {},
         DOMAIN e = Runs, \A j \in Runs : j # i => e[j] = dirs[j],
         e[i].place = M!Stream, dirs[i].place = M!Stream, e[i].written, dirs[i].roster \subseteq e[i].roster,
         M!Found \subseteq {i}, M!Found = {} => \A t \in turns \cup walks : t[2] # i,
         \A b \in Anywhere : by = {b} => b \in e[i].roster,
         M!Registers(M!Entered(e, i, by), i), tailed' = M!Tracked(e, i, by), opening' = {},
         UNCHANGED <<seated, turns, walks, forkedOver, forks, entered, forking, twice>>
  PROVE  RoomsKept'
<1>1. RoomsTyped /\ OneOpening /\ RosterKept /\ ForksTyped /\ Heard /\ OneFork
  BY DEF RoomsKept
<1> DEFINE bs == {b \in Anywhere : by \ {b} # {}}
           d == M!Entered(e, i, by)
<1>2. bs \subseteq Guests /\ Anywhere \subseteq Guests
  BY PartsAssumption
<1>3. /\ d \in Seq(Dirs) /\ DOMAIN d = Runs /\ Len(d) = Len(e) /\ d[i].roster = e[i].roster \cup bs
      /\ d[i].place = M!Stream /\ d[i].written /\ \A j \in Runs : j # i => d[j] = dirs[j]
  <2>1. d = M!Joined(e, i, bs)
    BY DEF M!Entered
  <2> HIDE DEF d, bs
  <2> QED
    BY <1>2, <2>1, JoinedIs
<1> HIDE DEF d
<1>4. /\ dirs' = d /\ opened' = opened \cup {i} /\ seats' = M!Attached(seats, d, i)
  BY DEF M!Registers, d
<1>5. Runs' = Runs /\ i \in Runs /\ i \in M!Ids /\ M!Ids' = M!Ids /\ Runs = 1 .. Len(dirs) /\ Len(dirs) \in Nat
  BY <1>1, <1>3, <1>4, Ground DEF Runs
<1>6. Len(d) <= MaxDirs
  <2>1. DOMAIN d = 1 .. Len(d) /\ Len(d) \in Nat
    BY <1>3
  <2>2. Len(d) = Len(dirs)
    BY <1>3, <1>5, <2>1
  <2> QED
    BY <1>1, <2>2 DEF RoomsTyped
<1>7. M!Found' = {i}
  <2>1. \A j \in Runs : j # i => ~(dirs'[j].written /\ dirs'[j].place = M!Stream)
    BY <1>3, <1>4, Ground
  <2> QED
    BY <1>3, <1>4, <1>5, <2>1 DEF M!Found, Runs, M!Stream
<1>8. Grown
  BY <1>1, <1>3, <1>4, <1>5, <1>6 DEF Grown
<1>9. seats' = [seats EXCEPT ![i] = @ \cup (d[i].roster \cap seated)]
  BY <1>4 DEF M!Attached
<1>10. RoomsTyped'
  <2>1. seats' \in [M!Ids -> SUBSET Guests]
    BY <1>1, <1>5, <1>9 DEF RoomsTyped
  <2>2. tailed' \in [Guests -> SUBSET M!Ids]
    BY <1>1, <1>5 DEF RoomsTyped, M!Tracked
  <2> QED
    BY <1>1, <1>3, <1>4, <1>5, <1>6, <2>1, <2>2 DEF RoomsTyped
<1>11. OneOpening'
  BY <1>7 DEF OneOpening
<1>12. RosterKept'
  <2>1. dirs'[i].roster \cap seated \subseteq seats'[i]
    BY <1>1, <1>4, <1>5, <1>9 DEF RoomsTyped
  <2>2. \A b \in Anywhere : b \in dirs'[i].roster
    BY <1>3, <1>4
  <2> QED
    BY <1>4, <1>7, <2>1, <2>2 DEF RosterKept
<1>13. ForksTyped'
  BY <1>1, <1>8, ForksStay
<1>14. OneFork'
  BY <1>1, <1>3, <1>4, <1>5, <1>8, OneForkStays
<1>15. Heard'
  <2>1. \A t \in turns \cup walks : t[2] \in Runs
    BY <1>1 DEF RoomsTyped
  <2>2. ASSUME NEW t \in turns \cup walks PROVE t[2] \in M!Found' => t[2] \in M!Found
    BY <1>7
  <2>3. M!ActiveFork' = M!ActiveFork
    BY DEF M!ActiveFork
  <2>4. \A t \in turns' \cup walks' : dirs'[t[2]].place = M!Stream => dirs'[t[2]].written
    BY <1>1, <1>3, <1>4, <2>1 DEF Heard
  <2> QED
    BY <1>1, <2>2, <2>3, <2>4 DEF Heard, M!Stream
<1> QED
  BY <1>10, <1>11, <1>12, <1>13, <1>14, <1>15 DEF RoomsKept

(* The room is there: the beings it lacks join.                            *)
LEMMA OpeningAgainKeeps ==
  ASSUME RoomsKept, NEW b \in Guests, M!OpensAgain(b)
  PROVE  RoomsKept'
<1> DEFINE i == M!Room
           e == M!Joined(dirs, i, M!Roster(b))
<1>1. RoomsTyped /\ OneOpening
  BY DEF RoomsKept
<1>2. M!Found # {} /\ opening = {} /\ opening' = opening
  BY DEF M!OpensAgain, M!MayOpen
<1>3. i \in M!Found /\ M!Found = {i} /\ i \in Runs /\ dirs[i].written /\ dirs[i].place = M!Stream
  BY <1>1, <1>2, RoomIs, Ground
<1>4. M!Registers(M!Entered(e, i, {b}), i) /\ tailed' = M!Tracked(e, i, {b})
  BY DEF M!OpensAgain
<1>5. UNCHANGED <<seated, turns, walks, forkedOver, forks, entered, forking, twice>>
  BY DEF M!OpensAgain, M!Turning, M!Forking
<1> DEFINE r == M!Roster(b)
<1>6. r \in SUBSET Guests /\ (b \in Anywhere => b \in r)
  BY RosterIs
<1> HIDE DEF i, r
<1>7. /\ e \in Seq(Dirs) /\ DOMAIN e = Runs /\ e[i].roster = dirs[i].roster \cup r
      /\ e[i].place = M!Stream /\ e[i].written /\ \A j \in Runs : j # i => e[j] = dirs[j]
  BY <1>1, <1>3, <1>6, JoinedIs DEF RoomsTyped, Runs, r
<1> HIDE DEF e
<1>8. \A a \in Anywhere : {b} = {a} => a \in e[i].roster
  BY <1>6, <1>7
<1>9. {b} \in SUBSET Guests /\ {b} # {} /\ i \in DOMAIN e /\ dirs[i].roster \subseteq e[i].roster
  BY <1>3, <1>7
<1> QED
  BY <1>2, <1>3, <1>4, <1>5, <1>7, <1>8, <1>9, RegisteringKeeps

(* The trace is there, and the room.                                       *)
LEMMA OpensKeeps ==
  ASSUME RoomsKept, NEW o \in opening, M!Opens(o)
  PROVE  RoomsKept'
<1> DEFINE i == o.id
           e == Wrote(dirs, i)
<1>1. RoomsTyped /\ OneOpening /\ Heard
  BY DEF RoomsKept
<1>2. /\ M!Found = {} /\ i \in Runs /\ dirs[i].place = M!Stream
      /\ o.waiting \in SUBSET Guests /\ o.waiting # {}
      /\ \A b \in Anywhere : o.waiting = {b} => b \in dirs[i].roster
      /\ opening = {o}
  BY <1>1 DEF OneOpening
<1>3. /\ M!Registers(M!Entered(e, i, o.waiting), i) /\ tailed' = M!Tracked(e, i, o.waiting)
      /\ opening' = {}
  BY <1>2 DEF M!Opens, Wrote
<1>4. UNCHANGED <<seated, turns, walks, forkedOver, forks, entered, forking, twice>>
  BY DEF M!Opens, M!Turning, M!Forking
<1> HIDE DEF i
<1>5. /\ e \in Seq(Dirs) /\ DOMAIN e = Runs /\ e[i].roster = dirs[i].roster
      /\ e[i].place = M!Stream /\ e[i].written /\ \A j \in Runs : j # i => e[j] = dirs[j]
  BY <1>1, <1>2, WrittenIs DEF RoomsTyped, Runs
<1> HIDE DEF e
<1>6. \A t \in turns \cup walks : t[2] # i
  <2>1. ~dirs[i].written
    BY <1>2, Ground
  <2> QED
    BY <1>1, <1>2, <2>1 DEF Heard
<1> DEFINE by == o.waiting
<1>7. by \in SUBSET Guests /\ by # {} /\ \A b \in Anywhere : by = {b} => b \in e[i].roster
  BY <1>2, <1>5
<1>8. M!Registers(M!Entered(e, i, by), i) /\ tailed' = M!Tracked(e, i, by)
  BY <1>3
<1> HIDE DEF by
<1>9. i \in DOMAIN e /\ dirs[i].roster \subseteq e[i].roster /\ M!Found \subseteq {i}
  BY <1>2, <1>5
<1> QED
  BY <1>2, <1>3, <1>4, <1>5, <1>6, <1>7, <1>8, <1>9, RegisteringKeeps

(* A directory that is made, for the stream or a fork, is no room yet.     *)
LEMMA MakingIs ==
  ASSUME RoomsKept, NEW place \in Places, NEW bs \in SUBSET Guests, Len(dirs) < MaxDirs,
         dirs' = Made(dirs, place, bs)
  PROVE  /\ Grown /\ M!Found' = M!Found /\ Runs' = Runs \cup {NextId(dirs)}
         /\ NextId(dirs) \notin Runs /\ NextId(dirs) \in Nat /\ NextId(dirs) # 0
         /\ dirs'[NextId(dirs)].place = place /\ dirs'[NextId(dirs)].roster = bs
         /\ ~dirs'[NextId(dirs)].written
         /\ \A j \in Runs : dirs'[j] = dirs[j]
<1>1. dirs \in Seq(Dirs) /\ Len(dirs) \in Nat /\ MaxDirs \in Nat
  BY Ground DEF RoomsKept, RoomsTyped
<1> DEFINE n == NextId(dirs)
<1>2. /\ dirs' \in Seq(Dirs) /\ Len(dirs') = n /\ DOMAIN dirs' = DOMAIN dirs \cup {n}
      /\ n \notin DOMAIN dirs /\ n \in Nat /\ n # 0
      /\ dirs'[n].place = place /\ dirs'[n].roster = bs /\ ~dirs'[n].written
      /\ \A j \in DOMAIN dirs : dirs'[j] = dirs[j]
  <2> DEFINE e == Made(dirs, place, bs)
  <2>1. /\ e \in Seq(Dirs) /\ Len(e) = n /\ \A j : j \in DOMAIN e <=> j \in DOMAIN dirs \/ j = n
        /\ n \notin DOMAIN dirs /\ n \in Nat /\ n # 0
        /\ e[n].place = place /\ e[n].roster = bs /\ ~e[n].written
        /\ \A j \in DOMAIN dirs : e[j] = dirs[j]
    BY <1>1, MadeIs
  <2>2. dirs' = e
    OBVIOUS
  <2> HIDE DEF e, n
  <2>3. DOMAIN e = DOMAIN dirs \cup {n}
    BY <2>1
  <2> QED
    BY <2>1, <2>2, <2>3
<1>3. n = Len(dirs) + 1
  BY DEF NextId
<1> HIDE DEF n
<1>4. /\ Runs' = Runs \cup {n} /\ n \notin Runs /\ \A j \in Runs : dirs'[j] = dirs[j]
  BY <1>2 DEF Runs
<1>5. Len(dirs') <= MaxDirs
  BY <1>1, <1>2, <1>3
<1>6. Grown
  BY <1>2, <1>4, <1>5 DEF Grown
<1>7. M!Found' = M!Found
  BY <1>2, <1>4 DEF M!Found, Runs, M!Stream
<1> QED
  BY <1>2, <1>4, <1>6, <1>7 DEF n

(* An open begins with a directory.                                        *)
LEMMA StartingOpenKeeps ==
  ASSUME RoomsKept, NEW b \in Guests, M!StartsOpening(b)
  PROVE  RoomsKept'
<1> DEFINE r == M!Roster(b)
           n == NextId(dirs)
           o == [id |-> n, waiting |-> {b}]
<1>1. UNCHANGED <<opened, seats, tailed, seated, turns, walks, forkedOver, forks, entered, forking, twice>>
  BY DEF M!StartsOpening, M!Registry, M!Turning, M!Forking
<1>2. /\ M!Found = {} /\ opening = {} /\ Len(dirs) < MaxDirs
      /\ dirs' = Made(dirs, M!Stream, r) /\ opening' = opening \cup {o}
  BY DEF M!StartsOpening, M!MayOpen, Made, NextId
<1>3. RoomsTyped /\ OneOpening /\ RosterKept /\ ForksTyped /\ Heard /\ OneFork
  BY DEF RoomsKept
<1>4. r \in SUBSET Guests /\ (b \in Anywhere => b \in r) /\ M!Stream \in Places
  BY RosterIs DEF Places
<1> HIDE DEF r
<1>5. /\ Grown /\ M!Found' = M!Found /\ Runs' = Runs \cup {n}
      /\ n \notin Runs /\ n \in Nat
      /\ dirs'[n].place = M!Stream /\ dirs'[n].roster = r
      /\ ~dirs'[n].written
      /\ \A j \in Runs : dirs'[j] = dirs[j]
  BY <1>2, <1>4, MakingIs
<1>6. o.id = n /\ o.waiting = {b} /\ o \in [id : Nat, waiting : SUBSET Guests]
  BY <1>5
<1> HIDE DEF n, o
<1>7. OneOpening'
  <2>1. opening' = {o}
    BY <1>2
  <2>2. M!Found' = {} /\ n \in Runs' /\ dirs'[n].place = M!Stream
    BY <1>2, <1>5
  <2>3. \A a \in Anywhere : {b} = {a} => a \in dirs'[n].roster
    BY <1>4, <1>5
  <2> QED
    BY <1>6, <2>1, <2>2, <2>3 DEF OneOpening, M!Stream
<1>8. RosterKept' /\ ForksTyped'
  BY <1>1, <1>2, <1>3, <1>5, RosterStays, ForksStay
<1>9. OneFork'
  BY <1>1, <1>3, <1>5, OneForkStays
<1>10. Heard'
  <2>1. M!ActiveFork' # 0 => \A t \in turns' : t[2] \in M!Found => t \in forkedOver'
    BY <1>2
  <2>2. turns' \subseteq walks' \cup forkedOver'
    BY <1>1, <1>3 DEF Heard
  <2> QED
    BY <1>1, <1>3, <1>5, <2>1, <2>2, HeardStays
<1>11. RoomsTyped'
  BY <1>1, <1>3, <1>5, Ground DEF RoomsTyped, Grown
<1> QED
  BY <1>7, <1>8, <1>9, <1>10, <1>11 DEF RoomsKept

(* A fork begins with a directory, and with a copy of the list of forks.   *)
LEMMA StartingForkKeeps ==
  ASSUME RoomsKept, NEW b \in Guests, NEW name \in ForkNames, M!StartsFork(b, name)
  PROVE  RoomsKept'
<1> DEFINE r == dirs[M!Room].roster
           n == NextId(dirs)
           f == [id |-> n, name |-> name, known |-> forks]
<1>1. UNCHANGED <<opening, opened, seats, tailed, seated, turns, walks, forkedOver, forks, entered>>
  BY DEF M!StartsFork, M!Registry, M!Turning
<1>2. /\ ~Mints(b) /\ M!Found # {} /\ name \notin DOMAIN forks /\ Len(dirs) < MaxDirs
      /\ dirs' = Made(dirs, name, r) /\ forking' = [forking EXCEPT ![b] = f]
      /\ ~twice' => ~twice /\ \A c \in Guests : ~Mints(c)
  BY DEF M!StartsFork, Mints, Made, NextId
<1>3. RoomsTyped /\ OneOpening /\ RosterKept /\ ForksTyped /\ Heard /\ OneFork
  BY DEF RoomsKept
<1>4. r \in SUBSET Guests /\ name \in Places /\ name # M!Stream
  <2>1. M!Room \in Runs
    BY <1>2, <1>3, RoomIs, Ground
  <2>2. \A i \in Runs : dirs[i] \in Dirs
    BY <1>3 DEF RoomsTyped, Runs
  <2> QED
    BY <2>1, <2>2, Ground DEF Dirs, Places
<1> HIDE DEF r
<1>5. /\ Grown /\ M!Found' = M!Found /\ Runs' = Runs \cup {n}
      /\ n \notin Runs /\ n \in Nat /\ n # 0
      /\ dirs'[n].place = name /\ ~dirs'[n].written
      /\ \A j \in Runs : dirs'[j] = dirs[j]
  BY <1>2, <1>4, MakingIs
<1>6. f.id = n /\ f.name = name /\ f.known = forks
  OBVIOUS
<1> HIDE DEF n, f
<1>7. DOMAIN forking' = Guests /\ forking'[b] = f /\ \A c \in Guests : c # b => forking'[c] = forking[c]
  BY <1>2, <1>3 DEF ForksTyped
<1>8. OneOpening' /\ RosterKept'
  <2>1. \A j \in M!Found : dirs'[j].roster = dirs[j].roster
    BY <1>5, Ground
  <2> QED
    BY <1>1, <1>3, <1>5, <2>1, OpeningStays, RosterStays
<1>9. ForksTyped'
  <2>1. \A n1 \in DOMAIN forks : forks[n1] \in Runs' /\ dirs'[forks[n1]].place = n1
    BY <1>3, <1>5 DEF ForksTyped, Children
  <2>2. Children(forks)' /\ DOMAIN forks \subseteq ForkNames
    BY <1>1, <1>3, <2>1 DEF ForksTyped, Children
  <2>3. ASSUME NEW c \in Guests, Mints(c)'
        PROVE  /\ forking'[c].name \in ForkNames /\ forking'[c].id \in Runs'
               /\ dirs'[forking'[c].id].place = forking'[c].name /\ Children(forking[c].known)'
    <3>1. CASE c = b
      BY <1>1, <1>5, <1>6, <1>7, <2>1, <2>2, <3>1 DEF Children
    <3>2. CASE c # b
      <4>1. /\ forking[c].name \in ForkNames /\ forking[c].id \in Runs
            /\ dirs[forking[c].id].place = forking[c].name /\ Children(forking[c].known)
        BY <1>3, <1>7, <2>3, <3>2 DEF ForksTyped, Mints
      <4> DEFINE k == forking[c].known
      <4>2. Children(k) /\ forking'[c].known = k
        BY <1>7, <3>2, <4>1
      <4> HIDE DEF k
      <4>3. DOMAIN k \subseteq ForkNames /\ \A m \in DOMAIN k : k[m] \in Runs' /\ dirs'[k[m]].place = m
        BY <1>5, <4>2, ChildrenStay
      <4>4. Children(forking[c].known)'
        BY <4>2, <4>3 DEF Children
      <4> QED
        BY <1>5, <1>7, <3>2, <4>1, <4>4 DEF Grown
    <3> QED
      BY <3>1, <3>2
  <2> QED
    BY <1>2, <1>5, <1>7, <2>2, <2>3 DEF ForksTyped
<1>10. OneFork'
  <2>1. SUFFICES ASSUME ~twice'
                 PROVE  /\ M!NamesKeepTheirChild'
                        /\ \A c, d \in Guests : Mints(c)' /\ Mints(d)' => c = d
                        /\ \A c \in Guests : Mints(c)' => forking'[c].known = forks' /\ forking'[c].name \notin DOMAIN forks'
    BY DEF OneFork
  <2>2. ~twice /\ \A c \in Guests : ~Mints(c)
    BY <1>2, <2>1
  <2>3. \A c \in Guests : Mints(c)' => c = b
    BY <1>7, <2>2 DEF Mints
  <2>4. M!NamesKeepTheirChild
    BY <1>3, <2>2 DEF OneFork
  <2>5. M!NamesKeepTheirChild'
    BY <1>1, <1>5, <2>2, <2>4 DEF M!NamesKeepTheirChild, Runs, M!Stream
  <2> QED
    BY <1>1, <1>2, <1>6, <1>7, <2>3, <2>5
<1>11. Heard'
  <2>1. M!ActiveFork' = M!ActiveFork
    BY <1>1 DEF M!ActiveFork
  <2>2. M!ActiveFork' # 0 => \A t \in turns' : t[2] \in M!Found => t \in forkedOver'
    BY <1>1, <1>3, <2>1 DEF Heard
  <2>3. turns' \subseteq walks' \cup forkedOver'
    BY <1>1, <1>3 DEF Heard
  <2> QED
    BY <1>1, <1>3, <1>5, <2>2, <2>3, HeardStays
<1>12. RoomsTyped'
  BY <1>1, <1>3, <1>5, Ground DEF RoomsTyped, Grown
<1> QED
  BY <1>8, <1>9, <1>10, <1>11, <1>12 DEF RoomsKept

(* A known fork is entered, or one is left.                                *)
LEMMA EnteringKeeps ==
  ASSUME RoomsKept, NEW b \in Guests,
         M!LeavesFork(b) \/ \E name \in ForkNames : M!EntersKnown(b, name)
  PROVE  RoomsKept'
<1>1. UNCHANGED <<dirs, opened, opening, seated, turns, walks, forks, forking, twice>>
  BY DEF M!LeavesFork, M!EntersKnown, M!Registry, M!Turning
<1>2. RoomsTyped /\ OneOpening /\ RosterKept /\ ForksTyped /\ Heard /\ OneFork
  BY DEF RoomsKept
<1>3. Grown /\ M!Found' = M!Found /\ Runs' = Runs
  BY <1>1, <1>2, RunsStay
<1>4. OneOpening' /\ ForksTyped' /\ OneFork'
  <2>1. OneFork'
    BY <1>1, <1>2, <1>3, OneForkStays
  <2> QED
    BY <1>1, <1>2, <1>3, <2>1, OpeningStays, ForksStay
<1>5. /\ seats \in [M!Ids -> SUBSET Guests] /\ tailed \in [Guests -> SUBSET M!Ids] /\ opened \subseteq Runs
      /\ Runs \subseteq M!Ids /\ M!Ids' = M!Ids
  BY <1>2, Ground DEF RoomsTyped
<1>6. \A n \in DOMAIN forks : forks[n] \in Runs /\ forks[n] \notin M!Found
  <2>1. \A n \in DOMAIN forks : n \in ForkNames /\ forks[n] \in Runs /\ dirs[forks[n]].place = n
    BY <1>2 DEF ForksTyped, Children
  <2> QED
    BY <2>1, Ground
<1>7. ASSUME M!LeavesFork(b) PROVE RosterKept' /\ Heard' /\ RoomsTyped'
  <2>1. /\ entered' = M!Outside /\ tailed' = [tailed EXCEPT ![b] = @ \ {M!ActiveFork}]
        /\ UNCHANGED <<seats, forkedOver>>
    BY <1>7 DEF M!LeavesFork, M!Registry, M!Turning
  <2>2. tailed' \in [Guests -> SUBSET M!Ids] /\ \A c \in Guests : tailed'[c] \subseteq tailed[c]
    BY <1>5, <2>1
  <2>3. M!ActiveFork' = 0
    <3>1. M!Outside \notin DOMAIN forks
      BY <1>2, Ground DEF ForksTyped, Children
    <3> QED
      BY <1>1, <2>1, <3>1 DEF M!ActiveFork
  <2>4. RosterKept'
    BY <1>1, <1>2, <1>3, <2>1, <2>2, RosterStays
  <2>5. Heard'
    <3>1. turns' \subseteq walks' \cup forkedOver'
      BY <1>1, <1>2, <2>1 DEF Heard
    <3> QED
      BY <1>1, <1>2, <1>3, <2>3, <3>1, HeardStays
  <2>6. RoomsTyped'
    BY <1>1, <1>2, <1>3, <1>5, <2>1, <2>2 DEF RoomsTyped
  <2> QED
    BY <2>4, <2>5, <2>6
<1>8. ASSUME NEW name \in ForkNames, M!EntersKnown(b, name) PROVE RosterKept' /\ Heard' /\ RoomsTyped'
  <2> DEFINE i == forks[name]
  <2>1. /\ name \in DOMAIN forks /\ forkedOver' = M!Crossed /\ M!Found # {}
        /\ seats' = (IF i \in opened THEN M!Rides(i) ELSE seats)
        /\ tailed' = [tailed EXCEPT ![b] = @ \cup {i}]
    BY <1>8 DEF M!EntersKnown
  <2>2. i \in Runs /\ i \notin M!Found /\ M!Room \in M!Ids
    BY <1>2, <1>5, <1>6, <2>1, RoomIs, Ground
  <2> HIDE DEF i
  <2>3. /\ tailed' \in [Guests -> SUBSET M!Ids]
        /\ \A c \in Guests, j \in M!Found : j \in tailed'[c] => j \in tailed[c]
    BY <1>5, <2>1, <2>2
  <2>4. seats' \in [M!Ids -> SUBSET Guests] /\ \A j \in M!Ids : seats[j] \subseteq seats'[j]
    BY <1>5, <2>1, <2>2 DEF M!Rides
  <2>5. RosterKept'
    <3>1. M!Found \subseteq M!Ids
      BY <1>5, Ground
    <3> QED
      BY <1>1, <1>2, <1>3, <2>3, <2>4, <3>1, RosterStays
  <2>6. Heard'
    <3>1. turns' \subseteq walks' \cup forkedOver' /\ \A t \in turns' : t[2] \in M!Found => t \in forkedOver'
      BY <1>1, <1>2, <2>1 DEF Heard, M!Crossed
    <3> QED
      BY <1>1, <1>2, <1>3, <3>1, HeardStays
  <2>7. RoomsTyped'
    BY <1>1, <1>2, <1>3, <1>5, <2>3, <2>4 DEF RoomsTyped
  <2> QED
    BY <2>5, <2>6, <2>7
<1> QED
  BY <1>4, <1>7, <1>8 DEF RoomsKept

(* A fork is written and listed as its name's child, and entered.          *)
LEMMA ForkingKeeps ==
  ASSUME RoomsKept, NEW b \in Guests, M!Forks(b)
  PROVE  RoomsKept'
<1> DEFINE f == forking[b]
           i == f.id
           e == Wrote(dirs, i)
<1>1. UNCHANGED <<opening, seated, turns, walks, twice>>
  BY DEF M!Forks
<1>2. /\ Mints(b) /\ dirs' = e /\ opened' = opened \cup {i}
      /\ seats' = M!Rides(i) /\ tailed' = [tailed EXCEPT ![b] = @ \cup {i}]
      /\ forks' = M!Listed(f.known, f.name, i)
      /\ forking' = [forking EXCEPT ![b] = M!NoFork]
      /\ forkedOver' = M!Crossed
  BY DEF M!Forks, Mints, Wrote
<1>3. RoomsTyped /\ OneOpening /\ RosterKept /\ ForksTyped /\ Heard /\ OneFork
  BY DEF RoomsKept
<1>4. i \in Runs /\ f.name \in ForkNames /\ dirs[i].place = f.name /\ Children(f.known)
  BY <1>2, <1>3 DEF ForksTyped
<1> DEFINE known == f.known
           name == f.name
<1>5. /\ name \in ForkNames /\ name # M!Stream /\ dirs[i].place = name /\ Children(known)
      /\ forks' = M!Listed(known, name, i)
  BY <1>2, <1>4, Ground
<1>6. ~twice => known = forks /\ name \notin DOMAIN forks /\ \A c \in Guests : Mints(c) => c = b
  BY <1>2, <1>3 DEF OneFork
<1> HIDE DEF f, i, known, name
<1>7. /\ e \in Seq(Dirs) /\ DOMAIN e = Runs /\ Len(e) = Len(dirs) /\ e[i].roster = dirs[i].roster
      /\ e[i].place = dirs[i].place /\ e[i].written /\ \A j \in Runs : j # i => e[j] = dirs[j]
  BY <1>3, <1>4, WrittenIs DEF RoomsTyped, Runs
<1> HIDE DEF e
<1>8. Runs' = Runs /\ Grown
  BY <1>2, <1>3, <1>7 DEF Grown, Runs, RoomsTyped
<1>9. M!Found' = M!Found /\ i \notin M!Found
  BY <1>2, <1>4, <1>5, <1>7 DEF M!Found, Runs, M!Stream
<1>10. M!Ids' = M!Ids /\ i \in M!Ids /\ M!Found \subseteq M!Ids
  BY <1>3, <1>4, Ground
<1>11. /\ seats' = [seats EXCEPT ![i] = @ \cup seats[M!Room]] /\ seats \in [M!Ids -> SUBSET Guests]
       /\ tailed \in [Guests -> SUBSET M!Ids]
  BY <1>2, <1>3 DEF M!Rides, RoomsTyped
<1>12. \A j \in M!Ids : seats[j] \subseteq seats'[j]
  BY <1>10, <1>11
<1>13. RoomsTyped'
  <2>0. M!Room \in M!Ids
    BY <1>2, <1>3, <1>10, RoomIs DEF ForksTyped
  <2>1. seats' \in [M!Ids -> SUBSET Guests]
    BY <1>10, <1>11, <2>0
  <2>2. tailed' \in [Guests -> SUBSET M!Ids]
    BY <1>2, <1>10, <1>11
  <2> QED
    BY <1>1, <1>2, <1>3, <1>4, <1>8, <1>10, <2>1, <2>2 DEF RoomsTyped, Grown
<1>14. OneOpening'
  BY <1>1, <1>3, <1>8, <1>9, OpeningStays
<1>15. RosterKept'
  <2>1. \A j \in M!Found : dirs'[j].roster = dirs[j].roster
    BY <1>2, <1>7, <1>9, Ground
  <2>2. \A c \in Guests, j \in M!Found : j \in tailed'[c] => j \in tailed[c]
    BY <1>2, <1>9, <1>11
  <2>3. opened' \cap M!Found \subseteq opened
    BY <1>2, <1>9
  <2> QED
    BY <1>1, <1>3, <1>9, <1>10, <1>12, <2>1, <2>2, <2>3, RosterStays
<1>16. DOMAIN forking' = Guests /\ ~Mints(b)' /\ \A c \in Guests : c # b => forking'[c] = forking[c]
  BY <1>2, <1>3 DEF ForksTyped, Mints, M!NoFork
<1>17. /\ DOMAIN forks' = DOMAIN known \cup {name} /\ forks'[name] = i
       /\ \A n \in DOMAIN known : n # name => forks'[n] = known[n]
  BY <1>5 DEF M!Listed
<1>18. ForksTyped'
  <2>1. Children(forks)'
    BY <1>2, <1>4, <1>5, <1>7, <1>8, <1>17 DEF Children, Grown
  <2>2. ASSUME NEW c \in Guests, Mints(c)'
        PROVE  /\ forking'[c].name \in ForkNames /\ forking'[c].id \in Runs'
               /\ dirs'[forking'[c].id].place = forking'[c].name /\ Children(forking[c].known)'
    <3>1. c # b /\ forking'[c] = forking[c]
      BY <1>16, <2>2
    <3>2. /\ forking[c].name \in ForkNames /\ forking[c].id \in Runs
          /\ dirs[forking[c].id].place = forking[c].name /\ Children(forking[c].known)
      BY <1>3, <2>2, <3>1 DEF ForksTyped, Mints
    <3> DEFINE k == forking[c].known
    <3>3. Children(k) /\ forking'[c].known = k
      BY <3>1, <3>2
    <3> HIDE DEF k
    <3>4. DOMAIN k \subseteq ForkNames /\ \A m \in DOMAIN k : k[m] \in Runs' /\ dirs'[k[m]].place = m
      BY <1>8, <3>3, ChildrenStay
    <3>5. Children(forking[c].known)'
      BY <3>3, <3>4 DEF Children
    <3> QED
      BY <1>8, <3>1, <3>2, <3>5 DEF Grown
  <2> QED
    BY <1>2, <1>3, <1>9, <1>16, <2>1, <2>2 DEF ForksTyped
<1>19. OneFork'
  <2>1. SUFFICES ASSUME ~twice
                 PROVE  /\ M!NamesKeepTheirChild'
                        /\ \A c, d \in Guests : Mints(c)' /\ Mints(d)' => c = d
                        /\ \A c \in Guests : Mints(c)' => forking'[c].known = forks' /\ forking'[c].name \notin DOMAIN forks'
    BY <1>1 DEF OneFork
  <2>2. \A c \in Guests : ~Mints(c)'
    BY <1>6, <1>16, <2>1 DEF Mints
  <2>3. M!NamesKeepTheirChild
    BY <1>3, <2>1 DEF OneFork
  <2>4. M!NamesKeepTheirChild'
    <3> SUFFICES ASSUME NEW j \in Runs, dirs'[j].written, dirs'[j].place # M!Stream
                 PROVE  dirs'[j].place \in DOMAIN forks' /\ forks'[dirs'[j].place] = j
      BY <1>8 DEF M!NamesKeepTheirChild, Runs, M!Stream
    <3>1. CASE j = i
      BY <1>2, <1>5, <1>7, <1>17, <3>1
    <3>2. CASE j # i
      <4>1. dirs[j].written /\ dirs[j].place # M!Stream /\ dirs'[j].place = dirs[j].place
        BY <1>2, <1>7, <3>2
      <4>2. dirs[j].place \in DOMAIN forks /\ forks[dirs[j].place] = j
        BY <2>1, <2>3, <4>1 DEF M!NamesKeepTheirChild, Runs
      <4> QED
        BY <1>6, <1>17, <2>1, <4>1, <4>2
    <3> QED
      BY <3>1, <3>2
  <2> QED
    BY <2>2, <2>4
<1>20. Heard'
  <2>1. turns' \subseteq walks' \cup forkedOver' /\ \A t \in turns' : t[2] \in M!Found => t \in forkedOver'
    BY <1>1, <1>2, <1>3 DEF Heard, M!Crossed
  <2> QED
    BY <1>1, <1>3, <1>8, <1>9, <2>1, HeardStays
<1> QED
  BY <1>13, <1>14, <1>15, <1>18, <1>19, <1>20 DEF RoomsKept

(* A message that names a being begins its turn, in the room or the fork.  *)
LEMMA SayingKeeps ==
  ASSUME RoomsKept, NEW b \in Guests, M!Says(b)
  PROVE  RoomsKept'
<1> DEFINE i == M!Target
           held == IF i \in opened THEN seats ELSE M!Attached(seats, dirs, i)
           t == <<b, i>>
<1>1. UNCHANGED <<dirs, opening, tailed, seated, forks, entered, forking, twice>>
  BY DEF M!Says, M!Forking
<1>2. /\ opened' = opened \cup {i} /\ seats' = held /\ M!Found # {}
      /\ turns' = turns \cup {t} /\ walks' = walks \cup {t} /\ forkedOver' = forkedOver \ {t}
  BY DEF M!Says
<1>3. RoomsTyped /\ OneOpening /\ RosterKept /\ ForksTyped /\ Heard /\ OneFork
  BY DEF RoomsKept
<1>4. Grown /\ M!Found' = M!Found /\ Runs' = Runs
  BY <1>1, <1>3, RunsStay
<1>5. M!ActiveFork' = M!ActiveFork
  BY <1>1 DEF M!ActiveFork
<1>6. M!ActiveFork # 0 => M!ActiveFork \in Runs /\ M!ActiveFork \notin M!Found /\ dirs[M!ActiveFork].place # M!Stream
  <2>1. \A n \in DOMAIN forks : n \in ForkNames /\ forks[n] \in Runs /\ dirs[forks[n]].place = n
    BY <1>3 DEF ForksTyped, Children
  <2> QED
    BY <2>1, Ground DEF M!ActiveFork
<1>7. M!Room \in M!Found /\ M!Found = {M!Room} /\ M!Found \subseteq Runs /\ dirs[M!Room].written
  BY <1>2, <1>3, RoomIs, Ground
<1>8. /\ i \in Runs /\ (dirs[i].place = M!Stream => dirs[i].written)
      /\ M!ActiveFork # 0 => i \notin M!Found
  BY <1>6, <1>7 DEF M!Target
<1> HIDE DEF i
<1>9. Runs \subseteq M!Ids /\ M!Ids' = M!Ids /\ seats \in [M!Ids -> SUBSET Guests] /\ seated \subseteq Guests
  BY <1>3, Ground DEF RoomsTyped
<1>10. /\ held \in [M!Ids -> SUBSET Guests]
       /\ \A j \in M!Ids : seats[j] \subseteq held[j]
       /\ (i \notin opened => dirs[i].roster \cap seated \subseteq held[i])
  BY <1>8, <1>9 DEF M!Attached
<1>11. t[2] = i /\ t \in Guests \X Runs
  BY <1>8
<1> HIDE DEF held, t
<1>12. RoomsTyped'
  BY <1>1, <1>2, <1>3, <1>4, <1>8, <1>9, <1>10, <1>11 DEF RoomsTyped
<1>13. OneOpening' /\ ForksTyped' /\ OneFork'
  <2>1. OneFork'
    BY <1>1, <1>3, <1>4, OneForkStays
  <2> QED
    BY <1>1, <1>3, <1>4, <2>1, OpeningStays, ForksStay
<1>14. RosterKept'
  <2>1. ASSUME NEW j \in opened' \cap M!Found PROVE dirs[j].roster \cap seated \subseteq held[j]
    <3>1. CASE j \in opened
      <4>1. dirs[j].roster \cap seated \subseteq seats[j]
        BY <1>3, <2>1, <3>1 DEF RosterKept
      <4>2. j \in M!Ids
        BY <1>7, <1>9, <2>1
      <4>3. seats[j] \subseteq held[j]
        BY <1>10, <4>2
      <4> QED
        BY <4>1, <4>3
    <3>2. CASE j \notin opened
      <4>1. opened' = opened \cup {i} /\ j \in opened'
        BY <1>2, <2>1
      <4>2. j = i
        BY <3>2, <4>1
      <4>3. i \notin opened
        BY <3>2, <4>2
      <4>4. dirs[i].roster \cap seated \subseteq held[i]
        BY <1>10, <4>3
      <4> QED
        BY <4>2, <4>4
    <3> QED
      BY <3>1, <3>2
  <2> QED
    BY <1>1, <1>2, <1>3, <1>4, <2>1 DEF RosterKept
<1>15. Heard'
  <2>1. turns' \subseteq walks' \cup forkedOver'
    BY <1>2, <1>3 DEF Heard
  <2>2. \A u \in turns' \cup walks' : dirs[u[2]].place = M!Stream => dirs[u[2]].written
    BY <1>2, <1>3, <1>8, <1>11 DEF Heard
  <2>3. M!ActiveFork # 0 => \A u \in turns' : u[2] \in M!Found => u \in forkedOver'
    BY <1>2, <1>3, <1>8, <1>11 DEF Heard
  <2> QED
    BY <1>1, <1>4, <1>5, <2>1, <2>2, <2>3 DEF Heard, M!Stream
<1> QED
  BY <1>12, <1>13, <1>14, <1>15 DEF RoomsKept

(* The house starts again with its directories, and no list of forks.      *)
LEMMA RestartKeeps ==
  ASSUME RoomsKept, M!Restarts
  PROVE  RoomsKept'
<1>1. /\ UNCHANGED dirs /\ opened' = {} /\ opening' = {} /\ tailed' = [b \in Guests |-> {}]
      /\ seated' = {} /\ seats' = [i \in M!Ids |-> {}] /\ turns' = {} /\ walks' = {}
      /\ forks' = <<>> /\ forking' = [b \in Guests |-> M!NoFork]
      /\ ~twice' => ~twice /\ forks = <<>>
  BY DEF M!Restarts
<1>2. RoomsTyped /\ OneOpening /\ OneFork
  BY DEF RoomsKept
<1>3. M!Found' = M!Found /\ Runs' = Runs /\ M!Ids' = M!Ids
  BY <1>1, <1>2, RunsStay, Ground
<1>4. DOMAIN <<>> = {}
  OBVIOUS
<1>5. \A b \in Guests : ~Mints(b)'
  BY <1>1 DEF Mints, M!NoFork
<1>6. RoomsTyped'
  BY <1>1, <1>2, <1>3 DEF RoomsTyped
<1>7. OneOpening' /\ RosterKept'
  BY <1>1, <1>2, <1>3, PartsAssumption DEF OneOpening, RosterKept
<1>8. ForksTyped'
  BY <1>1, <1>4, <1>5 DEF ForksTyped, Children
<1>9. OneFork'
  BY <1>1, <1>2, <1>4, <1>5 DEF OneFork, M!NamesKeepTheirChild, M!Stream
<1>10. Heard'
  BY <1>1 DEF Heard
<1> QED
  BY <1>6, <1>7, <1>8, <1>9, <1>10 DEF RoomsKept

(* One step of the rooms.                                                  *)
LEMMA RoomsStep ==
  ASSUME RoomsKept, M!Next
  PROVE  RoomsKept'
<1>1. ASSUME NEW b \in Guests, NEW n \in ForkNames, M!EntersKnown(b, n) \/ M!StartsFork(b, n) PROVE RoomsKept'
  BY <1>1, EnteringKeeps, StartingForkKeeps
<1>2. ASSUME NEW b \in Guests,
             \/ M!JoinsOpen(b) \/ M!OpensAgain(b) \/ M!StartsOpening(b) \/ M!Says(b) \/ M!Leaves(b) \/ M!Returns(b)
             \/ M!Forks(b) \/ M!LeavesFork(b)
      PROVE  RoomsKept'
  BY <1>2, JoiningKeeps, OpeningAgainKeeps, StartingOpenKeeps, SayingKeeps, SeatsKeep, ForkingKeeps, EnteringKeeps
<1>3. ASSUME (\E o \in opening : M!Opens(o)) \/ (\E i \in opened : M!Rests(i)) \/ M!Restarts PROVE RoomsKept'
  BY <1>3, OpensKeeps, SeatsKeep, RestartKeeps
<1>4. ASSUME \/ \E t \in walks : M!Ends(t[1], t[2])
             \/ \E t \in turns : M!GraceExpires(t) \/ M!Stops(t)
      PROVE  RoomsKept'
  BY <1>4, TurnsEnd
<1> QED
  BY <1>1, <1>2, <1>3, <1>4 DEF M!Next

-----------------------------------------------------------------------------
(* The three parts of RoomsSound.                                          *)

(* Nothing is launched, started or opened yet.                             *)
LEMMA WalkersStart ==
  ASSUME MCInit
  PROVE  WalkersKept
<1>1. /\ walkers = 0 /\ spawning = {} /\ stopping = {} /\ stopCalls = 0 /\ unasked = FALSE
      /\ process = [w \in A!Ids |-> "no"] /\ row = [w \in A!Ids |-> [planned |-> FALSE, restarts |-> 0]]
      /\ revivals = [w \in A!Ids |-> 0]
  BY DEF MCInit, A!Init, A!None
<1>2. A!Launched = {} /\ A!Launched = 1 .. 0 /\ MaxWalkers \in Nat /\ MAX_RESTARTS \in Nat
  BY <1>1, PartsAssumption DEF A!Launched
<1>3. WalkersTyped
  <2>1. /\ process \in [A!Ids -> {"no", "runs", "killed", "dead", "seen"}]
        /\ row \in [A!Ids -> [planned : BOOLEAN, restarts : Nat]] /\ revivals \in [A!Ids -> Nat]
    BY <1>1
  <2>2. \E k \in 0 .. MaxWalkers : A!Launched = 1 .. k
    BY <1>2
  <2>3. walkers \in 0 .. MaxWalkers /\ stopCalls \in Nat
    BY <1>1, <1>2
  <2> QED
    BY <1>1, <2>1, <2>2, <2>3 DEF WalkersTyped
<1>4. TableKept /\ StopsKept /\ SpawnKept /\ ChainKept
  BY <1>1, <1>2 DEF TableKept, StopsKept, SpawnKept, ChainKept, A!OneWalker, A!GivesUp
<1> QED
  BY <1>3, <1>4 DEF WalkersKept

LEMMA SessionsStart ==
  ASSUME MCInit
  PROVE  SessionsKept
<1>1. T!Init
  BY DEF MCInit
<1>2. /\ \A i \in T!Sessions : proc[i] = "none"
      /\ \A i \in T!Sessions : sent[i] = ""
      /\ \A c \in Calls : call[c] = T!Idle
      /\ listed = {} /\ old = {} /\ grace = {} /\ crashed = FALSE
  BY <1>1, Zenon DEF T!Init
<1>3. \A i \in T!Sessions : proc[i] # "runs"
  BY <1>2, Zenon
<1>4. T!Running = {}
  BY <1>3 DEF T!Running
<1>5. MaxSpawns \in Nat /\ MAX_CONCURRENT \in Nat
  BY PartsAssumption
<1>6. SessionsTyped
  <2>1. T!Idle \in CallsOf(0 .. MaxSpawns)
    <3>1. 0 \in 0 .. MaxSpawns
      BY <1>5
    <3> QED
      BY <3>1, Zenon DEF T!Idle, CallsOf
  <2>2. call \in [Calls -> CallsOf(0 .. MaxSpawns)]
    BY <1>1, <2>1, Zenon DEF T!Init
  <2>3. proc \in [T!Sessions -> {"none", "runs", "exited"}] /\ sent \in [T!Sessions -> {"", "TERM", "KILL"}]
    BY <1>1, Zenon DEF T!Init
  <2>4. listed \subseteq T!Sessions
    BY <1>2, Zenon
  <2> QED
    BY <2>2, <2>3, <2>4, Zenon DEF SessionsTyped
<1>7. Within
  BY <1>4, <1>5, FS_EmptySet DEF Within
<1>8. InGrace /\ Ended
  BY <1>2, <1>4, Zenon DEF InGrace, Ended
<1>9. Fresh
  BY <1>2, Zenon DEF Fresh
<1>10. \A c \in Calls : Told(c) /\ Waits(c)
  <2>1. T!Idle.at = "idle" /\ T!Idle.said \notin {"exit code", "killed", "terminated"}
    BY Zenon DEF T!Idle
  <2>2. \A c \in Calls : call[c].at = "idle" /\ call[c].said \notin {"exit code", "killed", "terminated"}
    BY <1>2, <2>1, Zenon
  <2> QED
    BY <2>2, Zenon DEF Told, Waits
<1> QED
  BY <1>6, <1>7, <1>8, <1>9, <1>10, Zenon DEF SessionsKept

LEMMA RoomsStart ==
  ASSUME MCInit
  PROVE  RoomsKept
<1>1. /\ dirs = <<>> /\ opened = {} /\ opening = {}
      /\ tailed = [b \in Guests |-> {}] /\ seated = Guests /\ seats = [i \in M!Ids |-> {}]
      /\ turns = {} /\ walks = {} /\ forkedOver = {}
      /\ forks = <<>> /\ entered = "none" /\ forking = [b \in Guests |-> M!NoFork]
  BY DEF MCInit, M!Init, M!Outside
<1>2. /\ Runs = {} /\ M!Found = {} /\ dirs \in Seq(Dirs) /\ Len(dirs) = 0 /\ MaxDirs \in Nat
      /\ DOMAIN forks = {} /\ M!NoFork.id = 0
  BY <1>1, PartsAssumption DEF Runs, M!Found, M!NoFork
<1>3. RoomsTyped
  BY <1>1, <1>2 DEF RoomsTyped
<1>4. OneOpening /\ RosterKept /\ Heard
  BY <1>1, <1>2 DEF OneOpening, RosterKept, Heard
<1>5. \A b \in Guests : ~Mints(b)
  BY <1>1, <1>2 DEF Mints
<1>6. ForksTyped /\ OneFork
  BY <1>1, <1>2, <1>5 DEF ForksTyped, Children, OneFork, M!NamesKeepTheirChild, Runs
<1> QED
  BY <1>3, <1>4, <1>6 DEF RoomsKept

(* What a part keeps it keeps while another one steps.                     *)
LEMMA SessionsRest ==
  ASSUME SessionsKept, UNCHANGED sessionsVars
  PROVE  SessionsKept'
<1>1. UNCHANGED <<proc, listed, old, sent, grace, call, crashed>>
  BY DEF sessionsVars
<1>2. T!Running' = T!Running
  BY <1>1 DEF T!Running
<1>3. SessionsTyped' /\ Fresh'
  BY <1>1, Zenon DEF SessionsKept, SessionsTyped, Fresh
<1>4. Within' /\ InGrace' /\ Ended'
  BY <1>1, <1>2, Zenon DEF SessionsKept, Within, InGrace, Ended
<1>5. \A c \in Calls : Told(c)' /\ Waits(c)'
  BY <1>1, Zenon DEF SessionsKept, Told, Waits
<1> QED
  BY <1>3, <1>4, <1>5, Zenon DEF SessionsKept

LEMMA RoomsRest ==
  ASSUME RoomsKept, UNCHANGED roomsVars
  PROVE  RoomsKept'
<1>1. UNCHANGED <<dirs, opened, opening, tailed, seated, seats, turns, walks, forkedOver,
                  forks, entered, forking, twice>>
  BY DEF roomsVars
<1>2. RoomsTyped /\ OneOpening /\ RosterKept /\ ForksTyped /\ Heard /\ OneFork
  BY DEF RoomsKept
<1>3. Grown /\ M!Found' = M!Found /\ Runs' = Runs /\ M!ActiveFork' = M!ActiveFork
  BY <1>1, <1>2, RunsStay DEF M!ActiveFork
<1>4. RoomsTyped'
  BY <1>1, <1>2, <1>3, Ground DEF RoomsTyped
<1>5. OneOpening' /\ RosterKept' /\ ForksTyped'
  BY <1>1, <1>2, <1>3, OpeningStays, RosterStays, ForksStay
<1>6. OneFork'
  BY <1>1, <1>2, <1>3, OneForkStays
<1>7. Heard'
  BY <1>1, <1>2, <1>3 DEF Heard, M!Stream
<1> QED
  BY <1>4, <1>5, <1>6, <1>7 DEF RoomsKept

(* What the three invariants come to.                                      *)
LEMMA KeptIsSound ==
  ASSUME WalkersKept, SessionsKept, RoomsKept
  PROVE  RoomsSound
<1>1. A!WalkersSound
  BY DEF WalkersKept, TableKept, ChainKept, A!WalkersSound, A!StaysStopped
<1>2. T!SessionsSound
  <2>1. T!RunningIsListed
    BY DEF SessionsKept, Within, T!RunningIsListed, T!Cardinality, Cardinality
  <2>2. T!ToldTruly
    <3>1. \A c \in Calls : Told(c)
      BY DEF SessionsKept
    <3>2. InGrace
      BY DEF SessionsKept
    <3> QED
      BY <3>1, <3>2, Zenon DEF Told, InGrace, T!ToldTruly
  <2>3. T!WaitedForIsListed
    BY DEF SessionsKept, Waits, Ended, T!WaitedForIsListed
  <2> QED
    BY <2>1, <2>2, <2>3 DEF T!SessionsSound
<1>3. M!Sound
  <2>1. M!OneRoom
    <3>1. Cardinality(M!Found) <= 1
      <4>1. CASE M!Found = {}
        BY <4>1, FS_EmptySet
      <4>2. ASSUME NEW i \in M!Found PROVE Cardinality(M!Found) <= 1
        <5>1. M!Found = {i}
          BY <4>2 DEF RoomsKept, OneOpening
        <5>2. Cardinality({i}) = 1
          BY FS_Singleton
        <5> QED
          BY <5>1, <5>2
      <4> QED
        BY <4>1, <4>2
    <3> QED
      BY <3>1 DEF M!OneRoom, M!Cardinality, Cardinality
  <2>2. M!RosterSeated
    BY DEF RoomsKept, RosterKept, M!RosterSeated
  <2>3. M!TurnsAreHeard
    BY DEF RoomsKept, Heard, M!TurnsAreHeard
  <2>4. M!NamesKeepTheirChild
    BY DEF RoomsKept, OneFork, M!NamesKeepTheirChild
  <2> QED
    BY <2>1, <2>2, <2>3, <2>4 DEF M!Sound
<1> QED
  BY <1>1, <1>2, <1>3 DEF RoomsSound

(* A stream has its one room and its seats (Rooms), a being has its one    *)
(* walker, unless an attach crossed a restart (Walkers), and the shell     *)
(* sessions it is told of (ToolSessions), whatever the bounds are.         *)
THEOREM RoomsAreKept == MCSpec => []RoomsSound
<1> DEFINE Kept == WalkersKept /\ SessionsKept /\ RoomsKept
<1>1. MCInit => Kept
  BY WalkersStart, SessionsStart, RoomsStart
<1>2. Kept /\ [MCNext]_upkeepVars => Kept'
  <2> SUFFICES ASSUME Kept, [MCNext]_upkeepVars PROVE Kept'
    OBVIOUS
  <2>1. /\ A!Next \/ UNCHANGED walkersVars
        /\ T!Next \/ UNCHANGED sessionsVars
        /\ M!Next \/ UNCHANGED roomsVars
    BY DEF MCNext, upkeepVars
  <2>2. WalkersKept'
    <3>1. CASE UNCHANGED walkersVars
      BY <3>1, TableStays DEF walkersVars
    <3> QED
      BY <2>1, <3>1, WalkersStep
  <2>3. SessionsKept'
    BY <2>1, SessionsRest, SessionsStep
  <2>4. RoomsKept'
    BY <2>1, RoomsRest, RoomsStep
  <2> QED
    BY <2>2, <2>3, <2>4
<1>3. Kept => RoomsSound
  BY KeptIsSound
<1> QED
  BY <1>1, <1>2, <1>3, PTL DEF MCSpec
=============================================================================
