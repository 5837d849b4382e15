-------------------------------- MODULE Media --------------------------------
(***************************************************************************)
(* The files of one room that is also a channel of a platform: the house's *)
(* store of them and the rooms it says each belongs to (blob-root.mjs,     *)
(* media-share.mjs), what people attach on the platform and in the app,    *)
(* what beings attach and look at, and which of it each being's seat posts *)
(* back.  A file is its content as stored; that a fetch, a decoder or the  *)
(* size refuses one is a choice.  The seats read what the platform shows,  *)
(* each in its own time.  The platform is external.                        *)
(***************************************************************************)
EXTENDS Naturals, Sequences, FiniteSets, SequencesExt

CONSTANTS
  Beings, Human,     \* those with a seat in the room; somebody else
  Speakers,          \* the beings that attach and look
  Fragile,           \* those whose seat may begin anew
  Files,
  Albums,            \* what a person may post at once: sequences of files
  MAX_ATTACHMENTS,
  MaxPosts, MaxTold, MaxShown, MaxFaults   \* bounds: posts, a person's, frames, restarts of a seat

VARIABLES
  posts,      \* what the platform shows: [by, files, shows]; shows: the frame it was posted for
  at,         \* per seat, the post at hand
  asked, got, \* the seats that have asked for its files; per seat, those stored
  blobs,      \* the store
  refs,       \* the files that refs/ says belong to the room
  record,     \* frames: [type, by, file, wants, origin, seen, post]; post: where it came from
  rows,       \* external.jsonl: the posts it names
  marks,      \* per seat, <<by, file>> that came from the platform
  tail,       \* per seat, the frames it has been given
  sending,    \* per seat, the frames whose call is under way, and the post it made, or 0
  restarts

mediaVars == <<posts, at, asked, got, blobs, refs, record, rows, marks, tail, sending, restarts>>
seatVars == <<at, asked, got, marks, tail, sending, restarts>>

Frame(type, by, file, wants, origin, seen, post) ==
  [type |-> type, by |-> by, file |-> file, wants |-> wants, origin |-> origin, seen |-> seen, post |-> post]
Attached(by, file, wants, origin, seen, post) == Frame("media", by, file, wants, origin, seen, post)
Message(by, origin, post) == Frame("message", by, "none", "human", origin, FALSE, post)

Init ==
  /\ posts = <<>> /\ at = [s \in Beings |-> 1]
  /\ asked = {} /\ got = [s \in Beings |-> <<>>]
  /\ blobs = {} /\ refs = {} /\ record = <<>> /\ rows = {}
  /\ marks = [s \in Beings |-> <<>>] /\ tail = [s \in Beings |-> 0]
  /\ sending = [s \in Beings |-> {}] /\ restarts = 0

Shown(fs) == /\ Len(record) + Len(fs) <= MaxShown /\ record' = record \o fs
Posted(by, files, shows) ==
  /\ Len(posts) < MaxPosts
  /\ posts' = Append(posts, [by |-> by, files |-> files, shows |-> shows])

-----------------------------------------------------------------------------
(* What the platform shows, read by a seat: its own account's posts are    *)
(* ignored; of another's, each file is fetched, stored and marked, or left *)
(* out, and then the message is given to the room.  The files are fetched  *)
(* one by one: a step here, for each only adds to what is there.           *)
PersonPosts(files) ==
  /\ Cardinality({p \in DOMAIN posts : posts[p].by = Human}) < MaxTold /\ Posted(Human, files, 0)
  /\ UNCHANGED <<seatVars, blobs, refs, record, rows>>
Reads(s) == at[s] <= Len(posts) /\ posts[at[s]].by # s
Onward(s) ==
  /\ at' = [at EXCEPT ![s] = @ + 1] /\ asked' = asked \ {s} /\ got' = [got EXCEPT ![s] = <<>>]
Ignores(s) ==
  /\ at[s] <= Len(posts) /\ posts[at[s]].by = s /\ Onward(s)
  /\ UNCHANGED <<posts, blobs, refs, record, rows, marks, tail, sending, restarts>>
(* Any of them may be refused: over a ceiling, or not an image though it   *)
(* says so.  The others stay in their order.                               *)
Through(files) ==
  {ks \in UNION {[1 .. n -> DOMAIN files] : n \in 0 .. Len(files)} : \A i, j \in DOMAIN ks : i < j => ks[i] < ks[j]}
Some(files, ks) == [i \in DOMAIN ks |-> files[ks[i]]]
HasBlob(f) == f \in blobs
PutBlob(fs) == blobs' = blobs \cup fs
AddRef(fs) == refs' = refs \cup fs
AttachToRun(fs) == AddRef(fs)
StoreSharedMedia(fs) == PutBlob(fs) /\ AddRef(fs)
Shares(s, ks) ==
  /\ Reads(s) /\ s \notin asked
  /\ LET stored == Some(posts[at[s]].files, ks) IN
       /\ StoreSharedMedia(ToSet(stored)) /\ got' = [got EXCEPT ![s] = stored]
       /\ marks' = [marks EXCEPT ![s] = @ \o [i \in DOMAIN stored |-> <<posts[at[s]].by, stored[i]>>]]
  /\ asked' = asked \cup {s}
  /\ UNCHANGED <<posts, at, record, rows, tail, sending, restarts>>

(* roomInput: a post that external.jsonl names is a duplicate; a file that *)
(* is not in the store, or one too many, refuses the whole message; else   *)
(* the room is said to have them, and each is shown before the message.    *)
Resolves(files) == Len(files) <= MAX_ATTACHMENTS /\ \A k \in DOMAIN files : HasBlob(files[k])
Origin(p) == IF p = 0 THEN "house" ELSE "platform"
Entered(by, files, p) ==
  [k \in 1 .. Len(files) |-> Attached(by, files[k], "human", Origin(p), FALSE, p)] \o <<Message(by, Origin(p), p)>>
RoomInput(by, files, p) ==
  IF p \in rows \/ ~Resolves(files) THEN UNCHANGED <<refs, record, rows>>
  ELSE /\ AttachToRun(ToSet(files)) /\ Shown(Entered(by, files, p))
       /\ rows' = IF p = 0 THEN rows ELSE rows \cup {p}
Inputs(s) ==
  /\ Reads(s) /\ s \in asked
  /\ RoomInput(posts[at[s]].by, got[s], at[s]) /\ Onward(s)
  /\ UNCHANGED <<posts, blobs, marks, tail, sending, restarts>>

-----------------------------------------------------------------------------
(* In the app: a file is uploaded, into no room yet, and a message that    *)
(* names it is sent into one.                                              *)
Uploads(f) ==
  /\ ~HasBlob(f) /\ PutBlob({f})
  /\ UNCHANGED <<seatVars, posts, refs, record, rows>>
AppInput(f) ==
  /\ RoomInput(Human, <<f>>, 0)
  /\ UNCHANGED <<seatVars, posts, blobs>>

(* A being: media_attach places a file of the store in the room;           *)
(* media_view shows it to the being; and a local tool hands a new one over. *)
ResolveAddr(f) == HasBlob(f)
MediaAttach(b, f) ==
  /\ ResolveAddr(f) /\ Shown(<<Attached(b, f, "model", "house", FALSE, 0)>>)
  /\ UNCHANGED <<seatVars, posts, blobs, refs, rows>>
MediaView(b, f) ==
  /\ ResolveAddr(f) /\ Shown(<<Attached(b, f, "model", "house", TRUE, 0)>>)
  /\ UNCHANGED <<seatVars, posts, blobs, refs, rows>>
RecordLocalTool(b, f) ==
  /\ StoreSharedMedia({f}) /\ Shown(<<Attached(b, f, "model", "house", FALSE, 0)>>)
  /\ UNCHANGED <<seatVars, posts, rows>>

-----------------------------------------------------------------------------
(* onFrame: which of the room's files a seat posts.  A mark is looked for  *)
(* only when nothing before it has decided, and is consumed when found.    *)
IsPlatformMedia(s, f) == <<f.by, f.file>> \in ToSet(marks[s])
GoesOut(s, f) ==
  /\ f.type = "media"
  /\ ~(f.seen /\ f.wants = "model")
  /\ f.wants = "model" => f.by = s
  /\ f.wants = "human" => (f.origin # "platform" /\ ~IsPlatformMedia(s, f))
OnFrame(s) ==
  /\ tail[s] < Len(record) /\ tail' = [tail EXCEPT ![s] = @ + 1]
  /\ LET f == record[tail[s] + 1] IN
       /\ marks' = IF f.type = "media" /\ f.wants = "human" /\ f.origin # "platform"
                   THEN [marks EXCEPT ![s] = Remove(@, <<f.by, f.file>>)] ELSE marks
       /\ sending' = IF GoesOut(s, f) THEN [sending EXCEPT ![s] = @ \cup {<<tail[s] + 1, 0>>}] ELSE sending
  /\ UNCHANGED <<posts, at, asked, got, blobs, refs, record, rows, restarts>>
(* speakMedia's call: the platform has the file, and then answers, and the *)
(* post is known as sent.  One that a guard, its size or the platform      *)
(* refuses, of which a line of the house tells, is one that never gets on. *)
ResolvesOut(i) == HasBlob(record[i].file)
Sent(s, i) ==
  /\ <<i, 0>> \in sending[s] /\ ResolvesOut(i)
  /\ Posted(s, <<record[i].file>>, i)
  /\ sending' = [sending EXCEPT ![s] = (@ \ {<<i, 0>>}) \cup {<<i, Len(posts) + 1>>}]
  /\ UNCHANGED <<at, asked, got, blobs, refs, record, rows, marks, tail, restarts>>
Answered(s, i, p) ==
  /\ p # 0 /\ <<i, p>> \in sending[s]
  /\ rows' = rows \cup {p} /\ sending' = [sending EXCEPT ![s] = @ \ {<<i, p>>}]
  /\ UNCHANGED <<posts, at, asked, got, blobs, refs, record, marks, tail, restarts>>
(* A seat begins anew: what it held in memory is gone, and it hears and is *)
(* given what comes from now on (what it owed is redeliver.mjs's).         *)
Restarts(s) ==
  /\ restarts < MaxFaults /\ restarts' = restarts + 1
  /\ at' = [at EXCEPT ![s] = Len(posts) + 1] /\ asked' = asked \ {s}
  /\ got' = [got EXCEPT ![s] = <<>>] /\ marks' = [marks EXCEPT ![s] = <<>>]
  /\ tail' = [tail EXCEPT ![s] = Len(record)] /\ sending' = [sending EXCEPT ![s] = {}]
  /\ UNCHANGED <<posts, blobs, refs, record, rows>>

Next ==
  \/ \E files \in Albums : PersonPosts(files)
  \/ \E s \in Beings : Ignores(s) \/ Inputs(s) \/ OnFrame(s)
  \/ \E s \in Fragile : Restarts(s)
  \/ \E s \in Beings : Reads(s) /\ \E ks \in Through(posts[at[s]].files) : Shares(s, ks)
  \/ \E f \in Files : Uploads(f) \/ AppInput(f)
  \/ \E b \in Speakers, f \in Files : MediaAttach(b, f) \/ MediaView(b, f) \/ RecordLocalTool(b, f)
  \/ \E s \in Beings, i \in DOMAIN record : Sent(s, i)
  \/ \E s \in Beings, i \in DOMAIN record, p \in DOMAIN posts : Answered(s, i, p)
Spec == Init /\ [][Next]_mediaVars

-----------------------------------------------------------------------------
(* What is shown can be opened, and by those of the room.                  *)
ShownIsKept ==
  \A i \in DOMAIN record : record[i].type = "media" =>
    record[i].file \in blobs /\ (record[i].wants = "human" => record[i].file \in refs)
(* What came from the platform is never posted there, whichever seat       *)
(* received it and whatever seat forgot; what a being attached is posted   *)
(* by its own account, once; what it only looked at by nobody.             *)
PostedByItsOwn ==
  \A p \in DOMAIN posts : posts[p].shows # 0 =>
    LET f == record[posts[p].shows] IN
      /\ f.type = "media" /\ f.post = 0
      /\ f.wants = "model" =>
           /\ f.by = posts[p].by /\ ~f.seen
           /\ \A q \in DOMAIN posts : posts[q].shows = posts[p].shows => q = p
(* A post is in the record once: its files, in their order and by the same *)
(* author, and then at once its message.                                   *)
From(p) == {i \in DOMAIN record : record[i].post = p}
TogetherOnce ==
  \A p \in DOMAIN posts : From(p) # {} =>
    LET n == Cardinality(From(p))
        first == CHOOSE i \in From(p) : \A j \in From(p) : i <= j
    IN /\ From(p) = first .. first + n - 1 /\ n <= MAX_ATTACHMENTS + 1
       /\ \A i \in From(p) : (record[i].type = "message" <=> i = first + n - 1) /\ record[i].by = posts[p].by
       /\ \E ks \in Through(posts[p].files) :
            [i \in 1 .. n - 1 |-> record[first + i - 1].file] = Some(posts[p].files, ks)
(* A person's post that every seat has passed is in the record, unless it  *)
(* had more files than a message may, or every seat began anew.            *)
PassedIsRecorded ==
  \A p \in DOMAIN posts :
    (posts[p].by = Human /\ \A s \in Beings : at[s] > p)
      => From(p) # {} \/ Len(posts[p].files) > MAX_ATTACHMENTS \/ restarts >= Cardinality(Beings)
MediaSound == ShownIsKept /\ PostedByItsOwn /\ TogetherOnce /\ PassedIsRecorded

(* "the caller still inputs the message's text either way"                 *)
(* (media-in.mjs:22-23): not when more files than a message may carry were *)
(* stored; roomInput refuses the whole (serve-attachments.mjs:46).         *)
TextIsKept ==
  \A p \in DOMAIN posts :
    (posts[p].by = Human /\ restarts = 0 /\ \A s \in Beings : at[s] > p) => From(p) # {}
(* "unlike speech/media.attached, a message frame had NO per-seat          *)
(* ownership rule" (seat.mjs:442-443): what a person attached in the app   *)
(* has none either, and every being's account posts it.                    *)
PostedOnce ==
  \A p, q \in DOMAIN posts : (posts[p].shows # 0 /\ posts[q].shows = posts[p].shows) => p = q
(* An attachment of a being that comes back through another's account      *)
(* before its call is answered is recorded again, as one of a person's.    *)
NotTakenAsAPersons ==
  \A i \in DOMAIN record : record[i].post # 0 => posts[record[i].post].shows = 0
=============================================================================
