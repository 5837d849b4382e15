-------------------------------- MODULE Signal --------------------------------
(* The server of a Signal account (mcpl-signal): the socket on which the   *)
(* bridge, signal-cli, hands it envelopes (signal-cli.mjs), what becomes   *)
(* of one (envelopes.mjs, server.mjs), the keeper's privacy file           *)
(* (privacy.mjs) and the channels the host is told of.  One group and one  *)
(* direct chat; sending and its text are SignalText's.                     *)
EXTENDS Integers, Sequences, FiniteSets, SequencesExt

CONSTANTS
  Configs,                   \* [mode, allowed]: the environment's; allowed: the group is
  SeenCap,                   \* keys the deduplication holds
  MaxSent, MaxSocks, Trials  \* bounds: envelopes; sockets; all else that the world does

VARIABLES
  conf,
  sent,       \* on Signal: [kind, chat, mark]
  socks, current, retry,   \* sockets by number; the one in use; the timer
  queue,      \* envelopes handed to the server: numbers of sent
  step,       \* [at, under]: what the first of them waits for, and its verdict's ground
  seen, accepted,          \* keys held; all that passed for new, in order
  phase,      \* of the server's start
  uuid,       \* whether it learned its own
  grant, chans, openGroup, \* the host's policy; channels known; whether the group's is open
  tellings,   \* channels the host was told of, or refused to hear of
  file, lists,             \* the privacy file: [there, text, read]; the last good reading
  given,      \* to the host: [env, under]
  tries

signalVars == <<conf, sent, socks, current, retry, queue, step, seen, accepted, phase, uuid, grant,
                chans, openGroup, tellings, file, lists, given, tries>>
Line == <<socks, current, retry>>
Account == <<conf, phase, uuid>>
Channels == <<grant, chans, openGroup, tellings>>
Privacy == <<file, lists>>
Work == <<queue, step, seen, accepted, given>>

Socks == 1 .. MaxSocks
Chats == {"group", "dm"}
Texts == {"listed", "unlisted", "broken"}
E(kind, chat, mark) == [kind |-> kind, chat |-> chat, mark |-> mark]
(* What mapEnvelope tells apart: a message, or an edit, deletion or        *)
(* reaction of one; a dot before it, a mention, the account's own.         *)
Envelopes == {E("message", "group", m) : m \in {"plain", "dot", "mention", "own"}}
             \cup {E("message", "dm", "plain"), E("about", "group", "plain")}
Tries == tries < Trials /\ tries' = tries + 1
Idle == [at |-> "none", under |-> "none"]

Init ==
  /\ conf \in Configs /\ sent = <<>>
  /\ socks = [n \in Socks |-> "none"] /\ current = 0 /\ retry = FALSE
  /\ queue = <<>> /\ step = Idle /\ seen = <<>> /\ accepted = <<>>
  /\ phase = "asking" /\ uuid = FALSE
  /\ grant = FALSE /\ chans = {} /\ openGroup = FALSE /\ tellings = {}
  /\ file \in [there : BOOLEAN, text : Texts, read : {FALSE}] /\ lists = "none"
  /\ given = <<>> /\ tries = 0

-----------------------------------------------------------------------------
(* The socket.  A handshake that hangs is given up, and its close comes    *)
(* later.                                                                  *)
Ours(n) == n = current
Live(n) == socks[n] \in {"opening", "open"}
Connected == \E n \in Socks : socks[n] = "open"
Next1(n) == socks[n] = "none" /\ \A k \in 1 .. n - 1 : socks[k] # "none"

Connects ==
  /\ retry /\ retry' = FALSE
  /\ \E n \in Socks : Next1(n) /\ current' = n /\ socks' = [socks EXCEPT ![n] = "opening"]
  /\ UNCHANGED <<sent, Account, Channels, Privacy, Work, tries>>
Opens(n) ==
  /\ socks[n] = "opening" /\ socks' = [socks EXCEPT ![n] = "open"]
  /\ UNCHANGED <<current, retry, sent, Account, Channels, Privacy, Work, tries>>
GivesUp ==
  /\ Tries /\ current # 0 /\ socks[current] = "opening"
  /\ current' = 0 /\ retry' = TRUE /\ socks' = [socks EXCEPT ![current] = "closing"]
  /\ UNCHANGED <<sent, Account, Channels, Privacy, Work>>
Drops(n) ==
  /\ Tries /\ Live(n) /\ socks' = [socks EXCEPT ![n] = "closing"]
  /\ UNCHANGED <<current, retry, sent, Account, Channels, Privacy, Work>>
Closes(n) ==
  /\ socks[n] = "closing" /\ socks' = [socks EXCEPT ![n] = "shut"]
  /\ IF Ours(n) THEN current' = 0 /\ retry' = TRUE ELSE UNCHANGED <<current, retry>>
  /\ UNCHANGED <<sent, Account, Channels, Privacy, Work, tries>>

(* The bridge hands on what somebody wrote, if someone listens; it may     *)
(* hand it on again.                                                       *)
Writes(e) ==
  /\ Connected /\ Len(sent) < MaxSent
  /\ sent' = Append(sent, e) /\ queue' = Append(queue, Len(sent) + 1)
  /\ UNCHANGED <<Line, Account, Channels, Privacy, step, seen, accepted, given, tries>>
HandsAgain(i) ==
  /\ Connected /\ Tries /\ queue' = Append(queue, i)
  /\ UNCHANGED <<sent, Line, Account, Channels, Privacy, step, seen, accepted, given>>

-----------------------------------------------------------------------------
(* The keeper writes the privacy file, or moves it away and back.          *)
KeeperWrites(text) ==
  /\ Tries /\ file' = [there |-> TRUE, text |-> text, read |-> FALSE]
  /\ UNCHANGED <<sent, Line, Account, Channels, lists, Work>>
KeeperMoves ==
  /\ Tries /\ file' = [file EXCEPT !.there = ~@]
  /\ UNCHANGED <<sent, Line, Account, Channels, lists, Work>>

(* reload: read when its mtime is another; what does not parse, or is not  *)
(* there, leaves the last good reading.                                    *)
Reads == file.there /\ ~file.read
Reread == IF Reads /\ file.text # "broken" THEN file.text ELSE lists
Mentions(e) == (e.mark = "mention" /\ uuid) \/ e.mark = "own"
Admit(e, listed) ==
  \/ e.chat = "dm"
  \/ /\ conf.allowed
     /\ IF conf.mode = "opt-out"
        THEN e.mark # "dot" /\ listed # "listed" /\ (listed = "none" => Mentions(e))
        ELSE listed = "listed" \/ e.mark = "dot" \/ Mentions(e)

-----------------------------------------------------------------------------
(* handleEnvelope.                                                         *)
Tell(c) == \/ tellings' = tellings \cup {<<c, "told">>} /\ UNCHANGED tries
           \/ Tries /\ tellings' = tellings \cup {<<c, "refused">>}
Give(i, under) ==
  \/ given' = Append(given, [env |-> i, under |-> under]) /\ UNCHANGED tries
  \/ Tries /\ UNCHANGED given
Done == queue' = Tail(queue) /\ step' = Idle
Dropped == Done /\ UNCHANGED <<given, tries>>

(* What the file says at the verdict: itself, if it can be read.           *)
Says == IF file.there /\ file.text # "broken" THEN file.text ELSE lists
Judges(i) ==
  LET e == sent[i] IN
  IF e.kind = "about" THEN
    /\ IF grant THEN Done /\ Give(i, "none") ELSE Dropped
    /\ UNCHANGED Privacy
  ELSE
    /\ IF e.chat = "dm" \/ ~conf.allowed THEN UNCHANGED Privacy
       ELSE lists' = Reread /\ file' = [file EXCEPT !.read = @ \/ Reads]
    /\ IF Admit(e, lists')
       THEN step' = [at |-> "fetching", under |-> Says] /\ UNCHANGED <<queue, given, tries>>
       ELSE Dropped

Begins ==
  /\ queue # <<>> /\ step.at = "none"
  /\ LET i == Head(queue)
         c == sent[i].chat
         new == i \notin Range(seen)
         kept == Append(seen, i)
     IN /\ seen' = IF ~new THEN seen ELSE IF Len(kept) > SeenCap THEN Tail(kept) ELSE kept
        /\ accepted' = IF new THEN Append(accepted, i) ELSE accepted
        /\ \/ (~new \/ ~grant) /\ Dropped /\ UNCHANGED <<chans, tellings, Privacy>>
           \/ /\ new /\ grant /\ c \notin chans /\ chans' = chans \cup {c} /\ Tell(c)
              /\ step' = [Idle EXCEPT !.at = "telling"] /\ UNCHANGED <<queue, given, Privacy>>
           \/ new /\ grant /\ c \in chans /\ Judges(i) /\ UNCHANGED <<chans, tellings>>
  /\ UNCHANGED <<sent, Line, Account, grant, openGroup>>
Told ==
  /\ step.at = "telling" /\ Judges(Head(queue))
  /\ UNCHANGED <<sent, Line, Account, Channels, seen, accepted>>
(* The attachments are there: into an open channel, or, if it is addressed *)
(* to the account, as a push.                                              *)
Forwards(e) ==
  grant /\ ((e.chat = "group" /\ openGroup) \/ e.chat = "dm" \/ (Mentions(e) /\ e.mark # "own"))
Fetched ==
  /\ step.at = "fetching"
  /\ LET i == Head(queue) IN
     IF Forwards(sent[i]) THEN Done /\ Give(i, step.under) ELSE Dropped
  /\ UNCHANGED <<sent, Line, Account, Channels, Privacy, seen, accepted>>

-----------------------------------------------------------------------------
(* The start: its own uuid, the socket, the grace, the account's groups.   *)
Learns ==
  /\ phase = "asking" /\ uuid' \in BOOLEAN /\ phase' = "grace"
  /\ current' = 1 /\ socks' = [socks EXCEPT ![1] = "opening"]
  /\ UNCHANGED <<conf, retry, sent, Channels, Privacy, Work, tries>>
GraceEnds ==
  /\ phase = "grace" /\ phase' = IF grant THEN "listing" ELSE "up"
  /\ UNCHANGED <<conf, uuid, sent, Line, Channels, Privacy, Work, tries>>
Lists ==
  /\ phase = "listing" /\ phase' = "up"
  /\ \/ chans' = chans \cup {"group"} /\ Tell("group")
     \/ Tries /\ UNCHANGED <<chans, tellings>>
  /\ UNCHANGED <<conf, uuid, sent, Line, grant, openGroup, Privacy, Work>>

Grants ==
  /\ ~grant /\ grant' = TRUE
  /\ UNCHANGED <<sent, Line, Account, chans, openGroup, tellings, Privacy, Work, tries>>
Narrows ==
  /\ grant /\ Tries /\ grant' = FALSE
  /\ UNCHANGED <<sent, Line, Account, chans, openGroup, tellings, Privacy, Work>>
OpensOrCloses ==
  /\ grant /\ Tries /\ "group" \in chans /\ openGroup' = ~openGroup
  /\ UNCHANGED <<sent, Line, Account, grant, chans, tellings, Privacy, Work>>

Next ==
  \/ Connects \/ GivesUp \/ \E n \in Socks : Opens(n) \/ Drops(n) \/ Closes(n)
  \/ \E e \in Envelopes : Writes(e)
  \/ \E i \in DOMAIN sent : HandsAgain(i)
  \/ \E t \in Texts : KeeperWrites(t)
  \/ KeeperMoves \/ Begins \/ Told \/ Fetched
  \/ Learns \/ GraceEnds \/ Lists \/ Grants \/ Narrows \/ OpensOrCloses
Spec == Init /\ [][Next]_signalVars

-----------------------------------------------------------------------------
(* One socket is live and it is the one in use; without one a retry comes. *)
OneSocket ==
  /\ \A n \in Socks : Live(n) => n = current
  /\ phase # "asking" => current # 0 \/ retry

(* The host gets an envelope again only once SeenCap others came between.  *)
HeardOnce == \A i, j \in DOMAIN accepted :
  i < j /\ accepted[i] = accepted[j] => Cardinality({accepted[k] : k \in i + 1 .. j - 1}) >= SeenCap

(* A group's message reaches the host by the file as it was when it was    *)
(* looked at, or, while that cannot be read, by the last good reading.     *)
Private == \A k \in DOMAIN given :
  LET e == sent[given[k].env] IN
  e.kind = "message" /\ e.chat = "group" =>
    /\ conf.allowed
    /\ conf.mode = "opt-out" =>
         e.mark # "dot" /\ given[k].under # "listed" /\ (given[k].under = "none" => Mentions(e))
    /\ conf.mode = "opt-in" => given[k].under = "listed" \/ e.mark = "dot" \/ Mentions(e)

(* What the host gets is of a channel it was told of, or refused to.       *)
KnownFirst == \A k \in DOMAIN given :
  \E how \in {"told", "refused"} : <<sent[given[k].env].chat, how>> \in tellings

Sound == OneSocket /\ HeardOnce /\ Private /\ KnownFirst

(* Violated.  privacy.mjs:16-17: a group that is not allowed "is never     *)
(* forwarded"; an edit, a deletion or a reaction in it is.                 *)
AllowedOnly == \A k \in DOMAIN given : sent[given[k].env].chat = "group" => conf.allowed

(* Violated.  server.mjs:7-9: when the policy is answered or the grace has *)
(* passed the account's groups are registered; a policy answered after the *)
(* grace registers none.                                                   *)
GroupsTold == phase = "up" /\ grant /\ tries = 0 => <<"group", "told">> \in tellings
=============================================================================
