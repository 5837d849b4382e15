------------------------------ MODULE Dispatch ------------------------------
(***************************************************************************)
(* Who is woken by what is posted in one room of several beings, and the   *)
(* fence that ends a loop of bots.  Every being has an account and a seat  *)
(* of its own on the platform; every seat gets every post but its own      *)
(* account's.  A seat decides at once, as a post arrives (routeIncoming),  *)
(* and applies the decision when its promise chain comes to it (roomInput):*)
(* what was read may have changed by then, and of the seats only the one   *)
(* that records the post begins turns.  Accounts: people, bots the         *)
(* platform flags, an outsider nothing flags, the beings.  What a being    *)
(* says may come back through another being's seat unrecognised.           *)
(***************************************************************************)
EXTENDS Naturals, FiniteSets, Sequences

CONSTANTS
  Beings,      \* the room's beings, each with a seat; numbers from 1, in roster order
  Budget,      \* HOUSE_BOT_CHAIN_MAX
  TurnMax,     \* HOUSE_BEING_TURN_MAX
  ToFlag,      \* FAST_REPLIES_TO_FLAG
  MaxPosts,    \* bound: posts some seat has still to apply
  MaxHuman     \* bound: posts that pass for a person's

VARIABLES
  botChain, atSpeech, turnsOf,  \* room-chain: the chain, chainAtSpeech, turns
  fast, marked, spoken,      \* the outsider's run of fast replies; marked as an AI; the beings in `speech`
  hushed,                    \* the beings hushed in this room
  busy,                      \* the beings with a turn in flight
  posts,                     \* what the platform delivers, until every seat applied it
  humans,                    \* posts so far that pass for a person's
  roomKind                   \* the room's, and how its covenants roll: never changes

dispatchVars == <<botChain, atSpeech, turnsOf, fast, marked, spoken, hushed, busy, posts, humans, roomKind>>

Silent == Budget + 1         \* chainAtSpeech has no entry
Nobody == 0
Unrouted == {Nobody}        \* no decision yet
Least(S) == CHOOSE x \in S : \A y \in S : x <= y
Upto(n, top) == IF n > top THEN top ELSE n

Init ==
  /\ botChain = 0 /\ atSpeech = [b \in Beings |-> Silent] /\ turnsOf = [b \in Beings |-> 0]
  /\ fast = 0 /\ marked = FALSE /\ spoken = {} /\ hushed = {} /\ busy = {} /\ posts = <<>> /\ humans = 0
  /\ roomKind \in {"dice", "lottery"}

-----------------------------------------------------------------------------
(* Posts.  pace is how fast a reply of the outsider's is: only one that is *)
(* long enough and answers what a being said is judged; "late" is fast but *)
(* past the window of the run before it.  A command, `!stop` or a keeper's *)
(* `!stop <minutes>`, names its being; its record says nothing of its      *)
(* sender's kind, so that a bot's passes for a person's.                   *)
Post(kind, by, to, pace) ==
  [kind |-> kind, by |-> by, to |-> to, pace |-> pace, recorded |-> FALSE, woke |-> {},
   plan |-> [s \in Beings |-> Unrouted],
   done |-> IF by \in Beings THEN {by}                     \* chat:from-self
            ELSE IF pace = "stop" THEN Beings \ {to} ELSE {}]   \* command-for-other

(* The posts some seat has still to apply; the rest go as the next comes.  *)
Pending == {i \in 1 .. Len(posts) : posts[i].done # Beings}
Nth(S, k) == CHOOSE i \in S : Cardinality({j \in S : j <= i}) = k
Arrives(p) ==
  /\ Cardinality(Pending) < MaxPosts
  /\ posts' = Append([k \in 1 .. Cardinality(Pending) |-> posts[Nth(Pending, k)]], p)
RoomState == <<botChain, atSpeech, turnsOf, fast, marked, spoken, hushed, busy>>

PersonPosts ==
  /\ humans < MaxHuman /\ humans' = humans + 1
  /\ \/ \E to \in Beings \cup {Nobody} : Arrives(Post("person", Nobody, to, "unjudged"))
     \/ \E to \in Beings, kind \in {"person", "bot"} : Arrives(Post(kind, Nobody, to, "stop"))
     \/ \E to \in Beings \cup {Nobody}, pace \in {"unjudged", "slow", "late"} :
          Arrives(Post("outsider", Nobody, to, pace))
  /\ UNCHANGED <<RoomState, roomKind>>

BotPosts ==
  /\ \/ \E to \in Beings \cup {Nobody} : Arrives(Post("bot", Nobody, to, "unjudged"))
     \/ \E to \in spoken : Arrives(Post("outsider", Nobody, to, "fast"))
  /\ UNCHANGED <<RoomState, humans, roomKind>>

-----------------------------------------------------------------------------
(* Mutation of NonHuman: only what the platform flags is a bot.            *)
FlaggedOnly(p) == p.kind \in {"being", "bot"}

(* fromBeing: flagged by the platform, a being of the house, or marked.    *)
NonHuman(p) == p.kind \in {"being", "bot"} \/ (p.kind = "outsider" /\ marked)

(* chainFor: of a being, the chain before its latest speech.               *)
ChainFor(by) == IF by \in Beings /\ atSpeech[by] # Silent THEN atSpeech[by] ELSE botChain

(* nonHumanBlock: hush, the being's own cap, the chain's budget.           *)
Blocked(p, b) == NonHuman(p) /\ (b \in hushed \/ turnsOf[b] >= TurnMax \/ ChainFor(p.by) >= Budget)

(* Past addressing: who may win the roll.  In a lottery one draw is made   *)
(* for the room, for the first who is eligible, and none when someone is   *)
(* addressed.                                                              *)
MayRoll(p, b) == p.to # b /\ ~Blocked(p, b) /\ b \notin hushed
Eligible(p) == {b \in Beings \ {p.by} : b \notin hushed}
Rolls(p) ==
  IF roomKind = "lottery"
  THEN {{}} \cup {{b} : b \in {x \in Eligible(p) :
                     p.to = Nobody /\ x = Least(Eligible(p)) /\ MayRoll(p, x)}}
  ELSE SUBSET {b \in Beings \ {p.by} : MayRoll(p, b)}

(* A mention or a reply.                                                   *)
Addressed(p) == {b \in Beings \ {p.by} : p.to = b /\ ~Blocked(p, b)}

(* routeIncoming: what a seat decides, before anything is recorded.  A     *)
(* command is recorded with nobody to answer it; what is decided of a post *)
(* another seat has recorded is of no effect.                              *)
Decisions(p) == IF p.pace = "stop" THEN {{}} ELSE {Addressed(p) \cup r : r \in Rolls(p)}

(* Mutation of Duplicate: every seat records.                              *)
NeverDuplicate(p) == FALSE

(* externalAlreadyRecorded.                                                *)
Duplicate(p) == p.recorded

Arrived(s, p) == s \notin p.done /\ p.plan[s] = Unrouted

Routes(s) ==
  /\ \E i \in 1 .. Len(posts) :
       /\ Arrived(s, posts[i]) /\ \A j \in 1 .. i - 1 : ~Arrived(s, posts[j])
       /\ \E who \in IF Duplicate(posts[i]) THEN {{}} ELSE Decisions(posts[i]) : posts' = [posts EXCEPT ![i].plan[s] = who]
  /\ UNCHANGED <<RoomState, humans, roomKind>>

-----------------------------------------------------------------------------
(* notePossibleAI: only of an outsider not marked yet.                     *)
Judged(p) == p.kind = "outsider" /\ ~marked /\ p.to \in spoken /\ p.pace # "unjudged"
RunAfter(p) ==
  CASE p.pace = "fast" -> fast + 1 [] p.pace = "late" -> 1 [] OTHER -> 0
Marks(p) == Judged(p) /\ RunAfter(p) >= ToFlag

(* noteChainMessage and noteMessage: a person's post starts the room over, *)
(* a bot's counts, a being's own counted when it spoke.                    *)
Notes(p) ==
  /\ marked' = (marked \/ Marks(p))
  /\ fast' = IF ~Judged(p) THEN fast ELSE IF Marks(p) THEN 0 ELSE RunAfter(p)
  /\ IF Marks(p) \/ (NonHuman(p) /\ ~(p.kind = "bot" /\ p.pace = "stop"))
     THEN /\ botChain' = IF p.kind = "being" THEN botChain ELSE Upto(botChain + 1, Budget)
          /\ UNCHANGED <<atSpeech, turnsOf>>
     ELSE /\ botChain' = 0
          /\ atSpeech' = [b \in Beings |-> Silent] /\ turnsOf' = [b \in Beings |-> 0]

(* roomInput, by the first seat that comes to the post: it is recorded,    *)
(* and each target that has a seat and no turn begins one (`away` have no  *)
(* seat).                                                                  *)
InputApplied(p, s, away) ==
  /\ ~Duplicate(p) /\ p.pace # "stop"
  /\ busy' = busy \cup (p.plan[s] \ away)
  /\ Notes(p) /\ UNCHANGED <<hushed, spoken>>

(* By a command the being it names is interrupted, and perhaps hushed.     *)
CommandApplied(p) ==
  /\ ~Duplicate(p) /\ p.pace = "stop"
  /\ busy' = busy \ {p.to}
  /\ hushed' \in {hushed, hushed \cup {p.to}}
  /\ Notes(p) /\ UNCHANGED spoken

(* A seat's chain comes to the first post it has not applied.              *)
Applies(s) ==
  \E i \in 1 .. Len(posts) :
    LET p == posts[i]
        Handled(woken) == [posts EXCEPT ![i].done = @ \cup {s},
                             ![i].recorded = TRUE, ![i].woke = @ \cup woken]
    IN /\ s \notin p.done /\ p.plan[s] # Unrouted
       /\ \A j \in 1 .. i - 1 : s \in posts[j].done
       /\ \/ Duplicate(p) /\ posts' = Handled({}) /\ UNCHANGED RoomState
          \/ CommandApplied(p) /\ posts' = Handled({})
          \/ \E away \in SUBSET p.plan[s] :
               InputApplied(p, s, away) /\ posts' = Handled(p.plan[s] \ (busy \cup away))
       /\ UNCHANGED <<humans, roomKind>>

(* A turn ends with something said (noteBeingSpeech), which may come back  *)
(* unrecognised, or with nothing.                                          *)
Speaks(b) ==
  /\ b \in busy /\ busy' = busy \ {b}
  /\ atSpeech' = [atSpeech EXCEPT ![b] = botChain]
  /\ botChain' = Upto(botChain + 1, Budget)
  /\ turnsOf' = [turnsOf EXCEPT ![b] = Upto(@ + 1, TurnMax)]
  /\ spoken' = spoken \cup {b}
  /\ \/ UNCHANGED posts
     \/ \E to \in Beings \cup {Nobody} : Arrives(Post("being", b, to, "unjudged"))
  /\ UNCHANGED <<fast, marked, hushed, humans, roomKind>>

EndsSilent(b) ==
  /\ b \in busy /\ busy' = busy \ {b}
  /\ UNCHANGED <<botChain, atSpeech, turnsOf, fast, marked, spoken, hushed, posts, humans, roomKind>>

(* The minutes of a hush are over, or `!stop 0`.                           *)
HushLifts(b) ==
  /\ b \in hushed /\ hushed' = hushed \ {b}
  /\ UNCHANGED <<botChain, atSpeech, turnsOf, fast, marked, spoken, busy, posts, humans, roomKind>>

Next ==
  \/ PersonPosts \/ BotPosts
  \/ \E b \in Beings : Routes(b) \/ Applies(b) \/ Speaks(b) \/ EndsSilent(b) \/ HushLifts(b)

(* A turn ends: the walker's SlotsComeFree.                                *)
Fairness == \A b \in Beings : WF_dispatchVars(Speaks(b) \/ EndsSilent(b))
Spec == Init /\ [][Next]_dispatchVars /\ Fairness

-----------------------------------------------------------------------------
(* No being is woken by its own words, and of a lottery one being wins     *)
(* over all the seats that rolled.                                         *)
Sound ==
  \A i \in 1 .. Len(posts) :
    LET p == posts[i] IN
      /\ p.by \notin p.woke
      /\ roomKind = "lottery" /\ p.to = Nobody => Cardinality(p.woke) <= 1

(* Bots may go on posting for ever, and a being's own words come back: in  *)
(* the end, with no person posting, no being has a turn.                   *)
LoopsEnd == <>[](busy = {})

(* Each being's cap as dispatch.mjs:163 has it: "stops answering non-human *)
(* traffic until a human speaks".  A decision waits for its seat's chain,  *)
(* and the being may reach its cap meanwhile.                              *)
StopsAtCap == [][\A b \in busy' \ busy : turnsOf'[b] < TurnMax]_dispatchVars
=============================================================================
