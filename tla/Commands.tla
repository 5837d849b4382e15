------------------------------ MODULE Commands ------------------------------
(***************************************************************************)
(* What people set with `!` lines in one room of several beings, and what  *)
(* the beings' next turns then go by.  Every being has a seat of its own   *)
(* on the platform and every seat gets the line: it runs it as it comes    *)
(* in (commands/), and when its promise chain comes to it, records it, if  *)
(* no other seat has, applies what is left of it and answers.  Settings    *)
(* are kept in memory, lost with the process, or in files.  A hush, which  *)
(* keeps a being out of what no person starts, is set by a keeper's line   *)
(* or by a being's own tool.  The families of settings share nothing: a    *)
(* behaviour is about one.  Wordings are left out but for whether there    *)
(* was anything to undo.                                                   *)
(***************************************************************************)
EXTENDS Naturals, Sequences, FiniteSets

CONSTANTS
  Beings,      \* each with a seat
  MaxLines, MaxTicks, MaxStops, MaxStarts,   \* bounds
  Minutes      \* of the longest hush, in ticks

VARIABLES
  topic,       \* the family this behaviour is about: never changes
  memory,      \* memory tier: key -> value, 0 is unset
  disk,        \* room, being and secret files: the same
  hush,        \* [left, by, age] of each being: ticks left, who set it, since when
  lines,       \* lines posted: [order, to, keeper, due, ran, recorded]: seats it is due to
  chain,       \* each seat's lines still to be recorded: [line, undid]
  asked,       \* what was last asked for: [roll, room, own, prompt, kept, secret]
  decree,      \* ticks left of what a keeper ordered
  undone,      \* the lines that had something to undo
  crossed,     \* keys last written by a seat that ran a line behind the others
  ticks, stops, starts,   \* counts
  commandGhosts           \* what went wrong so far

commandVars == <<topic, memory, disk, hush, lines, chain, asked, decree, undone, crossed, ticks, stops, starts, commandGhosts>>
settings == <<memory, disk, asked, undone, crossed>>
counts == <<ticks, stops, starts>>

Values == {1, 2}
Unset == 0
Room == {"room"}             \* "*", the scope of a line that names no being
NoHush == [left |-> 0, by |-> "nobody", age |-> 0]
Keys == {"rr", "secret"} \cup (Beings \cup Room)
NothingAsked == [roll |-> Unset, own |-> [x \in Beings \cup Room |-> Unset], prompt |-> [b \in Beings |-> Unset],
                 kept |-> [b \in Beings |-> Unset], secret |-> Unset]

Init ==
  /\ topic \in {"rr", "mcf", "h-default", "sysprompt", "secret", "stop"}
  /\ memory = [k \in Keys |-> Unset] /\ disk = [k \in Keys |-> Unset]
  /\ hush = [b \in Beings |-> NoHush] /\ lines = <<>> /\ chain = [s \in Beings |-> <<>>]
  /\ asked = NothingAsked /\ decree = [b \in Beings |-> 0] /\ undone = {} /\ crossed = {}
  /\ ticks = 0 /\ stops = 0 /\ starts = 0 /\ commandGhosts = {}

-----------------------------------------------------------------------------
(* A line: what it sets, and of whom (commandLane): of the beings it       *)
(* names, or of no one in particular.  A seat whose being is not among     *)
(* those named leaves it.                                                  *)
Orders ==
  CASE topic = "rr" -> {[set |-> "value", value |-> v] : v \in Values}
    [] topic \in {"mcf", "h-default"} -> {[set |-> "value", value |-> v] : v \in Values} \cup {[set |-> "reset", value |-> Unset]}
    [] topic = "sysprompt" ->
         {[set |-> m, value |-> v] : m \in {"temp", "override"}, v \in Values} \cup {[set |-> "reset", value |-> Unset]}
    [] topic = "secret" -> {[set |-> "value", value |-> 1], [set |-> "reset", value |-> Unset]}
    [] topic = "stop" -> {[set |-> "hush", value |-> m] : m \in {0, Minutes}}   \* without minutes it sets nothing
Names == IF topic \in {"rr", "secret"} THEN {{}} ELSE SUBSET Beings
ForKeepers(o) == topic = "secret" \/ o.set = "hush"
Says(o, to, keeper) ==
  /\ Len(lines) < MaxLines
  /\ keeper \/ (ForKeepers(o) /\ to = {})       \* who says it matters only there
  /\ lines' = Append(lines, [order |-> o, to |-> to, keeper |-> keeper,
       due |-> IF to = {} THEN Beings ELSE to, ran |-> FALSE, recorded |-> FALSE])
  /\ UNCHANGED <<topic, settings, hush, chain, decree, counts, commandGhosts>>

(* runOnce and `validate`: a line for keepers is refused to others, one    *)
(* that needs a name and has none is answered with the beings' names.      *)
Refused(l) ==
  \/ ForKeepers(l.order) /\ ~l.keeper
  \/ l.to = {} /\ topic \in {"h-default", "sysprompt"}
Scope(l) == IF l.to = {} THEN IF topic \in {"rr", "secret"} THEN {topic} ELSE Room ELSE l.to

(* `run`, once for each being named: which tiers a setting is written to.  *)
InMemory == topic \in {"rr", "mcf", "sysprompt"}
OnDiskButReset(l) == topic \in {"h-default", "secret"} \/ (topic = "sysprompt" /\ l.order.set = "override")
OnDisk(l) == topic \in {"h-default", "secret"} \/ (topic = "sysprompt" /\ l.order.set \in {"override", "reset"})
Written(tier, l) == [k \in Keys |-> IF k \in Scope(l) THEN l.order.value ELSE tier[k]]
HadOne(l) ==   \* what "!mcf reset" and "!secret delete" answer with
  l.order.set = "reset" /\ \E k \in Scope(l) : IF topic = "mcf" THEN memory[k] # Unset ELSE topic = "secret" /\ disk[k] # Unset

(* What the line asks for, to one who knows nothing of tiers.              *)
Asked(l) ==
  CASE topic = "rr" -> [asked EXCEPT !.roll = l.order.value]
    [] topic \in {"mcf", "h-default"} -> [asked EXCEPT !.own = [x \in Beings \cup Room |-> IF x \in Scope(l) THEN l.order.value ELSE @[x]]]
    [] topic = "sysprompt" ->
         [asked EXCEPT !.prompt = [b \in Beings |-> IF b \in l.to THEN l.order.value ELSE @[b]],
                       !.kept = [b \in Beings |-> IF b \in l.to /\ l.order.set # "temp" THEN l.order.value ELSE @[b]]]
    [] topic = "secret" -> [asked EXCEPT !.secret = l.order.value]

(* A seat reads its connection in order, and may miss what comes while it  *)
(* is down.  What a line asks for is asked when it is run, unless one      *)
(* posted after it has been: then its seat is behind the others.           *)
NextFor(s) == {n \in DOMAIN lines : s \in lines[n].due /\ \A m \in 1 .. n - 1 : s \notin lines[m].due}
Behind(n) == \E m \in n + 1 .. Len(lines) : lines[m].ran
Runs(s, n) ==
  LET l == lines[n]
      sets == ~Refused(l) /\ topic # "stop"
      undid == sets /\ HadOne(l) IN
    /\ n \in NextFor(s) /\ lines' = [lines EXCEPT ![n].due = @ \ {s}, ![n].ran = TRUE]
    /\ memory' = IF sets /\ InMemory THEN Written(memory, l) ELSE memory
    /\ disk' = IF sets /\ OnDisk(l) THEN Written(disk, l) ELSE disk
    /\ chain' = [chain EXCEPT ![s] = Append(@, [line |-> n, undid |-> undid])]
    /\ asked' = IF sets /\ ~Behind(n) THEN Asked(l) ELSE asked
    /\ crossed' = IF ~sets THEN crossed ELSE IF Behind(n) THEN crossed \cup Scope(l)
                  ELSE IF l.order.set = "temp" THEN crossed ELSE crossed \ Scope(l)
    /\ undone' = IF undid /\ ~l.ran THEN undone \cup {n} ELSE undone
    /\ UNCHANGED <<topic, hush, decree, counts, commandGhosts>>
Misses(s, n) ==
  /\ n \in NextFor(s) /\ lines' = [lines EXCEPT ![n].due = @ \ {s}]
  /\ UNCHANGED <<topic, settings, hush, chain, decree, counts, commandGhosts>>

(* applyCommandAction, when the seat's chain comes to the line: the first  *)
(* to record it applies its hush, to the beings it names or to those with  *)
(* a turn in flight, and answers with what its own run of it found.        *)
Quietened(T, m) ==
  /\ hush' = [b \in Beings |-> IF b \notin T THEN hush[b] ELSE IF m = 0 THEN NoHush
                               ELSE [left |-> m, by |-> "keeper", age |-> 0]]
  /\ decree' = [b \in Beings |-> IF b \in T THEN m ELSE decree[b]]
Duplicate(s) ==
  /\ chain[s] # <<>> /\ lines[Head(chain[s]).line].recorded
  /\ chain' = [chain EXCEPT ![s] = Tail(@)]
  /\ UNCHANGED <<topic, settings, hush, lines, decree, counts, commandGhosts>>
Records(s, busy) ==
  /\ chain[s] # <<>>
  /\ LET n == Head(chain[s]).line l == lines[n] IN
       /\ ~l.recorded /\ lines' = [lines EXCEPT ![n].recorded = TRUE]
       /\ IF l.order.set = "hush" /\ ~Refused(l)
          THEN Quietened(IF l.to = {} THEN busy ELSE l.to, l.order.value)
          ELSE UNCHANGED <<hush, decree>>
       /\ commandGhosts' = IF Head(chain[s]).undid = (n \in undone) THEN commandGhosts
                           ELSE commandGhosts \cup {<<"untrue">>}
  /\ chain' = [chain EXCEPT ![s] = Tail(@)]
  /\ UNCHANGED <<topic, settings, counts>>

(* stop_being: a being hushes another, unless that one is hushed already   *)
(* or was by a being a while ago, or itself, whatever is in force.  (With  *)
(* no minutes its turn is stopped, which sets nothing.)                    *)
StopsBeing(caller, b, m) ==
  /\ topic = "stop" /\ stops < MaxStops /\ stops' = stops + 1
  /\ b # caller => hush[b].left = 0 /\ (hush[b].by \in Beings => hush[b].age >= Minutes)
  /\ hush' = [hush EXCEPT ![b] = [left |-> m, by |-> caller, age |-> 0]]
  /\ commandGhosts' = commandGhosts \cup (IF m < decree[b] THEN {<<"self", caller, b>>} ELSE {})
  /\ UNCHANGED <<topic, settings, lines, chain, decree, ticks, starts>>

Tick ==
  /\ topic = "stop" /\ ticks < MaxTicks /\ ticks' = ticks + 1
  /\ \E b \in Beings : hush[b] # NoHush
  /\ hush' = [b \in Beings |-> IF hush[b] = NoHush THEN NoHush
       ELSE [hush[b] EXCEPT !.left = IF @ > 0 THEN @ - 1 ELSE 0, !.age = IF @ < Minutes THEN @ + 1 ELSE @]]
  /\ decree' = [b \in Beings |-> IF decree[b] > 0 THEN decree[b] - 1 ELSE 0]
  /\ UNCHANGED <<topic, settings, lines, chain, stops, starts, commandGhosts>>

(* The process starts anew: memory and what was on the chains is gone.     *)
Restart ==
  /\ starts < MaxStarts /\ starts' = starts + 1
  /\ memory' = [k \in Keys |-> Unset] /\ chain' = [s \in Beings |-> <<>>]
  /\ asked' = IF topic \in {"rr", "mcf"} THEN NothingAsked ELSE [asked EXCEPT !.prompt = asked.kept]
  /\ crossed' = IF topic \in {"rr", "mcf"} THEN {} ELSE crossed
  /\ UNCHANGED <<topic, disk, undone, hush, lines, decree, ticks, stops, commandGhosts>>

Next ==
  \/ \E o \in Orders, to \in Names, keeper \in BOOLEAN : Says(o, to, keeper)
  \/ \E s \in Beings, n \in DOMAIN lines : Runs(s, n) \/ Misses(s, n)
  \/ \E s \in Beings : Duplicate(s) \/ \E busy \in SUBSET Beings : Records(s, busy)
  \/ \E caller, b \in Beings, m \in 1 .. Minutes : StopsBeing(caller, b, m)
  \/ Tick \/ Restart

-----------------------------------------------------------------------------
(* What the beings' turns go by: mcfBudget takes a being's own limit, then *)
(* the room's; covenantExcerpt the prompt in memory, then the file's.      *)
mcfBudget(tier, b) == IF tier[b] # Unset THEN tier[b] ELSE tier["room"]
systemPrompt(b) == IF memory[b] # Unset THEN memory[b] ELSE disk[b]
Used(b) ==
  CASE topic = "rr" -> memory["rr"]
    [] topic = "mcf" -> mcfBudget(memory, b)
    [] topic = "h-default" -> disk[b]
    [] topic = "sysprompt" -> systemPrompt(b)
    [] topic = "secret" -> disk["secret"]
    [] topic = "stop" -> Unset
AskedOf(b) ==
  CASE topic = "rr" -> asked.roll
    [] topic = "mcf" -> mcfBudget(asked.own, b)
    [] topic = "h-default" -> asked.own[b]
    [] topic = "sysprompt" -> asked.prompt[b]
    [] topic = "secret" -> asked.secret
    [] topic = "stop" -> Unset
Keyed(b) == {b} \cup (IF topic = "mcf" THEN Room ELSE IF topic \in {"rr", "secret"} THEN {topic} ELSE {})

(* A being goes by what was last asked for, whatever the tiers it went     *)
(* through, the seats that ran the line again and a restart, which forgets *)
(* what was not kept: unless a seat behind the others wrote it last.       *)
LastAskedInForce == \A b \in Beings : Keyed(b) \cap crossed = {} => Used(b) = AskedOf(b)
(* A keeper's hush is in force for as long as ordered, through a restart,  *)
(* unless the being has stopped itself since for a shorter time; none is   *)
(* longer than one order.                                                  *)
HushAsOrdered ==
  \A b \in Beings : /\ hush[b].left <= Minutes
                    /\ hush[b].left < decree[b] => <<"self", b, b>> \in commandGhosts
CommandsSound == LastAskedInForce /\ HushAsOrdered

(* Violated: a seat runs a line as it routes it, before knowing whether    *)
(* another recorded it, so one behind the others undoes a newer setting    *)
(* ("only the one that recorded it applies it").                           *)
AppliedByOneSeat == crossed = {}
(* Violated: the seat that answers need not be the one whose run found     *)
(* something to undo: "not found", of a secret it was asked to delete.     *)
RepliesTrue == <<"untrue">> \notin commandGhosts
(* Violated: stopping itself for less, a being lifts a keeper's hush early *)
(* ("only a keeper can lift it early").                                    *)
KeepersHushHolds == \A b \in Beings : hush[b].left >= decree[b]
=============================================================================
