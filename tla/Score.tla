------------------------------- MODULE Score --------------------------------
(***************************************************************************)
(* How a picture's strokes become a recording (inkfield-bridge): the       *)
(* bridge normalises a plan (render.js), composes it unit by unit on one   *)
(* timeline and validates what came out (lib/score.js); the dream worker   *)
(* has an older composer of its own (dream-worker/render.js), which checks *)
(* only the plan.  A stroke is a press, a run of samples and a release; a  *)
(* flow is a start and an end.  Coordinates are whether they lie on the    *)
(* canvas; colours, easings, curves and the random numbers are left out.   *)
(***************************************************************************)
EXTENDS Integers, Sequences, SequencesExt

CONSTANTS
  MaxPlan,     \* strokes in a plan: a bound
  MAX_STROKES, \* accepted in one
  Samples,      \* numbers of samples asked for
  Pauses,      \* pauses asked for after a stroke, in ms
  Updates      \* maxUpdates asked for through the raw door

VARIABLES
  composer,    \* "bridge" or "worker"
  stage,       \* "plan", "compose", "check", "accepted", "refused"
  plan,        \* the caller's strokes
  wholeFlow,   \* whether a flow over the whole canvas is asked for
  todo,       \* items still to be composed
  events, t, mouseCountStart,   \* the recording so far and where it stands
  door         \* raw fields by which the plan reached past what is checked

scoreVars == <<composer, stage, plan, wholeFlow, todo, events, t, mouseCountStart, door>>

MS_PER_FRAME == 16
MIN_STROKE_GAP_MS == 500
MIN_FLOW_MS == 1200
GapMs == 700             \* the pause when none is asked for
FlowMs == 1500
DefaultUpdates == 30
POINTS_MIN == 3
POINTS_MAX == 500
BrushModes == 1 .. 7
Broken == {4, 5}         \* drawn by no snapshot, which the worker knows
WorkerPoints == 55
Unasked == -1            \* nothing was asked for
NaN == -2                \* what arithmetic on a text gives

(* Arithmetic and comparison as the language does them.                    *)
Plus(a, b) == IF NaN \in {a, b} THEN NaN ELSE a + b
Larger(a, b) == IF NaN \in {a, b} THEN NaN ELSE IF a > b THEN a ELSE b
Before(a, b) == NaN \notin {a, b} /\ a < b
Since(a, b) == IF NaN \in {a, b} THEN NaN ELSE a - b

(* A stroke as a caller sends it: its brush by name or by the raw door,    *)
(* maxUpdates by the door only.                                            *)
Strokes == [visible : BOOLEAN, points : Samples, pause : Pauses \cup {Unasked}, brush : {1, 4, 9}, raw : BOOLEAN,
            updates : Updates \cup {Unasked, NaN}, flow : {Unasked, 0}]

Init ==
  /\ composer \in {"bridge", "worker"} /\ stage = "plan" /\ plan = <<>> /\ wholeFlow \in BOOLEAN
  /\ todo = <<>> /\ events = <<>> /\ t = 0 /\ mouseCountStart = 0 /\ door = {}

Adds(s) ==
  /\ stage = "plan" /\ Len(plan) < MaxPlan
  /\ composer = "worker" => s.updates = Unasked /\ s.flow = Unasked /\ ~s.raw /\ ~wholeFlow   \* fields it has not
  /\ s.raw => s.brush = 9
  /\ plan' = Append(plan, s)
  /\ UNCHANGED <<composer, stage, wholeFlow, todo, events, t, mouseCountStart, door>>

(* What each refuses of a plan: the bridge tests a brush asked for by      *)
(* name, the worker knows the two brushes no snapshot draws.               *)
Sized == plan # <<>> /\ Len(plan) <= MAX_STROKES /\ \E i \in DOMAIN plan : plan[i].visible
BridgeTakes == Sized /\ \A i \in DOMAIN plan : plan[i].raw \/ plan[i].brush \in BrushModes
WorkerTakes == Sized /\ \A i \in DOMAIN plan : plan[i].brush \notin Broken
Acceptable == IF composer = "bridge" THEN BridgeTakes ELSE WorkerTakes

(* normalizeStroke, normalizeFlow: the items the bridge makes of a stroke. *)
Clamped(n) == IF n < POINTS_MIN THEN POINTS_MIN ELSE IF n > POINTS_MAX THEN POINTS_MAX ELSE n
Flow(ms) == [kind |-> "flow", ms |-> ms]
normalizeStroke(s) ==
  <<[kind |-> "stroke", points |-> IF composer = "bridge" THEN Clamped(s.points) ELSE WorkerPoints,
     gap |-> IF s.pause = Unasked THEN GapMs ELSE s.pause, brush |-> s.brush, updates |-> s.updates]>>
  \o (IF s.flow = Unasked THEN <<>> ELSE <<Flow(s.flow)>>)
Normalizes ==
  /\ stage = "plan"
  /\ stage' = IF Acceptable THEN "compose" ELSE "refused"
  /\ todo' = IF Acceptable THEN FlattenSeq([i \in DOMAIN plan |-> normalizeStroke(plan[i])])
                                 \o (IF wholeFlow /\ composer = "bridge" THEN <<Flow(FlowMs)>> ELSE <<>>)
              ELSE todo
  /\ door' = UNION {(IF plan[i].raw THEN {"brush"} ELSE {}) \cup (IF plan[i].updates = NaN THEN {"text"} ELSE {}) : i \in DOMAIN plan}
  /\ UNCHANGED <<composer, plan, wholeFlow, events, t, mouseCountStart>>

(* composeScore, an item at a time; the worker pauses for as long as it is *)
(* told.  Of a run of samples the last stands for all.                     *)
strokeGapMs(updates) ==
  LET u == IF updates \in {Unasked, 0} THEN DefaultUpdates ELSE updates IN
    Larger(MIN_STROKE_GAP_MS, IF u = NaN THEN NaN ELSE u * MS_PER_FRAME)
Rest(item) == IF composer = "bridge" THEN Larger(item.gap, strokeGapMs(item.updates)) ELSE item.gap
ComposesStroke ==
  LET item == Head(todo) n == item.points end == Plus(t, (n + 1) * MS_PER_FRAME) IN
    /\ stage = "compose" /\ todo # <<>> /\ item.kind = "stroke"
    /\ events' = events \o
         << [m |-> "mp", t |-> t, mouse |-> mouseCountStart, brush |-> item.brush, updates |-> item.updates],
            [m |-> "md", t |-> Plus(t, n * MS_PER_FRAME), n |-> n], [m |-> "mr", t |-> end] >>
    /\ mouseCountStart' = mouseCountStart + 1 + n
    /\ t' = Plus(end, Rest(item)) /\ todo' = Tail(todo)
    /\ UNCHANGED <<composer, stage, plan, wholeFlow, door>>
ComposesFlow ==
  LET item == Head(todo) end == Plus(t, Larger(MIN_FLOW_MS, item.ms)) IN
    /\ stage = "compose" /\ todo # <<>> /\ item.kind = "flow"
    /\ events' = events \o << [m |-> "flow", t |-> t, action |-> "start"], [m |-> "flow", t |-> end, action |-> "end"] >>
    /\ t' = Plus(end, GapMs) /\ todo' = Tail(todo)
    /\ UNCHANGED <<composer, stage, plan, wholeFlow, mouseCountStart, door>>
Composed ==
  /\ stage = "compose" /\ todo = <<>>
  /\ stage' = IF composer = "bridge" THEN "check" ELSE "accepted"
  /\ UNCHANGED <<composer, plan, wholeFlow, todo, events, t, mouseCountStart, door>>

(* validateScore reads the events once; each may add an error.             *)
Reader == [errors |-> {}, drift |-> {}, up |-> Unasked, updates |-> Unasked, mcs |-> 0, run |-> 0, flow |-> Unasked]
Reads(r, e) ==
  CASE e.m = "mp" ->
         [r EXCEPT !.errors = @ \cup (IF e.brush \notin BrushModes THEN {"brush"} ELSE {})
                                \cup (IF r.up # Unasked /\ Before(Since(e.t, r.up), strokeGapMs(r.updates)) THEN {"gap"} ELSE {}),
                   !.drift = @ \cup (IF e.mouse # r.mcs THEN {"mouse"} ELSE {}), !.updates = e.updates, !.run = 0]
    [] e.m = "md" -> [r EXCEPT !.run = e.n]
    [] e.m = "mr" -> [r EXCEPT !.mcs = @ + 1 + r.run, !.up = e.t,
                               !.drift = @ \cup (IF r.run < POINTS_MIN THEN {"touch"} ELSE {})]
    [] e.m = "flow" /\ e.action = "start" -> [r EXCEPT !.flow = e.t]
    [] e.m = "flow" /\ e.action = "end" ->
         [r EXCEPT !.errors = @ \cup (IF r.flow = Unasked THEN {"flow"} ELSE {}), !.flow = Unasked,
                   !.drift = @ \cup (IF Before(Since(e.t, r.flow), MIN_FLOW_MS) THEN {"short"} ELSE {})]
Disordered(es) == \E i \in 2 .. Len(es) : Before(es[i].t, es[i - 1].t)
validateScore(es) ==
  LET r == FoldLeft(Reads, Reader, es) IN
    [errors |-> r.errors \cup (IF Disordered(es) THEN {"order"} ELSE {}) \cup (IF r.flow # Unasked THEN {"flow"} ELSE {}),
     drift |-> r.drift]
Validates ==
  /\ stage = "check"
  /\ stage' = IF validateScore(events).errors = {} THEN "accepted" ELSE "refused"
  /\ UNCHANGED <<composer, plan, wholeFlow, todo, events, t, mouseCountStart, door>>

Next ==
  \/ \E s \in Strokes : Adds(s)
  \/ Normalizes \/ ComposesStroke \/ ComposesFlow \/ Composed \/ Validates

-----------------------------------------------------------------------------
(* What plays: events follow one another; the ink of a stroke has dried    *)
(* for as long as its own updates take before the next is pressed, flows   *)
(* between them included; each stroke's count goes on where the last left  *)
(* it; a flow lasts.                                                       *)
Pressed(es) == SelectSeq(es, LAMBDA e : e.m = "mp")
Released(es) == SelectSeq(es, LAMBDA e : e.m = "mr")
Runs(es) == SelectSeq(es, LAMBDA e : e.m = "md")
Plays(es) ==
  /\ \A i, j \in DOMAIN es : i < j => NaN \notin {es[i].t, es[j].t} /\ es[i].t < es[j].t
  /\ LET ps == Pressed(es) rs == Released(es) ds == Runs(es) IN
       \A i \in 1 .. Len(ps) - 1 :
         /\ ps[i + 1].t - rs[i].t >= strokeGapMs(ps[i].updates)
         /\ ps[i + 1].mouse = ps[i].mouse + 1 + ds[i].n
  /\ \A i \in DOMAIN es : es[i].m = "flow" /\ es[i].action = "start" => es[i + 1].t - es[i].t >= MIN_FLOW_MS

(* What the bridge composes of a plan that stays within what it checks is  *)
(* never refused by the validator, nor remarked on ("gaps/order are the    *)
(* composer's own"): and it plays, some of it on the canvas.               *)
ComposedStands ==
  composer = "bridge" => /\ stage = "refused" /\ events # <<>> => door # {}
                         /\ stage = "accepted" /\ "text" \notin door =>
                              Plays(events) /\ validateScore(events).drift = {}
(* The validator lets through nothing but what plays or has a text for a   *)
(* number.                                                                 *)
RefusalsStand == stage = "check" /\ ~Plays(events) => "text" \in door \/ validateScore(events).errors # {}
(* The worker keeps order and counts, whatever pauses it is told.          *)
WorkerCounts ==
  composer = "worker" => LET ps == Pressed(events) ds == Runs(events) IN
    \A i \in 1 .. Len(ps) - 1 : ps[i + 1].mouse = ps[i].mouse + 1 + ds[i].n /\ ps[i].t < ps[i + 1].t
ScoreSound == ComposedStands /\ RefusalsStand /\ WorkerCounts

(* Violated: a text for maxUpdates makes every later time no number, which *)
(* no comparison of the validator finds ("errors are what breaks           *)
(* playback").                                                             *)
AcceptedPlays == composer = "bridge" /\ stage = "accepted" => Plays(events)
(* Violated: the worker does not keep the pause that ink needs, which the  *)
(* bridge's composer says every recording must have.                       *)
WorkerPlays == composer = "worker" /\ stage = "accepted" => Plays(events)
=============================================================================
