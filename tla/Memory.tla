------------------------------- MODULE Memory -------------------------------
(***************************************************************************)
(* What a turn is given of a being's life (resident-life compileBudgeted   *)
(* and bareMemory, life-entries hydrateWithin, room-turn renderLifeExcerpt *)
(* and life-fit).  The store is compiled to the covenant's budget, at a    *)
(* narrower tail if it must and bare if even that is too much; excerpts    *)
(* are given back their text while that fits; and a turn that finds the    *)
(* file too big, for a covenant changed since, sets old lines aside.  A    *)
(* message is its length in characters and the tool call it is a half of;  *)
(* four characters are a token, rounded up, as the code counts.            *)
(***************************************************************************)
EXTENDS Integers, Sequences, FiniteSets, SequencesExt, FiniteSetsExt

CONSTANTS
  LifeBudgets,  \* life_budget_tokens a covenant may give
  LineLengths,  \* of a line stored whole, in characters
  EXCERPT,      \* of a line stored as an excerpt
  FullLengths,  \* of such a line, once it is restored
  TAIL,         \* the configured verbatim tail, in lines; the floor is one
  MaxStored, MaxCovenants   \* bounds: lived lines, changes of the covenant

VARIABLES
  store,     \* what was lived, behind the address head
  covered,   \* how many of the oldest of these lines summaries cover
  covenant,  \* [budget, window]: whether it names the model's real window
  life,      \* the compiled file: [messages, budget, rung, capped]
  covenants

memoryVars == <<store, covered, covenant, life, covenants>>

(* kind: "head", "fold" (a summary), "said" (it has a ref), "use" and      *)
(* "result" (halves of a tool call, without ref), "gap" (the house's own   *)
(* marker).  age is the line's number in the store, of a half its call's.  *)
Line(kind, len, full, age) == [kind |-> kind, len |-> len, full |-> full, age |-> age]
Address == Line("head", 4, 4, 0)
Fold == Line("fold", 4, 4, 0)
Gap == Line("gap", 4, 4, 0)

Tokens(chars) == (chars + 3) \div 4
Chars(ms) == FoldLeft(LAMBDA n, m : n + m.len, 0, ms)
(* roughTokens of an array: its brackets and commas count.                 *)
Rough(ms) == Tokens(2 + Chars(ms) + (IF ms = <<>> THEN 0 ELSE Len(ms) - 1))
(* The trunk's share of the whole budget, 0.75.                            *)
Trunk(c) == (c.budget * 3) \div 4

Init ==
  /\ store = <<>> /\ covered = 0
  /\ covenant \in [budget : LifeBudgets, window : BOOLEAN]
  /\ life = [messages |-> <<>>, budget |-> Trunk(covenant), rung |-> "none", capped |-> FALSE]
  /\ covenants = 0

-----------------------------------------------------------------------------
(* What is lived: a line, kept whole or as an excerpt, or a tool's call    *)
(* and its result; a drain's fold covers older lines with a summary.       *)
Says(n, full) ==
  /\ Len(store) < MaxStored /\ store' = Append(store, Line("said", n, full, Len(store) + 1))
  /\ UNCHANGED <<covered, covenant, life, covenants>>
Uses(n) ==
  /\ Len(store) + 1 < MaxStored
  /\ LET call == Len(store) + 1 IN store' = store \o <<Line("use", 4, 4, call), Line("result", n, n, call)>>
  /\ UNCHANGED <<covered, covenant, life, covenants>>
Folds ==
  /\ \E k \in covered + 1 .. Len(store) : store[k].kind # "use" /\ covered' = k
  /\ UNCHANGED <<store, covenant, life, covenants>>
CovenantChanges(c) ==
  /\ covenants < MaxCovenants /\ c # covenant /\ covenant' = c /\ covenants' = covenants + 1
  /\ UNCHANGED <<store, covered, life>>

-----------------------------------------------------------------------------
(* cm.compile, of the library: the head, a summary for what is covered     *)
(* outside the tail, the rest verbatim, the two halves of a call together. *)
Outside(tail) == Min({covered, Max({0, Len(store) - tail})})
Cut(tail) == LET k == Outside(tail) IN IF k > 0 /\ store[k].kind = "use" THEN k - 1 ELSE k
Compiled(tail) ==
  <<Address>> \o (IF Cut(tail) > 0 THEN <<Fold>> ELSE <<>>) \o SubSeq(store, Cut(tail) + 1, Len(store))
Fitting(budget) == {t \in {TAIL, TAIL \div 2, 1} : Rough(Compiled(t)) <= budget}

(* A half of a call is kept only with the other half.                      *)
Whole(ms) ==
  LET Kinds(m) == {n.kind : n \in {x \in Range(ms) : x.age = m.age}}
  IN SelectSeq(ms, LAMBDA m : m.kind \in {"use", "result"} => {"use", "result"} \subseteq Kinds(m))

(* bareMemory: the newest line, and before it what still fits.             *)
Weight(ms) == FoldLeft(LAMBDA n, m : n + Tokens(m.len), 0, ms)
Newest(n) == SubSeq(store, Len(store) - n + 1, Len(store))
Bare(budget) ==
  LET Used(n) == Tokens(Address.len) + Weight(Newest(n))
      n == Max({0} \cup {k \in DOMAIN store : k = 1 \/ Used(k) <= budget})
  IN Whole((IF Used(n) <= budget THEN <<Address>> ELSE <<>>) \o Newest(n))

(* hydrateTail gives every line its text back; hydrateWithin, newest       *)
(* first, each whole, up to the first that does not fit.                   *)
Restored(m) == [m EXCEPT !.len = m.full]
HydrateTail(ms) == [i \in DOMAIN ms |-> Restored(ms[i])]
Restoring(ms, max, s, i) ==
  LET grown == s.used - Rough(<<ms[i]>>) + Rough(<<Restored(ms[i])>>)
  IN CASE s.full \/ ms[i].kind # "said" -> s
       [] grown > max -> [s EXCEPT !.full = TRUE]
       [] OTHER -> [s EXCEPT !.used = grown, !.out[i] = Restored(ms[i])]
HydrateWithin(ms, max) ==
  FoldRight(LAMBDA i, s : Restoring(ms, max, s, i), [i \in DOMAIN ms |-> i],
            [out |-> ms, used |-> Rough(ms), full |-> FALSE]).out

(* compileFor: at the configured tail, a narrower one, or bare.            *)
Ladder(budget) ==
  IF Fitting(budget) # {} THEN Compiled(Max(Fitting(budget))) ELSE Bare(budget)
Rung(budget) == IF Fitting(budget) = {} THEN "bare" ELSE IF TAIL \in Fitting(budget) THEN "whole" ELSE "tail"
CompileFor ==
  /\ LET budget == Trunk(covenant) IN
       life' = [budget |-> budget, rung |-> Rung(budget), capped |-> covenant.window,
                messages |-> IF covenant.window THEN HydrateWithin(Ladder(budget), budget)
                             ELSE HydrateTail(Ladder(budget))]
  /\ UNCHANGED <<store, covered, covenant, covenants>>

-----------------------------------------------------------------------------
(* lifeFit's limit, where the covenant names the window; and fitLife: the  *)
(* oldest lines with a ref are set aside, then the others, but neither the *)
(* address nor the newest, then halves; the marker stands in the gap.      *)
Over(ms) == covenant.window /\ Rough(ms) > covenant.budget
Spare(ms) == SelectSeq([i \in 1 .. Len(ms) - 1 |-> i], LAMBDA i : ms[i].kind # "head")
Order(ms) == SelectSeq(Spare(ms), LAMBDA i : ms[i].kind = "said")
             \o SelectSeq(Spare(ms), LAMBDA i : ms[i].kind # "said")
Dropping(ms, limit, s, i) ==
  IF s.used > limit THEN [used |-> s.used - Rough(<<ms[i]>>), gone |-> s.gone \cup {i}] ELSE s
Gone(ms, limit) ==
  FoldLeft(LAMBDA s, i : Dropping(ms, limit, s, i),
           [used |-> Rough(ms) + Rough(<<Gap>>), gone |-> {}], Order(ms)).gone
Kept(ms, limit) ==
  LET at == SelectSeq([i \in DOMAIN ms |-> i], LAMBDA i : i \notin Gone(ms, limit))
  IN Whole([i \in DOMAIN at |-> ms[at[i]]])
FitLife(ms, limit) ==
  LET kept == Kept(ms, limit)
      IsHead(m) == m.kind = "head"
  IN IF Len(kept) = Len(ms) THEN ms
     ELSE SelectSeq(kept, IsHead) \o <<Gap>> \o SelectSeq(kept, LAMBDA m : ~IsHead(m))

(* renderLifeExcerpt: what a turn that begins now is given.  It changes    *)
(* nothing; the recompile it asks for is a CompileFor to come.             *)
Fitted == Over(life.messages)
RenderLifeExcerpt == IF Fitted THEN FitLife(life.messages, covenant.budget) ELSE life.messages

Next ==
  \/ \E n \in LineLengths : Says(n, n) \/ Uses(n)
  \/ \E n \in FullLengths : Says(EXCERPT, n)
  \/ Folds
  \/ \E c \in [budget : LifeBudgets, window : BOOLEAN] : CovenantChanges(c)
  \/ CompileFor
Spec == Init /\ [][Next]_memoryVars

-----------------------------------------------------------------------------
Given == RenderLifeExcerpt
Dropped == Range(life.messages) \ Range(Given)
Lines(ms) == {m \in Range(ms) : m.kind = "said"}
(* No half of a call is ever in a request: the provider refuses it.        *)
PairsWhole == \A m \in Range(Given) : m.kind \in {"use", "result"} =>
  \A k \in {"use", "result"} : \E n \in Range(Given) : n.kind = k /\ n.age = m.age
(* What was said last is given, however much of the rest is set aside.     *)
PresentKept ==
  (life.messages # <<>> /\ Last(life.messages).kind = "said") => Last(Given) = Last(life.messages)
(* Text is given back to a newest stretch, the older lines keep excerpts;  *)
(* and what is compiled for a window stays within the budget, but for what *)
(* rounding each line up adds.                                             *)
IsRestored(m) == m.len = m.full /\ m.full \in FullLengths
NewestVerbatim == \A i, j \in DOMAIN life.messages :
  (i < j /\ life.messages[j].len < life.messages[j].full) => ~IsRestored(life.messages[i])
WithinBudget ==
  (life.capped /\ life.rung # "bare") =>
    Rough(life.messages) <= life.budget + Cardinality({m \in Range(life.messages) : IsRestored(m)})
(* What is set aside goes in the order the code names: older lines before  *)
(* newer, and a summary or a call only when no line is left to go; and     *)
(* then it fits, but for rounding, or nothing is left to go.               *)
SetAsideInOrder ==
  Fitted => \A m \in Dropped : \A n \in Lines(Given) :
    IF m.kind = "said" THEN m.age < n.age ELSE n = Last(life.messages)
FitsNearly ==
  Fitted => \/ Rough(Given) <= covenant.budget + Cardinality(Dropped)
            \/ \A i \in 1 .. Len(Given) - 1 : Given[i].kind \in {"head", "gap"}
MemorySound ==
  PairsWhole /\ PresentKept /\ NewestVerbatim /\ WithinBudget /\ SetAsideInOrder /\ FitsNearly

(* "drops ... until messages fits limit" (life-fit.mjs).                   *)
FitsLimit == (Fitted /\ \E m \in Range(Given) : m.kind \notin {"head", "gap"} /\ m # Last(Given)) =>
  Rough(Given) <= covenant.budget
(* "never empty while the store holds anything lived" (resident-life.mjs). *)
NeverEmpty == life.rung = "bare" => \E m \in Range(life.messages) : m.kind # "head"
=============================================================================
