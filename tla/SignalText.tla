------------------------------ MODULE SignalText ------------------------------
(* The text of what is sent to Signal (mcpl-signal's outbound.mjs): a text *)
(* is cut into pieces, a step for each turn of splitMessage's loop; the    *)
(* names in a piece become mentions, a step for each pass over it.  The    *)
(* two are separate behaviours of one module.                              *)
EXTENDS Integers, Sequences, FiniteSetsExt, SequencesExt

CONSTANTS MaxText, Limits,   \* of a text to be cut; the lengths it is cut at
          MaxItems           \* of a text with names

VARIABLES
  text, limit,    \* what there is to cut
  rest, pieces,   \* "remaining", "out"
  items,          \* a text with names, as it stands: what is not yet replaced
  marks,          \* mentions: [item, start]
  pass            \* passes yet to come over the items

textVars == <<text, limit, rest, pieces, items, marks, pass>>

(* A letter, a full stop, a space, a line's end.                           *)
Chars == {"x", ".", "s", "n"}
Blank(c) == c \in {"s", "n"}
Texts == UNION {[1 .. k -> Chars] : k \in 1 .. MaxText}
(* A space, two names a being may have written, the house's own token.     *)
Items == {" ", "@Al", "@Bobby", "<@id>"}
Names == <<"<@id>", "@Bobby", "@Al">>   \* the passes: tokens, then names, the longer first
Width(i) == CASE i = "@Al" -> 3 [] i = "@Bobby" -> 6 [] i = "<@id>" -> 5
              [] OTHER -> 1   \* a space, the placeholder

Init ==
  \/ /\ text \in Texts /\ limit \in Limits /\ rest = text /\ pieces = <<>>
     /\ \E i \in DOMAIN text : ~Blank(text[i])
     /\ items = <<>> /\ marks = {} /\ pass = 4
  \/ /\ text = <<>> /\ limit = 0 /\ rest = <<>> /\ pieces = <<>>
     /\ items \in UNION {[1 .. k -> Items] : k \in 1 .. MaxItems} /\ marks = {} /\ pass = 1

-----------------------------------------------------------------------------
TrimEnd(s) == SubSeq(s, 1, Max({0} \cup {i \in DOMAIN s : ~Blank(s[i])}))
TrimStart(s) == SubSeq(s, Min({Len(s) + 1} \cup {i \in DOMAIN s : ~Blank(s[i])}), Len(s))

(* lastIndexOf(sep, from), which may begin at from itself.                 *)
LastAt(sep, from) == Max({-1} \cup {i \in 0 .. from :
                             i + Len(sep) <= Len(rest) /\ SubSeq(rest, i + 1, i + Len(sep)) = sep})
Sentences == {i + 2 : i \in {k \in {LastAt(<<".", c>>, limit - 2) : c \in {"s", "n"}} :
                             10 * k > 3 * limit}}
Line == LastAt(<<"n">>, limit)
Space == LastAt(<<"s">>, limit)
CutAt ==
  LET para == LastAt(<<"n", "n">>, limit) IN
  CASE 2 * para > limit -> para + 2
    [] OTHER -> IF Sentences # {} THEN Max(Sentences)
                ELSE IF 10 * Line > 3 * limit THEN Line + 1
                ELSE IF 10 * Space > 3 * limit THEN Space + 1 ELSE limit

Piece(s) == TrimEnd(s)
Cuts ==
  /\ Len(rest) > limit
  /\ LET p == Piece(SubSeq(rest, 1, CutAt)) IN
       pieces' = IF p # <<>> THEN Append(pieces, p) ELSE pieces
  /\ rest' = TrimStart(SubSeq(rest, CutAt + 1, Len(rest)))
  /\ UNCHANGED <<text, limit, items, marks, pass>>
Ends ==
  /\ rest # <<>> /\ Len(rest) <= limit
  /\ pieces' = Append(pieces, rest) /\ rest' = <<>>
  /\ UNCHANGED <<text, limit, items, marks, pass>>

(* A pass lays down a placeholder for each of its names and notes where it *)
(* then is; a name is one if a blank or nothing comes after it.            *)
Offset(s, i) == FoldLeft(LAMBDA n, x : n + Width(x), 0, SubSeq(s, 1, i - 1))
AloneAt(i) == i = Len(items) \/ items[i + 1] = " "
Passes ==
  /\ pass <= 3 /\ pass' = pass + 1
  /\ LET mine == {i \in DOMAIN items : items[i] = Names[pass] /\ (pass = 1 \/ AloneAt(i))}
         after == [i \in DOMAIN items |-> IF i \in mine THEN "mark" ELSE items[i]]
     IN /\ items' = after
        /\ marks' = marks \cup {[item |-> i, start |-> Offset(after, i), of |-> Names[pass]] : i \in mine}
  /\ UNCHANGED <<text, limit, rest, pieces>>

Next == Cuts \/ Ends \/ Passes
Spec == Init /\ [][Next]_textVars

-----------------------------------------------------------------------------
Unblank(s) == SelectSeq(s, LAMBDA c : ~Blank(c))
(* A piece is within the limit and not blank, and begins and ends with     *)
(* what is not; nothing but blanks is lost, and nothing is put elsewhere.  *)
Whole ==
  /\ \A k \in DOMAIN pieces : LET p == pieces[k] IN
       Len(p) \in 1 .. limit /\ (k > 1 => ~Blank(p[1])) /\ (rest # <<>> => ~Blank(p[Len(p)]))
  /\ Unblank(FlattenSeq(pieces)) \o Unblank(rest) = Unblank(text)

(* A mention is where it says, unless a name that stands before it was     *)
(* replaced after it.                                                      *)
Points(m) == m.start = Offset(items, m.item)
PointsUnlessLater ==
  \A m \in marks : (\A k \in marks : k.item < m.item => Points(k) /\ k.of = m.of) => Points(m)

Sound == Whole /\ PointsUnlessLater

(* Violated.  outbound.mjs:5-6: a name becomes "U+FFFC at a UTF-16 offset  *)
(* + {start, length: 1, author}"; a shorter name, or any name before one   *)
(* of the house's tokens, moves what was replaced before it.               *)
MentionsPoint == pass = 4 => \A m \in marks : Points(m)
=============================================================================
