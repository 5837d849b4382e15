------------------------------ MODULE RecordSeq ------------------------------
(***************************************************************************)
(* How a room's record numbers its frames.  Two writers share frames.jsonl *)
(* without sharing a counter: the house reads the last number back from    *)
(* the file and takes one between it and the next integer; a turn takes    *)
(* integers from `rec._turnSeq`, set from the file when a turn begins.     *)
(* Readers come back by number: the conversation a being is shown runs on  *)
(* from the number its life holds last.                                    *)
(*                                                                         *)
(* A number is kept as <<int, half>>: int itself when half is 0, else      *)
(* int + 1 - 2^-half, which is what halving the gap to the next integer    *)
(* `half` times gives.  A double runs out of bits: past Precision halvings *)
(* (52 less the bits of int) the sum rounds to the next integer.           *)
(***************************************************************************)
EXTENDS Naturals, Sequences, FiniteSets

CONSTANTS
  Beings,
  Precision,
  MaxFrames, MaxCalls      \* bounds of the instance

ASSUME RecordSeqAssumption ==
  /\ Precision \in Nat \ {0}
  /\ MaxFrames \in Nat /\ MaxCalls \in Nat

VARIABLES
  file,     \* frames.jsonl
  loaded,   \* the room is in `open`
  counter,  \* rec._turnSeq; Unset is the undefined it starts as
  turns,    \* the beings with a turn in flight
  calls,    \* tool calls handleToolExec is awaiting
  base      \* history: how long the file was when `counter` was last set

vars == <<file, loaded, counter, turns, calls, base>>

Numbers == Nat \X Nat
Below(a, b) == a[1] < b[1] \/ (a[1] = b[1] /\ a[2] < b[2])
Whole(n) == <<n, 0>>
Unset == 0       \* no counter is: the first integer a turn takes is 1

(* `long`: the frame's line alone is more than lastFrameInfo's 8192 bytes. *)
(* `numbered`: the frame has a seq.  `base` is history: the file's length  *)
(* when the counter that numbered a live frame was set, 0 on the others.   *)
Frame == [kind : {"house", "live", "rested", "joined"}, seq : Numbers,
          numbered : BOOLEAN, long : BOOLEAN, base : Nat]

FrameOf(kind, seq, numbered, long, from) ==
  [kind |-> kind, seq |-> seq, numbered |-> numbered, long |-> long, base |-> from]

HouseFrame(seq, long) == FrameOf("house", seq, TRUE, long, 0)
TurnFrame(n, long, from) == FrameOf("live", Whole(n), TRUE, long, from)
RestedFrame(seq) == FrameOf("rested", seq, TRUE, FALSE, 0)
JoinedFrame == FrameOf("joined", Whole(0), FALSE, FALSE, 0)

LastFrame == file[Len(file)]

(* lastFrameInfo: a last frame longer than the tail it reads, and one with *)
(* no seq, both read as 0.                                                 *)
LastFrameInfo == IF LastFrame.long \/ ~LastFrame.numbered THEN Whole(0) ELSE LastFrame.seq

(* Mutation of HouseFrameSeq: a fraction is given another half.            *)
HalfMore == IF LastFrameInfo[2] = 0 THEN <<LastFrameInfo[1], 1>>
            ELSE Whole(LastFrameInfo[1] + 1)

HouseFrameSeq ==
  LET last == LastFrameInfo
  IN  IF last[2] < Precision THEN <<last[1], last[2] + 1>> ELSE Whole(last[1] + 1)

(* Mutation of Resynced: the last number itself, not the next integer.     *)
ResyncedToLast == LastFrameInfo[1]

Resynced == LastFrameInfo[1] + 1    \* resyncTurnSeq

(* openTrace's room.mounted.                                               *)
Init ==
  /\ file = << HouseFrame(Whole(0), FALSE) >>
  /\ loaded = TRUE
  /\ counter = Unset
  /\ turns = {}
  /\ calls = 0
  /\ base = 0

MayWrite == Len(file) < MaxFrames     \* bound

-----------------------------------------------------------------------------
(* A frame of the house's own: a message to the room, a receipt, media.    *)
AppendHouseFrame(long) ==
  /\ MayWrite
  /\ file' = Append(file, HouseFrame(HouseFrameSeq, long))
  /\ UNCHANGED <<loaded, counter, turns, calls, base>>

(* A frame of a turn: speech, reach, result, aborted, notice.  The counter *)
(* is read from the file when nothing has set it yet.                      *)
NextNumber == IF counter = Unset THEN Resynced ELSE counter
NextBase == IF counter = Unset THEN Len(file) ELSE base

AppendTurnFrame(long) ==
  /\ MayWrite
  /\ file' = Append(file, TurnFrame(NextNumber, long, NextBase))
  /\ counter' = NextNumber + 1
  /\ base' = NextBase

BeginTurn(b) ==
  /\ loaded /\ b \notin turns
  /\ turns' = turns \cup {b}
  /\ counter' = Resynced
  /\ base' = Len(file)
  /\ UNCHANGED <<file, loaded, calls>>

(* beginTurn throws before it has set the counter: closeTurn's aborted     *)
(* frame takes the counter as it stands.                                   *)
BeginTurnFails(b) ==
  /\ loaded /\ b \notin turns
  /\ AppendTurnFrame(FALSE)
  /\ UNCHANGED <<loaded, turns, calls>>

Speak(b, long) ==
  /\ b \in turns
  /\ AppendTurnFrame(long)
  /\ UNCHANGED <<loaded, turns, calls>>

(* The reach frame of a call the house then awaits, and its result.        *)
ToolExec(b) ==
  /\ b \in turns /\ calls < MaxCalls
  /\ calls' = calls + 1
  /\ AppendTurnFrame(FALSE)
  /\ UNCHANGED <<loaded, turns>>

ToolReturns(long) ==
  /\ calls > 0
  /\ calls' = calls - 1
  /\ AppendTurnFrame(long)
  /\ UNCHANGED <<loaded, turns>>

(* A turn ends with its last word or without one.                          *)
CloseTurn(b, spoke, long) ==
  /\ b \in turns
  /\ turns' = turns \ {b}
  /\ IF spoke THEN AppendTurnFrame(long) ELSE ~long /\ UNCHANGED <<file, counter, base>>
  /\ UNCHANGED <<loaded, calls>>

(* restRoom: reads the whole file, adds one to the number of its last      *)
(* frame, and looks at no turn.                                            *)
RestSeq == IF LastFrame.numbered THEN <<LastFrame.seq[1] + 1, LastFrame.seq[2]>>
           ELSE Whole(0)

RestRoom ==
  /\ loaded /\ MayWrite
  /\ file' = Append(file, RestedFrame(RestSeq))
  /\ UNCHANGED <<loaded, counter, turns, calls, base>>

-----------------------------------------------------------------------------
(* The process dies; ensureRegistered loads the room again when something  *)
(* asks for it.  Until then addParticipant writes to the file itself.      *)
Restart ==
  /\ loaded' = FALSE
  /\ counter' = Unset
  /\ turns' = {} /\ calls' = 0
  /\ base' = 0
  /\ UNCHANGED file

EnsureRegistered ==
  /\ ~loaded
  /\ loaded' = TRUE
  /\ UNCHANGED <<file, counter, turns, calls, base>>

AddParticipant ==
  /\ ~loaded /\ MayWrite
  /\ file' = Append(file, JoinedFrame)
  /\ UNCHANGED <<loaded, counter, turns, calls, base>>

Next ==
  \/ \E long \in BOOLEAN : AppendHouseFrame(long) \/ ToolReturns(long)
  \/ \E b \in Beings :
       \/ BeginTurn(b)
       \/ BeginTurnFails(b)
       \/ ToolExec(b)
       \/ \E long \in BOOLEAN : Speak(b, long)
       \/ \E spoke, long \in BOOLEAN : CloseTurn(b, spoke, long)
  \/ RestRoom
  \/ Restart
  \/ EnsureRegistered
  \/ AddParticipant

Spec == Init /\ [][Next]_vars

-----------------------------------------------------------------------------
TypeOK ==
  /\ file \in Seq(Frame) /\ file # <<>>
  /\ loaded \in BOOLEAN
  /\ counter \in Nat
  /\ turns \subseteq Beings
  /\ calls \in Nat
  /\ base \in Nat

(* What the numbering depends on, up to frame n: no frame too long for the *)
(* tail that is read, none without a number, no run of house frames that   *)
(* uses up a double, and no rest between a turn's frame and the reading    *)
(* its number came from.                                                   *)
Readable(f) == f.numbered /\ ~f.long /\ f.seq[2] < Precision

Sound(n) ==
  /\ \A i \in 1 .. n : Readable(file[i])
  /\ \A i, j \in 1 .. n :
       file[i].kind = "rested" /\ file[j].kind = "live" /\ i < j => i <= file[j].base

(* As far as those hold the record's numbers ascend, whoever wrote which   *)
(* frame and whatever restarted between: no two frames share a number.     *)
(* (houseFrameSeq against resyncTurnSeq and appendTurnFrame.)              *)
NumbersAscend ==
  \A n \in 1 .. Len(file) :
    Sound(n) => \A i, j \in 1 .. n : i < j => Below(file[i].seq, file[j].seq)

(* The lines of the first n frames renderConversation takes for held by a  *)
(* life whose through_seq is `seq`.                                        *)
Held(seq, n) == {j \in 1 .. n : file[j].numbered /\ ~Below(seq, file[j].seq)}

LastOf(S) == IF S = {} THEN 0 ELSE CHOOSE j \in S : \A k \in S : k <= j

(* renderConversation's `from`.                                            *)
StartsAfter(seq, n) == LastOf(Held(seq, n))

(* The conversation a being is shown starts right behind the last line its *)
(* life holds, whichever that is: nothing is skipped, nothing comes twice. *)
ConversationRunsOn ==
  \A n \in 1 .. Len(file) :
    Sound(n) => \A i \in 1 .. n : StartsAfter(file[i].seq, n) = i

(* While every number can be read back and no rest came between, the       *)
(* turns' counter stands above every number in the file: a late result, or *)
(* a second being's turn, takes a number nobody has.                       *)
CounterIsFree ==
  counter # Unset /\ Sound(Len(file))
  /\ (\A i \in base + 1 .. Len(file) : file[i].kind # "rested")
    => \A i \in 1 .. Len(file) : Below(file[i].seq, Whole(counter))

(* frames-io.mjs:110: the last frame's seq comes "from a frames.jsonl TAIL *)
(* read", which room-turn.mjs:98 relies on to "resync from the record's    *)
(* current tail" so that a turn's frames take "the next free integer": one *)
(* no frame before has.  A frame longer than that tail breaks it, in a     *)
(* room that never rests.                                                  *)
NextFreeAfterResync ==
  (\A i \in 1 .. Len(file) : file[i].kind # "rested") =>
    \A i, j \in 1 .. Len(file) :
      i < j /\ file[j].kind = "live" => file[i].seq # file[j].seq
=============================================================================
