--------------------------- MODULE RoomTurnsProofs ---------------------------
(***************************************************************************)
(* What RoomTurns guarantees for any rooms, beings and bounds: its types,  *)
(* that promises match open turns, that a turn whose seat is lost has a    *)
(* timer and one whose seat came back keeps its turn, that the record      *)
(* agrees with what the promises resolved to, that a tool call is answered *)
(* once, and that a step touches one being.                                *)
(***************************************************************************)
EXTENDS RoomTurns, SequenceTheorems, FiniteSetTheorems, TLAPS

-----------------------------------------------------------------------------
(* Frames and folds stay well typed.                                       *)

(* What appendTurnFrame writes is a frame.                                 *)
LEMMA FrameIsTyped ==
  ASSUME NEW type \in FrameTypes, NEW b \in Beings, NEW t \in 0 .. MaxTurns,
         NEW what \in Segments \cup {NoSegment}, NEW of \in Nat
  PROVE  FrameOf(type, b, t, what, of) \in Frame
  BY DEF FrameOf, Frame

(* So is a frame with no text and no call.                                 *)
LEMMA PlainIsTyped ==
  ASSUME NEW type \in FrameTypes, NEW b \in Beings, NEW t \in 0 .. MaxTurns
  PROVE  Plain(type, b, t) \in Frame
  BY FrameIsTyped DEF Plain

(* What flushPendingFinal writes is at most one frame.                     *)
LEMMA FlushedIsTyped ==
  ASSUME NEW b \in Beings, NEW turn \in Turn, NEW type \in FrameTypes
  PROVE  Flushed(b, turn, type) \in Seq(Frame)
<1>1. turn.id \in 0 .. MaxTurns /\ turn.pending \in Segments \cup {NoSegment}
  BY DEF Turn
<1>2. FrameOf(type, b, turn.id, turn.pending, 0) \in Frame
  BY <1>1, FrameIsTyped
<1> QED
  BY <1>2 DEF Flushed

(* The turn it leaves is a turn, with the same id and mark.                *)
LEMMA AfterFlushIsTyped ==
  ASSUME NEW turn \in Turn
  PROVE  /\ AfterFlush(turn) \in Turn
         /\ AfterFlush(turn).id = turn.id
         /\ AfterFlush(turn).lost = turn.lost
  BY DEF AfterFlush, Turn

(* The turn beginTurn opens is a turn that waits for nobody.               *)
LEMMA NewTurnIsTyped ==
  ASSUME NEW t \in 0 .. MaxTurns
  PROVE  /\ NewTurn(t) \in Turn
         /\ NewTurn(t).id = t
         /\ NewTurn(t).lost = 0
  BY RoomTurnsAssumption DEF NewTurn, Turn

(* No turn at all has id 0 and no mark.                                    *)
LEMMA NoTurnIsTyped == NoTurn \in Turn /\ NoTurn.id = 0 /\ NoTurn.lost = 0
  BY NewTurnIsTyped, RoomTurnsAssumption DEF NoTurn

(* One turn replaced, one room's record extended.                          *)
LEMMA TurnReplaced ==
  ASSUME TypeOK, NEW r \in Rooms, NEW b \in Beings, NEW new \in Turn
  PROVE  [turns EXCEPT ![r][b] = new] \in [Rooms -> [Beings -> Turn]]
  BY DEF TypeOK

(* The record of one room is extended, the others stay.                    *)
LEMMA RecordExtended ==
  ASSUME TypeOK, NEW r \in Rooms, NEW more \in Seq(Frame)
  PROVE  [record EXCEPT ![r] = @ \o more] \in [Rooms -> Seq(Frame)]
<1>1. record[r] \in Seq(Frame)
  BY DEF TypeOK
<1>2. record[r] \o more \in Seq(Frame)
  BY <1>1
<1> QED
  BY <1>2 DEF TypeOK

(* One frame is a sequence of frames.                                      *)
LEMMA OneFrame ==
  ASSUME NEW f \in Frame
  PROVE  << f >> \in Seq(Frame)
  OBVIOUS

(* What closeTurn writes for a turn that ends badly are frames.            *)
LEMMA AbandonedIsTyped ==
  ASSUME TypeOK, NEW r \in Rooms, NEW b \in Beings
  PROVE  Abandoned(r, b) \in Seq(Frame)
<1>1. turns[r][b].id \in 0 .. MaxTurns
  BY DEF TypeOK, Turn
<1>2. "aborted" \in FrameTypes
  BY DEF FrameTypes
<1> QED
  BY <1>1, <1>2, PlainIsTyped, OneFrame DEF Abandoned

(* What closing a turn does to the variables it touches.                   *)
LEMMA CloseTurnIsTyped ==
  ASSUME TypeOK, NEW r \in Rooms, NEW b \in Beings,
         NEW kind \in {"error", "aborted"}, NEW more \in Seq(Frame),
         CloseTurn(r, b, kind, more)
  PROVE  /\ turns' \in [Rooms -> [Beings -> Turn]]
         /\ outcome' \in [TurnIds -> Outcomes]
         /\ record' \in [Rooms -> Seq(Frame)]
<1>1. turns' \in [Rooms -> [Beings -> Turn]]
  BY NoTurnIsTyped, TurnReplaced DEF CloseTurn
<1>2. outcome' \in [TurnIds -> Outcomes]
  BY DEF CloseTurn, TypeOK, Outcomes
<1>3. record[r] \in Seq(Frame) /\ Abandoned(r, b) \in Seq(Frame)
  BY AbandonedIsTyped DEF TypeOK
<1>4. record[r] \o Abandoned(r, b) \o more \in Seq(Frame)
  BY <1>3
<1>5. record' \in [Rooms -> Seq(Frame)]
  BY <1>4 DEF CloseTurn, TypeOK
<1> QED
  BY <1>1, <1>2, <1>5

(* A house that has just started has its types.                            *)
LEMMA InitTypeOK == Init => TypeOK
<1> SUFFICES ASSUME Init PROVE TypeOK
  OBVIOUS
<1> USE RoomTurnsAssumption DEF Init
<1>1. turns \in [Rooms -> [Beings -> Turn]]
  BY NoTurnIsTyped
<1>2. outcome \in [TurnIds -> Outcomes]
  BY DEF Outcomes
<1>3. record \in [Rooms -> Seq(Frame)]
  OBVIOUS
<1>4. now \in 1 .. MaxNow /\ issued \in 0 .. MaxTurns
  OBVIOUS
<1> QED
  BY <1>1, <1>2, <1>3, <1>4 DEF TypeOK

-----------------------------------------------------------------------------
(* Type correctness, one lemma for each group of actions.                  *)

(* beginTurn, !stop and !steer keep the types.                             *)
LEMMA HouseTypeOK ==
  ASSUME TypeOK, NEW r \in Rooms, NEW b \in Beings, FromHouse(r, b)
  PROVE  TypeOK'
<1> USE RoomTurnsAssumption
<1>1. CASE BeginTurn(r, b)
  <2>1. issued + 1 \in TurnIds
    BY <1>1 DEF BeginTurn, TypeOK, TurnIds
  <2>2. NewTurn(issued + 1) \in Turn
    BY <2>1, NewTurnIsTyped DEF TurnIds
  <2>3. turns' \in [Rooms -> [Beings -> Turn]]
    BY <1>1, <2>2, TurnReplaced DEF BeginTurn
  <2>4. outcome' \in [TurnIds -> Outcomes]
    BY <1>1, <2>1 DEF BeginTurn, TypeOK, Outcomes
  <2>5. issued' \in 0 .. MaxTurns
    BY <1>1, <2>1 DEF BeginTurn, TurnIds
  <2>6. UNCHANGED <<process, seats, graceTimers, running, record, armed, idle, wakes,
                    now, crashes>>
    BY <1>1 DEF BeginTurn
  <2> QED
    BY <2>3, <2>4, <2>5, <2>6 DEF TypeOK
<1>2. CASE BeginTurnFails(r, b)
  <2>1. issued + 1 \in TurnIds
    BY <1>2 DEF BeginTurnFails, TypeOK, TurnIds
  <2>2. outcome' \in [TurnIds -> Outcomes]
    BY <1>2, <2>1 DEF BeginTurnFails, TypeOK, Outcomes
  <2>3. Plain("aborted", b, issued + 1) \in Frame
    BY <2>1, PlainIsTyped DEF TurnIds, FrameTypes
  <2>4. Append(record[r], Plain("aborted", b, issued + 1)) \in Seq(Frame)
    BY <2>3 DEF TypeOK
  <2>5. record' \in [Rooms -> Seq(Frame)]
    BY <1>2, <2>4 DEF BeginTurnFails, TypeOK
  <2> QED
    BY <1>2, <2>1, <2>2, <2>5 DEF BeginTurnFails, TypeOK, TurnIds
<1>3. CASE ApplyInterrupt(r, b)
  <2>1. Plain("notice", b, turns[r][b].id) \in Frame
    BY PlainIsTyped DEF TypeOK, Turn, FrameTypes
  <2>2. << Plain("notice", b, turns[r][b].id) >> \in Seq(Frame)
    BY <2>1, OneFrame
  <2>3. /\ turns' \in [Rooms -> [Beings -> Turn]]
        /\ outcome' \in [TurnIds -> Outcomes]
        /\ record' \in [Rooms -> Seq(Frame)]
    BY <1>3, <2>2, CloseTurnIsTyped DEF ApplyInterrupt
  <2> QED
    BY <1>3, <2>3 DEF ApplyInterrupt, TypeOK
<1>4. CASE ApplySteer(r, b)
  <2>1. Plain("message", b, turns[r][b].id) \in Frame
    BY PlainIsTyped DEF TypeOK, Turn, FrameTypes
  <2>2. Append(record[r], Plain("message", b, turns[r][b].id)) \in Seq(Frame)
    BY <2>1 DEF TypeOK
  <2>3. record' \in [Rooms -> Seq(Frame)]
    BY <1>4, <2>2 DEF ApplySteer, TypeOK
  <2> QED
    BY <1>4, <2>3 DEF ApplySteer, TypeOK, house
<1> QED
  BY <1>1, <1>2, <1>3, <1>4 DEF FromHouse

(* A turn and its room's record after its held segment is written.         *)
LEMMA FoldIsTyped ==
  ASSUME TypeOK, NEW r \in Rooms, NEW b \in Beings, NEW more \in Seq(Frame),
         NEW type \in FrameTypes
  PROVE  /\ record[r] \o Flushed(b, turns[r][b], type) \in Seq(Frame)
         /\ record[r] \o Flushed(b, turns[r][b], type) \o more \in Seq(Frame)
         /\ Len(record[r]) + Len(Flushed(b, turns[r][b], type)) + 1 \in Nat
<1>1. turns[r][b] \in Turn /\ record[r] \in Seq(Frame)
  BY DEF TypeOK
<1>2. Flushed(b, turns[r][b], type) \in Seq(Frame)
  BY <1>1, FlushedIsTyped
<1>3. record[r] \o Flushed(b, turns[r][b], type) \in Seq(Frame)
  BY <1>1, <1>2
<1>4. record[r] \o Flushed(b, turns[r][b], type) \o more \in Seq(Frame)
  BY <1>3
<1>5. Len(record[r]) \in Nat /\ Len(Flushed(b, turns[r][b], type)) \in Nat
  BY <1>1, <1>2
<1>6. \A m, n \in Nat : m + n + 1 \in Nat
  OBVIOUS
<1>7. Len(record[r]) + Len(Flushed(b, turns[r][b], type)) + 1 \in Nat
  BY <1>5, <1>6, Zenon
<1> QED
  BY <1>3, <1>4, <1>7

(* What a being sends keeps the types.                                     *)
LEMMA BeingTypeOK ==
  ASSUME TypeOK, NEW r \in Rooms, NEW b \in Beings, NEW t \in TurnIds,
         FromBeing(r, b, t)
  PROVE  TypeOK'
<1> USE RoomTurnsAssumption
<1>0. /\ turns[r][b] \in Turn
      /\ t \in 0 .. MaxTurns
      /\ "interim" \in FrameTypes /\ "final" \in FrameTypes /\ "reach" \in FrameTypes
      /\ "result" \in FrameTypes /\ "message" \in FrameTypes
      /\ NoSegment \in Segments \cup {NoSegment}
      /\ << >> \in Seq(Frame)
  BY DEF TypeOK, TurnIds, FrameTypes
<1>a. AfterFlush(turns[r][b]) \in Turn
  BY <1>0, AfterFlushIsTyped
<1>1. ASSUME NEW text \in Segments, FoldFinal(r, b, t, text)
      PROVE  TypeOK'
  <2>1. [AfterFlush(turns[r][b]) EXCEPT !.pending = text] \in Turn
    BY <1>a DEF Turn
  <2>2. turns' \in [Rooms -> [Beings -> Turn]]
    BY <1>1, <2>1, TurnReplaced DEF FoldFinal
  <2>3. record' \in [Rooms -> Seq(Frame)]
    BY <1>1, <1>0, FoldIsTyped DEF FoldFinal, TypeOK
  <2> QED
    BY <1>1, <2>2, <2>3 DEF FoldFinal, TypeOK
<1>2. CASE FoldReach(r, b, t)
  <2>1. << Plain("reach", b, t) >> \in Seq(Frame)
    BY <1>0, PlainIsTyped, OneFrame
  <2>2. turns' \in [Rooms -> [Beings -> Turn]]
    BY <1>2, <1>a, TurnReplaced DEF FoldReach
  <2>3. record' \in [Rooms -> Seq(Frame)]
    BY <1>2, <1>0, <2>1, FoldIsTyped DEF FoldReach, TypeOK
  <2> QED
    BY <1>2, <2>2, <2>3 DEF FoldReach, TypeOK
<1>b. NextReach(r, b) \in Nat
  BY <1>0, FoldIsTyped DEF NextReach
<1>3. CASE ToolExec(r, b, t)
  <2> DEFINE at == NextReach(r, b)
  <2>1. FrameOf("reach", b, t, NoSegment, at) \in Frame
    BY <1>0, <1>b, FrameIsTyped
  <2>2. << FrameOf("reach", b, t, NoSegment, at) >> \in Seq(Frame)
    BY <2>1, OneFrame
  <2>3. turns' \in [Rooms -> [Beings -> Turn]]
    BY <1>3, <1>a, TurnReplaced DEF ToolExec
  <2>4. record' = [record EXCEPT ![r] = @ \o Flushed(b, turns[r][b], "interim")
                     \o << FrameOf("reach", b, t, NoSegment, at) >>]
    BY <1>3 DEF ToolExec
  <2>5. record' \in [Rooms -> Seq(Frame)]
    BY <1>0, <2>2, <2>4, FoldIsTyped DEF TypeOK
  <2>6. running' \subseteq [room : Rooms, being : Beings, turn : TurnIds, reach : Nat]
    BY <1>3, <1>b DEF ToolExec, TypeOK
  <2> QED
    BY <1>3, <2>3, <2>5, <2>6 DEF ToolExec, TypeOK
<1>4. ASSUME NEW asks \in BOOLEAN, ToolExecAtOnce(r, b, t, asks)
      PROVE  TypeOK'
  <2> DEFINE at == NextReach(r, b)
             reach == FrameOf("reach", b, t, NoSegment, at)
             result == FrameOf("result", b, t, NoSegment, at)
  <2>1. reach \in Frame /\ result \in Frame
    BY <1>0, <1>b, FrameIsTyped
  <2> HIDE DEF reach, result
  <2>2. << reach, result >> \in Seq(Frame)
    BY <2>1
  <2>3. AfterAsk(turns[r][b], asks) \in Turn
    BY <1>a DEF AfterAsk, Turn
  <2>4. turns' \in [Rooms -> [Beings -> Turn]]
    BY <1>4, <2>3, TurnReplaced DEF ToolExecAtOnce
  <2>5. record' = [record EXCEPT ![r] = @ \o Flushed(b, turns[r][b], "interim")
                     \o << reach, result >>]
    BY <1>4 DEF ToolExecAtOnce, reach, result
  <2>6. record' \in [Rooms -> Seq(Frame)]
    BY <1>0, <2>2, <2>5, FoldIsTyped DEF TypeOK
  <2> QED
    BY <1>4, <2>4, <2>6 DEF ToolExecAtOnce, TypeOK
<1>5. CASE TurnDone(r, b, t)
  <2> DEFINE next == Decide(idle[r], turns[r][b].asked, AfterFlush(turns[r][b]).spoke)
             said == Flushed(b, turns[r][b], "final")
  <2>1. next.cycles \in Nat
    BY DEF TypeOK, Decide
  <2>2. idle' \in [Rooms -> Nat]
    BY <1>5, <2>1 DEF TurnDone, TypeOK
  <2>3. wakes' \subseteq [room : Rooms, being : Beings, turn : TurnIds]
    BY <1>5 DEF TurnDone, TypeOK
  <2>4. << Plain("message", b, t) >> \in Seq(Frame)
    BY <1>0, PlainIsTyped, OneFrame
  <2>5. /\ record[r] \o said \in Seq(Frame)
        /\ record[r] \o said \o << Plain("message", b, t) >> \in Seq(Frame)
    BY <1>0, <2>4, FoldIsTyped
  <2>6. \/ record' = [record EXCEPT ![r] = @ \o said \o << Plain("message", b, t) >>]
        \/ record' = [record EXCEPT ![r] = @ \o said]
    BY <1>5 DEF TurnDone
  <2>7. record' \in [Rooms -> Seq(Frame)]
    BY <2>5, <2>6 DEF TypeOK
  <2>8. turns' \in [Rooms -> [Beings -> Turn]]
    BY <1>5, NoTurnIsTyped, TurnReplaced DEF TurnDone
  <2>9. outcome' \in [TurnIds -> Outcomes]
    BY <1>5 DEF TurnDone, TypeOK, Outcomes
  <2> QED
    BY <1>5, <2>2, <2>3, <2>7, <2>8, <2>9 DEF TurnDone, TypeOK
<1>6. CASE TurnError(r, b, t)
  <2>1. /\ turns' \in [Rooms -> [Beings -> Turn]]
        /\ outcome' \in [TurnIds -> Outcomes]
        /\ record' \in [Rooms -> Seq(Frame)]
    BY <1>6, <1>0, CloseTurnIsTyped DEF TurnError
  <2> QED
    BY <1>6, <2>1 DEF TurnError, TypeOK
<1> QED
  BY <1>1, <1>2, <1>3, <1>4, <1>5, <1>6 DEF FromBeing

(* A connection that closes or comes back keeps the types.                 *)
LEMMA SeatTypeOK ==
  ASSUME TypeOK, NEW b \in Beings, HandleSeatExit(b) \/ HandleSeatReturn(b)
  PROVE  TypeOK'
<1> USE RoomTurnsAssumption
<1>1. \A r \in Rooms, x \in 0 .. MaxNow :
        [turns[r] EXCEPT ![b].lost = x] \in [Beings -> Turn]
  <2> SUFFICES ASSUME NEW r \in Rooms, NEW x \in 0 .. MaxNow
               PROVE  [turns[r] EXCEPT ![b].lost = x] \in [Beings -> Turn]
    OBVIOUS
  <2>1. turns[r] \in [Beings -> Turn]
    BY DEF TypeOK
  <2>2. [turns[r][b] EXCEPT !.lost = x] \in Turn
    BY <2>1 DEF Turn
  <2> QED
    BY <2>1, <2>2
<1>2. CASE HandleSeatExit(b)
  <2>1. now \in 0 .. MaxNow /\ 0 \in 0 .. MaxNow
    BY DEF TypeOK
  <2>2. turns' \in [Rooms -> [Beings -> Turn]]
    BY <1>1, <1>2, <2>1 DEF HandleSeatExit
  <2>3. \A r \in Rooms : Open(r, b) => turns[r][b].id \in TurnIds
    BY DEF TypeOK, Turn, TurnIds, Open
  <2>4. now + Grace \in Nat
    BY DEF TypeOK
  <2>5. TimersFor(b) \subseteq [room : Rooms, being : Beings, turn : TurnIds, due : Nat]
    BY <2>3, <2>4 DEF TimersFor
  <2> QED
    BY <1>2, <2>2, <2>5 DEF HandleSeatExit, SeatsLeftBy, TypeOK
<1>3. CASE HandleSeatReturn(b)
  <2>1. turns' \in [Rooms -> [Beings -> Turn]]
    BY <1>1, <1>3 DEF HandleSeatReturn
  <2> QED
    BY <1>3, <2>1 DEF HandleSeatReturn, TypeOK
<1> QED
  BY <1>2, <1>3

(* The end of the process keeps the types.                                 *)
LEMMA ProcessExitTypeOK ==
  ASSUME TypeOK, NEW how \in {"killed", "threw"}, ProcessExit(how)
  PROVE  TypeOK'
<1>1. turns' \in [Rooms -> [Beings -> Turn]]
  BY NoTurnIsTyped DEF ProcessExit
<1>2. outcome' \in [TurnIds -> Outcomes]
  BY DEF ProcessExit, TypeOK, Outcomes
<1>3. crashes' \in Nat
  BY DEF ProcessExit, TypeOK
<1> QED
  BY <1>1, <1>2, <1>3 DEF ProcessExit, TypeOK

(* Grace timers and reactivations keep the types.                          *)
LEMMA TimerTypeOK ==
  ASSUME TypeOK, Timer
  PROVE  TypeOK'
<1> USE RoomTurnsAssumption
<1>1. ASSUME NEW g \in graceTimers, GraceExpires(g)
      PROVE  TypeOK'
  <2>1. g.room \in Rooms /\ g.being \in Beings
    BY DEF TypeOK
  <2>2. << >> \in Seq(Frame)
    OBVIOUS
  <2>3. /\ turns' \in [Rooms -> [Beings -> Turn]]
        /\ outcome' \in [TurnIds -> Outcomes]
        /\ record' \in [Rooms -> Seq(Frame)]
    <3>1. CASE StillWaiting(g)
      BY <1>1, <2>1, <2>2, <3>1, CloseTurnIsTyped DEF GraceExpires
    <3>2. CASE ~StillWaiting(g)
      BY <1>1, <3>2 DEF GraceExpires, TypeOK
    <3> QED
      BY <3>1, <3>2
  <2> QED
    BY <1>1, <2>3 DEF GraceExpires, TypeOK
<1>2. ASSUME NEW w \in wakes, ReactivateIdle(w)
      PROVE  TypeOK'
  BY <1>2 DEF ReactivateIdle, TypeOK
<1>3. ASSUME NEW w \in wakes, Reactivate(w)
      PROVE  TypeOK'
  <2>1. w.room \in Rooms /\ w.being \in Beings
    BY DEF TypeOK
  <2>2. issued + 1 \in TurnIds
    BY <1>3 DEF Reactivate, TypeOK, TurnIds
  <2>3. NewTurn(issued + 1) \in Turn
    BY <2>2, NewTurnIsTyped DEF TurnIds
  <2>4. turns' \in [Rooms -> [Beings -> Turn]]
    BY <1>3, <2>1, <2>3, TurnReplaced DEF Reactivate
  <2>5. outcome' \in [TurnIds -> Outcomes]
    BY <1>3, <2>2 DEF Reactivate, TypeOK, Outcomes
  <2>6. issued' \in 0 .. MaxTurns
    BY <1>3, <2>2 DEF Reactivate, TurnIds
  <2>7. wakes' \subseteq wakes /\ UNCHANGED <<process, seats, graceTimers, running, record,
                                           armed, idle, now, crashes>>
    BY <1>3 DEF Reactivate
  <2> QED
    BY <2>4, <2>5, <2>6, <2>7 DEF TypeOK
<1>4. ASSUME NEW w \in wakes, ReactivateThrows(w)
      PROVE  TypeOK'
  BY <1>4, ProcessExitTypeOK DEF ReactivateThrows
<1> QED
  BY <1>1, <1>2, <1>3, <1>4 DEF Timer

(* Every step of the house keeps the types.                                *)
LEMMA NextTypeOK ==
  ASSUME TypeOK, [Next]_vars
  PROVE  TypeOK'
<1>1. ASSUME NEW r \in Rooms, NEW b \in Beings, FromHouse(r, b)
      PROVE  TypeOK'
  BY <1>1, HouseTypeOK
<1>2. ASSUME NEW r \in Rooms, NEW b \in Beings, NEW t \in TurnIds, FromBeing(r, b, t)
      PROVE  TypeOK'
  BY <1>2, BeingTypeOK
<1>3. ASSUME NEW b \in Beings, HandleSeatExit(b) \/ HandleSeatReturn(b)
      PROVE  TypeOK'
  BY <1>3, SeatTypeOK
<1>4. ASSUME NEW x \in running, ToolReturns(x)
      PROVE  TypeOK'
  <2>1. x \in [room : Rooms, being : Beings, turn : TurnIds, reach : Nat]
    BY DEF TypeOK
  <2>2. FrameOf("result", x.being, x.turn, NoSegment, x.reach) \in Frame
    BY <2>1, FrameIsTyped, RoomTurnsAssumption DEF TurnIds, FrameTypes
  <2>3. ResultOf(x) \in Seq(Frame)
    BY <2>2, OneFrame DEF ResultOf
  <2>4. record' \in [Rooms -> Seq(Frame)]
    BY <1>4, <2>1, <2>3, RecordExtended DEF ToolReturns
  <2> QED
    BY <1>4, <2>4 DEF ToolReturns, TypeOK
<1>5. ASSUME NEW r \in Rooms, NEW on \in BOOLEAN, Autotrigger(r, on)
      PROVE  TypeOK'
  <2>1. armed' \in [Rooms -> BOOLEAN]
    BY <1>5 DEF Autotrigger, TypeOK
  <2>2. idle' \in [Rooms -> Nat]
    BY <1>5 DEF Autotrigger, TypeOK
  <2> QED
    BY <1>5, <2>1, <2>2 DEF Autotrigger, TypeOK
<1>6. CASE Timer
  BY <1>6, TimerTypeOK
<1>7. CASE ProcessExit("killed")
  BY <1>7, ProcessExitTypeOK
<1>8. CASE Restart
  BY <1>8 DEF Restart, house, TypeOK
<1>9. CASE Tick
  BY <1>9, RoomTurnsAssumption DEF Tick, house, TypeOK
<1>10. CASE UNCHANGED vars
  BY <1>10 DEF vars, house, TypeOK
<1> QED
  BY <1>1, <1>2, <1>3, <1>4, <1>5, <1>6, <1>7, <1>8, <1>9, <1>10 DEF Next, Running

(* Every variable keeps its type in every reachable state.                 *)
THEOREM TypeCorrect == Spec => []TypeOK
<1>1. Init => TypeOK
  BY InitTypeOK
<1>2. TypeOK /\ [Next]_vars => TypeOK'
  BY NextTypeOK
<1> QED
  BY <1>1, <1>2, PTL DEF Spec

-----------------------------------------------------------------------------
(* Promises and open turns.  PromisesMatchTurns alone is not inductive: a  *)
(* turn about to be issued must not have been resolved, or held, before.   *)
UnissuedUnborn == \A t \in TurnIds : t > issued => outcome[t] = "unborn"

Promises == TypeOK /\ PromisesMatchTurns /\ UnissuedUnborn

(* The four ways a step treats promises: it leaves ids and outcomes alone, *)
(* opens a turn, refuses one it has just issued, or closes one.            *)
LEMMA SameTurns ==
  ASSUME Promises, TypeOK', UNCHANGED <<outcome, issued>>,
         \A r \in Rooms, b \in Beings : turns'[r][b].id = turns[r][b].id
  PROVE  PromisesMatchTurns' /\ UnissuedUnborn'
  BY DEF Promises, PromisesMatchTurns, UnissuedUnborn, Holds, Open

(* A turn that opens keeps promises and turns in agreement.                *)
LEMMA TurnOpens ==
  ASSUME Promises, TypeOK', NEW r \in Rooms, NEW b \in Beings, ~Open(r, b),
         issued < MaxTurns, issued' = issued + 1,
         turns' = [turns EXCEPT ![r][b] = NewTurn(issued + 1)],
         outcome' = [outcome EXCEPT ![issued + 1] = "open"]
  PROVE  PromisesMatchTurns' /\ UnissuedUnborn'
<1> DEFINE new == issued + 1
<1>1. new \in TurnIds /\ new # 0 /\ new > issued
  BY RoomTurnsAssumption DEF Promises, TypeOK, TurnIds
<1>2. outcome[new] = "unborn"
  BY <1>1 DEF Promises, UnissuedUnborn
<1>3. \A q \in Rooms, c \in Beings : turns[q][c].id # new
  BY <1>1, <1>2 DEF Promises, PromisesMatchTurns, Holds
<1>4. /\ turns'[r][b].id = new
      /\ \A q \in Rooms, c \in Beings :
           <<q, c>> # <<r, b>> => turns'[q][c] = turns[q][c]
  BY <1>1, NewTurnIsTyped DEF Promises, TypeOK, TurnIds
<1>5. /\ outcome'[new] = "open"
      /\ \A t \in TurnIds : t # new => outcome'[t] = outcome[t]
  BY <1>1 DEF Promises, TypeOK
<1> HIDE DEF new
<1>6. \A t \in TurnIds :
        outcome'[t] = "open" <=> \E q \in Rooms, c \in Beings : Holds(q, c, t)'
  <2>1. CASE \E t \in TurnIds : t = new
    <3> SUFFICES ASSUME NEW t \in TurnIds
                 PROVE  outcome'[t] = "open" <=>
                          \E q \in Rooms, c \in Beings : Holds(q, c, t)'
      OBVIOUS
    <3>1. CASE t = new
      BY <1>1, <1>4, <1>5, <3>1 DEF Holds
    <3>2. CASE t # new
      <4>1. outcome'[t] = outcome[t]
        BY <1>5, <3>2
      <4>2. \A q \in Rooms, c \in Beings : Holds(q, c, t)' <=> Holds(q, c, t)
        BY <1>4, <3>2 DEF Holds, Open
      <4> QED
        BY <4>1, <4>2 DEF Promises, PromisesMatchTurns
    <3> QED
      BY <3>1, <3>2
  <2> QED
    BY <1>1, <2>1
<1>7. \A q1, q2 \in Rooms, c1, c2 \in Beings :
        Open(q1, c1)' /\ turns'[q1][c1].id = turns'[q2][c2].id => q1 = q2 /\ c1 = c2
  BY <1>1, <1>3, <1>4 DEF Promises, PromisesMatchTurns, Open
<1>8. UnissuedUnborn'
  BY <1>1, <1>5 DEF Promises, UnissuedUnborn, TypeOK, new, TurnIds
<1> QED
  BY <1>6, <1>7, <1>8 DEF PromisesMatchTurns

(* So does a turn closed before its being heard of it.                     *)
LEMMA TurnRefused ==
  ASSUME Promises, TypeOK', issued < MaxTurns, issued' = issued + 1, turns' = turns,
         outcome' = [outcome EXCEPT ![issued + 1] = "error"]
  PROVE  PromisesMatchTurns' /\ UnissuedUnborn'
<1>1. issued + 1 \in TurnIds /\ issued + 1 > issued
  BY RoomTurnsAssumption DEF Promises, TypeOK, TurnIds
<1>2. outcome[issued + 1] = "unborn"
  BY <1>1 DEF Promises, UnissuedUnborn
<1>3. \A t \in TurnIds : outcome'[t] = "open" <=> outcome[t] = "open"
  BY <1>1, <1>2 DEF Promises, TypeOK
<1>4. UnissuedUnborn'
  BY <1>1 DEF Promises, UnissuedUnborn, TypeOK, TurnIds
<1> QED
  BY <1>3, <1>4 DEF Promises, PromisesMatchTurns, Holds, Open

(* So does a turn that closes.                                             *)
LEMMA TurnCloses ==
  ASSUME Promises, TypeOK', NEW r \in Rooms, NEW b \in Beings, Open(r, b),
         NEW kind \in {"done", "error", "aborted"}, issued' = issued,
         turns' = [turns EXCEPT ![r][b] = NoTurn],
         outcome' = [outcome EXCEPT ![turns[r][b].id] = kind]
  PROVE  PromisesMatchTurns' /\ UnissuedUnborn'
<1> DEFINE old == turns[r][b].id
<1>1. old \in TurnIds /\ old # 0
  BY RoomTurnsAssumption DEF Promises, TypeOK, Turn, TurnIds, Open
<1>2. outcome[old] = "open"
  BY <1>1 DEF Promises, PromisesMatchTurns, Holds
<1>3. /\ turns'[r][b].id = 0
      /\ \A q \in Rooms, c \in Beings :
           <<q, c>> # <<r, b>> => turns'[q][c] = turns[q][c]
  BY NoTurnIsTyped DEF Promises, TypeOK
<1>4. /\ outcome'[old] = kind
      /\ \A t \in TurnIds : t # old => outcome'[t] = outcome[t]
  BY <1>1 DEF Promises, TypeOK
<1>5. \A q \in Rooms, c \in Beings : turns'[q][c].id # old
  BY <1>1, <1>3 DEF Promises, PromisesMatchTurns, Open
<1>6. \A t \in TurnIds :
        outcome'[t] = "open" <=> \E q \in Rooms, c \in Beings : Holds(q, c, t)'
  <2> SUFFICES ASSUME NEW t \in TurnIds
               PROVE  outcome'[t] = "open" <=>
                        \E q \in Rooms, c \in Beings : Holds(q, c, t)'
    OBVIOUS
  <2>1. CASE t = old
    BY <1>4, <1>5, <2>1 DEF Holds
  <2>2. CASE t # old
    <3>1. outcome'[t] = outcome[t]
      BY <1>4, <2>2
    <3>2. \A q \in Rooms, c \in Beings : Holds(q, c, t)' <=> Holds(q, c, t)
      BY <1>3, <2>2 DEF Holds
    <3> QED
      BY <3>1, <3>2 DEF Promises, PromisesMatchTurns
  <2> QED
    BY <2>1, <2>2
<1>7. \A q1, q2 \in Rooms, c1, c2 \in Beings :
        Open(q1, c1)' /\ turns'[q1][c1].id = turns'[q2][c2].id => q1 = q2 /\ c1 = c2
  BY <1>3 DEF Promises, PromisesMatchTurns, Open
<1>8. UnissuedUnborn'
  BY <1>2, <1>4 DEF Promises, UnissuedUnborn
<1> QED
  BY <1>6, <1>7, <1>8 DEF PromisesMatchTurns

(* A fold writes the held segment and leaves the turn's id and mark.       *)
LEMMA FoldKeepsIds ==
  ASSUME TypeOK, NEW r \in Rooms, NEW b \in Beings, NEW t \in TurnIds,
         \/ \E text \in Segments : FoldFinal(r, b, t, text)
         \/ FoldReach(r, b, t)
         \/ ToolExec(r, b, t)
         \/ \E asks \in BOOLEAN : ToolExecAtOnce(r, b, t, asks)
  PROVE  /\ \A q \in Rooms, c \in Beings :
              turns'[q][c].id = turns[q][c].id /\ turns'[q][c].lost = turns[q][c].lost
         /\ UNCHANGED <<outcome, issued, seats, graceTimers, now>>
<1>1. turns[r][b] \in Turn
  BY DEF TypeOK
<1>2. /\ AfterFlush(turns[r][b]) \in Turn
      /\ AfterFlush(turns[r][b]).id = turns[r][b].id
      /\ AfterFlush(turns[r][b]).lost = turns[r][b].lost
  BY <1>1, AfterFlushIsTyped
<1>3. ASSUME NEW text \in Segments, FoldFinal(r, b, t, text)
      PROVE  turns' = [turns EXCEPT ![r][b] =
                         [AfterFlush(turns[r][b]) EXCEPT !.pending = text]]
  BY <1>3 DEF FoldFinal
<1>4. ASSUME NEW asks \in BOOLEAN, ToolExecAtOnce(r, b, t, asks)
      PROVE  turns' = [turns EXCEPT ![r][b] = AfterAsk(turns[r][b], asks)]
  BY <1>4 DEF ToolExecAtOnce
<1>5. ASSUME NEW new, new.id = turns[r][b].id, new.lost = turns[r][b].lost,
             turns' = [turns EXCEPT ![r][b] = new]
      PROVE  \A q \in Rooms, c \in Beings :
                turns'[q][c].id = turns[q][c].id /\ turns'[q][c].lost = turns[q][c].lost
  BY <1>5 DEF TypeOK
<1>6. \E new : /\ new.id = turns[r][b].id
               /\ new.lost = turns[r][b].lost
               /\ turns' = [turns EXCEPT ![r][b] = new]
  <2>1. ASSUME NEW text \in Segments, FoldFinal(r, b, t, text)
        PROVE  <1>6!:
    <3> DEFINE new == [AfterFlush(turns[r][b]) EXCEPT !.pending = text]
    <3>1. new.id = turns[r][b].id /\ new.lost = turns[r][b].lost
      BY <1>2 DEF Turn
    <3> QED
      BY <2>1, <1>3, <3>1
  <2>2. CASE FoldReach(r, b, t)
    BY <2>2, <1>2 DEF FoldReach
  <2>3. CASE ToolExec(r, b, t)
    BY <2>3, <1>2 DEF ToolExec
  <2>4. ASSUME NEW asks \in BOOLEAN, ToolExecAtOnce(r, b, t, asks)
        PROVE  <1>6!:
    <3>1. /\ AfterAsk(turns[r][b], asks).id = turns[r][b].id
          /\ AfterAsk(turns[r][b], asks).lost = turns[r][b].lost
      BY <1>2 DEF AfterAsk, Turn
    <3> QED
      BY <2>4, <1>4, <3>1
  <2> QED
    BY <2>1, <2>2, <2>3, <2>4
<1>7. UNCHANGED <<outcome, issued, seats, graceTimers, now>>
  BY DEF FoldFinal, FoldReach, ToolExec, ToolExecAtOnce
<1> QED
  BY <1>5, <1>6, <1>7

(* A seat lost or returned leaves every turn its id.                       *)
LEMMA SeatKeepsIds ==
  ASSUME TypeOK, NEW b \in Beings, HandleSeatExit(b) \/ HandleSeatReturn(b)
  PROVE  \A q \in Rooms, c \in Beings :
           /\ turns'[q][c].id = turns[q][c].id
           /\ c # b => turns'[q][c] = turns[q][c]
<1> SUFFICES ASSUME NEW q \in Rooms, NEW c \in Beings
             PROVE  /\ turns'[q][c].id = turns[q][c].id
                    /\ c # b => turns'[q][c] = turns[q][c]
  OBVIOUS
<1>1. PICK x : turns'[q] = [turns[q] EXCEPT ![b].lost = x]
  BY DEF HandleSeatExit, HandleSeatReturn
<1>2. turns[q] \in [Beings -> Turn] /\ turns[q][b] \in Turn
  BY DEF TypeOK
<1> QED
  BY <1>1, <1>2 DEF Turn

(* Every step keeps promises and turns in agreement.                       *)
LEMMA NextKeepsPromises ==
  ASSUME Promises, [Next]_vars
  PROVE  Promises'
<1>0. TypeOK /\ TypeOK'
  BY NextTypeOK DEF Promises
<1> SUFFICES PromisesMatchTurns' /\ UnissuedUnborn'
  BY <1>0 DEF Promises
<1>1. ASSUME NEW r \in Rooms, NEW b \in Beings, FromHouse(r, b)
      PROVE  PromisesMatchTurns' /\ UnissuedUnborn'
  <2>1. CASE BeginTurn(r, b)
    BY <1>0, <2>1, TurnOpens DEF BeginTurn, MayBegin
  <2>2. CASE BeginTurnFails(r, b)
    BY <1>0, <2>2, TurnRefused DEF BeginTurnFails
  <2>3. CASE ApplyInterrupt(r, b)
    BY <1>0, <2>3, TurnCloses DEF ApplyInterrupt, CloseTurn
  <2>4. CASE ApplySteer(r, b)
    BY <1>0, <2>4, SameTurns DEF ApplySteer, house
  <2> QED
    BY <1>1, <2>1, <2>2, <2>3, <2>4 DEF FromHouse
<1>2. ASSUME NEW r \in Rooms, NEW b \in Beings, NEW t \in TurnIds, FromBeing(r, b, t)
      PROVE  PromisesMatchTurns' /\ UnissuedUnborn'
  <2>1. CASE TurnDone(r, b, t)
    <3>1. Open(r, b) /\ turns[r][b].id = t
      BY <2>1 DEF TurnDone, Hears, Holds, Open
    <3>2. /\ turns' = [turns EXCEPT ![r][b] = NoTurn]
          /\ outcome' = [outcome EXCEPT ![turns[r][b].id] = "done"]
          /\ issued' = issued
      BY <2>1, <3>1 DEF TurnDone
    <3> QED
      BY <1>0, <3>1, <3>2, TurnCloses
  <2>2. CASE TurnError(r, b, t)
    BY <1>0, <2>2, TurnCloses DEF TurnError, CloseTurn, Hears, Holds, Open
  <2>3. CASE \/ \E text \in Segments : FoldFinal(r, b, t, text)
             \/ FoldReach(r, b, t)
             \/ ToolExec(r, b, t)
             \/ \E asks \in BOOLEAN : ToolExecAtOnce(r, b, t, asks)
    BY <1>0, <2>3, FoldKeepsIds, SameTurns
  <2> QED
    BY <1>2, <2>1, <2>2, <2>3 DEF FromBeing
<1>3. ASSUME NEW b \in Beings, HandleSeatExit(b) \/ HandleSeatReturn(b)
      PROVE  PromisesMatchTurns' /\ UnissuedUnborn'
  <2>1. UNCHANGED <<outcome, issued>>
    BY <1>3 DEF HandleSeatExit, HandleSeatReturn
  <2> QED
    BY <1>0, <1>3, <2>1, SeatKeepsIds, SameTurns
<1>4. ASSUME NEW x \in running, ToolReturns(x)
      PROVE  PromisesMatchTurns' /\ UnissuedUnborn'
  BY <1>0, <1>4, SameTurns DEF ToolReturns
<1>5. ASSUME NEW r \in Rooms, NEW on \in BOOLEAN, Autotrigger(r, on)
      PROVE  PromisesMatchTurns' /\ UnissuedUnborn'
  BY <1>0, <1>5, SameTurns DEF Autotrigger
<1>6. ASSUME NEW how \in {"killed", "threw"}, ProcessExit(how)
      PROVE  PromisesMatchTurns' /\ UnissuedUnborn'
  <2>1. \A q \in Rooms, c \in Beings : turns'[q][c].id = 0
    BY <1>6, NoTurnIsTyped DEF ProcessExit
  <2>2. \A t \in TurnIds :
          /\ outcome'[t] # "open"
          /\ outcome[t] = "unborn" => outcome'[t] = "unborn"
    BY <1>6 DEF ProcessExit
  <2>3. issued' = issued
    BY <1>6 DEF ProcessExit
  <2>4. PromisesMatchTurns'
    BY <2>1, <2>2 DEF PromisesMatchTurns, Holds, Open
  <2>5. UnissuedUnborn'
    BY <2>2, <2>3 DEF Promises, UnissuedUnborn
  <2> QED
    BY <2>4, <2>5
<1>7. CASE Timer
  <2>1. ASSUME NEW g \in graceTimers, GraceExpires(g)
        PROVE  PromisesMatchTurns' /\ UnissuedUnborn'
    <3>1. g.room \in Rooms /\ g.being \in Beings
      BY <1>0 DEF TypeOK
    <3>2. CASE StillWaiting(g)
      BY <1>0, <2>1, <3>1, <3>2, TurnCloses
      DEF GraceExpires, CloseTurn, StillWaiting, Holds, Open
    <3>3. CASE ~StillWaiting(g)
      BY <1>0, <2>1, <3>3, SameTurns DEF GraceExpires
    <3> QED
      BY <3>2, <3>3
  <2>2. ASSUME NEW w \in wakes, ReactivateIdle(w)
        PROVE  PromisesMatchTurns' /\ UnissuedUnborn'
    BY <1>0, <2>2, SameTurns DEF ReactivateIdle
  <2>3. ASSUME NEW w \in wakes, Reactivate(w)
        PROVE  PromisesMatchTurns' /\ UnissuedUnborn'
    <3>1. w.room \in Rooms /\ w.being \in Beings
      BY <1>0 DEF TypeOK
    <3> QED
      BY <1>0, <2>3, <3>1, TurnOpens DEF Reactivate, MayBegin
  <2>4. ASSUME NEW w \in wakes, ReactivateThrows(w)
        PROVE  PromisesMatchTurns' /\ UnissuedUnborn'
    BY <2>4, <1>6 DEF ReactivateThrows
  <2> QED
    BY <1>7, <2>1, <2>2, <2>3, <2>4 DEF Timer
<1>8. CASE Restart \/ Tick \/ UNCHANGED vars
  BY <1>0, <1>8, SameTurns DEF Restart, Tick, vars, house
<1> QED
  BY <1>1, <1>2, <1>3, <1>4, <1>5, <1>6, <1>7, <1>8 DEF Next, Running

(* They agree in a house that has just started.                            *)
LEMMA InitPromises == Init => Promises
<1> SUFFICES ASSUME Init PROVE Promises
  OBVIOUS
<1>1. \A r \in Rooms, b \in Beings : turns[r][b].id = 0
  BY NoTurnIsTyped DEF Init
<1>2. \A t \in TurnIds : outcome[t] = "unborn"
  BY DEF Init
<1> QED
  BY <1>1, <1>2, InitTypeOK
  DEF Promises, PromisesMatchTurns, UnissuedUnborn, Holds, Open

(* A turn's promise stays unresolved exactly while one being is in that    *)
(* turn, for any number of rooms, beings, turns and crashes.               *)
THEOREM PromisesKept == Spec => []PromisesMatchTurns
<1>1. Init => Promises
  BY InitPromises
<1>2. Promises /\ [Next]_vars => Promises'
  BY NextKeepsPromises
<1>3. Promises => PromisesMatchTurns
  BY DEF Promises
<1> QED
  BY <1>1, <1>2, <1>3, PTL DEF Spec

-----------------------------------------------------------------------------
(* A lost seat and its timer.  Waits(r, b) is WaitingTurnHasTimer of one   *)
(* turn; it is its own induction hypothesis.                               *)
Waits(r, b) ==
  Open(r, b) =>
    /\ turns[r][b].lost # 0 <=> ~Seated(b)
    /\ ~Seated(b) =>
         \E g \in graceTimers :
           /\ g.room = r /\ g.being = b /\ g.turn = turns[r][b].id
           /\ g.due = turns[r][b].lost + Grace

(* The invariant, room by room and being by being.                         *)
LEMMA WaitsEverywhere == WaitingTurnHasTimer <=> \A r \in Rooms, b \in Beings : Waits(r, b)
  BY DEF WaitingTurnHasTimer, Waits

(* A step that keeps a turn, its mark, its being's seat and the timers     *)
(* keeps Waits; so does one that leaves the turn closed, or just begun by  *)
(* a being with a seat.                                                    *)
LEMMA WaitsKept ==
  ASSUME NEW r \in Rooms, NEW b \in Beings, Waits(r, b),
         turns'[r][b].id = turns[r][b].id, turns'[r][b].lost = turns[r][b].lost,
         Seated(b)' <=> Seated(b), graceTimers \subseteq graceTimers'
  PROVE  Waits(r, b)'
  BY DEF Waits, Open

(* A being in no turn waits for nothing.                                   *)
LEMMA WaitsIfClosed ==
  ASSUME NEW r \in Rooms, NEW b \in Beings, turns'[r][b].id = 0
  PROVE  Waits(r, b)'
  BY DEF Waits, Open

(* A seated being whose turn has no mark waits for nothing.                *)
LEMMA WaitsIfSeated ==
  ASSUME NEW r \in Rooms, NEW b \in Beings, turns'[r][b].lost = 0, Seated(b)'
  PROVE  Waits(r, b)'
  BY DEF Waits

(* One turn replaced by a closed one or a new one of a seated being.       *)
LEMMA WaitsReplaced ==
  ASSUME TypeOK, WaitingTurnHasTimer, NEW r \in Rooms, NEW b \in Beings,
         NEW new \in Turn, turns' = [turns EXCEPT ![r][b] = new],
         new.id = 0 \/ (new.lost = 0 /\ Seated(b)),
         UNCHANGED <<seats, graceTimers>>
  PROVE  WaitingTurnHasTimer'
<1> SUFFICES ASSUME NEW q \in Rooms, NEW c \in Beings
             PROVE  Waits(q, c)'
  BY DEF WaitingTurnHasTimer, Waits
<1>1. CASE q = r /\ c = b
  <2>1. turns'[q][c] = new
    BY <1>1 DEF TypeOK
  <2> QED
    BY <1>1, <2>1, WaitsIfClosed, WaitsIfSeated DEF Seated
<1>2. CASE ~(q = r /\ c = b)
  <2>1. turns'[q][c] = turns[q][c]
    BY <1>2 DEF TypeOK
  <2> QED
    BY <2>1, WaitsEverywhere, WaitsKept DEF Seated
<1> QED
  BY <1>1, <1>2

(* A step that touches no turn, seat or timer keeps every wait.            *)
LEMMA WaitsUntouched ==
  ASSUME WaitingTurnHasTimer, UNCHANGED <<seats, graceTimers>>,
         \A q \in Rooms, c \in Beings :
           turns'[q][c].id = turns[q][c].id /\ turns'[q][c].lost = turns[q][c].lost
  PROVE  WaitingTurnHasTimer'
<1> SUFFICES ASSUME NEW q \in Rooms, NEW c \in Beings
             PROVE  Waits(q, c)'
  BY DEF WaitingTurnHasTimer, Waits
<1> QED
  BY WaitsEverywhere, WaitsKept DEF Seated

(* Every turn a lost seat leaves open is given a timer of its own.         *)
LEMMA ExitWaits ==
  ASSUME TypeOK, WaitingTurnHasTimer, NEW b \in Beings, HandleSeatExit(b)
  PROVE  WaitingTurnHasTimer'
<1> SUFFICES ASSUME NEW q \in Rooms, NEW c \in Beings
             PROVE  Waits(q, c)'
  BY DEF WaitingTurnHasTimer, Waits
<1>1. graceTimers \subseteq graceTimers'
  BY DEF HandleSeatExit
<1>2. CASE c # b
  <2>1. turns'[q][c] = turns[q][c]
    BY <1>2, SeatKeepsIds
  <2>2. Seated(c)' <=> Seated(c)
    BY <1>2 DEF HandleSeatExit, SeatsLeftBy, Seated
  <2> QED
    BY <1>1, <2>1, <2>2, WaitsEverywhere, WaitsKept
<1>3. CASE c = b /\ Open(q, b)
  <2>1. turns[q] \in [Beings -> Turn] /\ turns[q][b] \in Turn
    BY DEF TypeOK
  <2>2. turns'[q][b].lost = now /\ turns'[q][b].id = turns[q][b].id
    BY <1>3, <2>1 DEF HandleSeatExit, Turn
  <2>3. now # 0
    BY RoomTurnsAssumption DEF TypeOK
  <2>4. ~Seated(b)'
    BY DEF HandleSeatExit, SeatsLeftBy, Seated
  <2> DEFINE g == [room |-> q, being |-> b, turn |-> turns[q][b].id, due |-> now + Grace]
  <2>5. g \in graceTimers'
    BY <1>3 DEF HandleSeatExit, TimersFor
  <2>6. /\ g.room = q /\ g.being = b
        /\ g.turn = turns'[q][b].id /\ g.due = turns'[q][b].lost + Grace
    BY <2>2
  <2> HIDE DEF g
  <2> QED
    BY <1>3, <2>2, <2>3, <2>4, <2>5, <2>6 DEF Waits
<1>4. CASE c = b /\ ~Open(q, b)
  BY <1>4, SeatKeepsIds, WaitsIfClosed DEF Open
<1> QED
  BY <1>2, <1>3, <1>4

(* A seat that returns ends the wait of its turns.                         *)
LEMMA ReturnWaits ==
  ASSUME TypeOK, WaitingTurnHasTimer, NEW b \in Beings, HandleSeatReturn(b)
  PROVE  WaitingTurnHasTimer'
<1> SUFFICES ASSUME NEW q \in Rooms, NEW c \in Beings
             PROVE  Waits(q, c)'
  BY DEF WaitingTurnHasTimer, Waits
<1>1. CASE c # b
  <2>1. turns'[q][c] = turns[q][c]
    BY <1>1, SeatKeepsIds
  <2>2. Seated(c)' <=> Seated(c)
    BY <1>1 DEF HandleSeatReturn, Seated
  <2>3. graceTimers' = graceTimers
    BY DEF HandleSeatReturn
  <2> QED
    BY <2>1, <2>2, <2>3, WaitsEverywhere, WaitsKept
<1>2. CASE c = b
  <2>1. turns[q] \in [Beings -> Turn] /\ turns[q][b] \in Turn
    BY DEF TypeOK
  <2>2. turns'[q][b].lost = 0
    BY <2>1 DEF HandleSeatReturn, Turn
  <2>3. Seated(b)'
    BY DEF HandleSeatReturn, Seated
  <2> QED
    BY <1>2, <2>2, <2>3, WaitsIfSeated
<1> QED
  BY <1>1, <1>2

(* The timer that goes off was no other turn's, and if it was this turn's  *)
(* then the turn is closed.                                                *)
LEMMA GraceWaits ==
  ASSUME TypeOK, WaitingTurnHasTimer, NEW g \in graceTimers, GraceExpires(g)
  PROVE  WaitingTurnHasTimer'
<1> SUFFICES ASSUME NEW q \in Rooms, NEW c \in Beings
             PROVE  Waits(q, c)'
  BY DEF WaitingTurnHasTimer, Waits
<1>0. g.room \in Rooms /\ g.being \in Beings /\ g.turn # 0
  BY RoomTurnsAssumption DEF TypeOK, TurnIds
<1>1. CASE StillWaiting(g) /\ q = g.room /\ c = g.being
  <2>1. turns' = [turns EXCEPT ![q][c] = NoTurn]
    BY <1>1 DEF GraceExpires, CloseTurn
  <2>2. turns'[q][c].id = 0
    BY <2>1, NoTurnIsTyped DEF TypeOK
  <2> QED
    BY <2>2, WaitsIfClosed
<1>2. CASE ~(StillWaiting(g) /\ q = g.room /\ c = g.being)
  <2>1. turns'[q][c] = turns[q][c]
    <3>1. CASE StillWaiting(g)
      <4>1. turns' = [turns EXCEPT ![g.room][g.being] = NoTurn]
        BY <3>1 DEF GraceExpires, CloseTurn
      <4> QED
        BY <1>2, <3>1, <4>1 DEF TypeOK
    <3>2. CASE ~StillWaiting(g)
      BY <3>2 DEF GraceExpires
    <3> QED
      BY <3>1, <3>2
  <2>2. seats' = seats /\ graceTimers' = graceTimers \ {g}
    BY DEF GraceExpires
  <2>3. ASSUME Open(q, c), ~Seated(c),
               g.room = q, g.being = c, g.turn = turns[q][c].id
        PROVE  FALSE
    BY <1>0, <1>2, <2>3 DEF WaitingTurnHasTimer, StillWaiting, Holds
  <2>4. Waits(q, c)
    BY WaitsEverywhere
  <2> QED
    BY <2>1, <2>2, <2>3, <2>4 DEF Waits, Open, Seated
<1> QED
  BY <1>1, <1>2

(* Every step keeps a timer for each turn that waits.                      *)
LEMMA NextKeepsTimers ==
  ASSUME TypeOK, WaitingTurnHasTimer, [Next]_vars
  PROVE  WaitingTurnHasTimer'
<1>1. ASSUME NEW r \in Rooms, NEW b \in Beings, FromHouse(r, b)
      PROVE  WaitingTurnHasTimer'
  <2>1. CASE BeginTurn(r, b)
    <3>1. issued + 1 \in 0 .. MaxTurns
      BY <2>1, RoomTurnsAssumption DEF BeginTurn, TypeOK
    <3> QED
      BY <2>1, <3>1, NewTurnIsTyped, WaitsReplaced DEF BeginTurn, MayBegin
  <2>2. CASE BeginTurnFails(r, b) \/ ApplySteer(r, b)
    BY <2>2, WaitsUntouched DEF BeginTurnFails, ApplySteer, house
  <2>3. CASE ApplyInterrupt(r, b)
    BY <2>3, NoTurnIsTyped, WaitsReplaced DEF ApplyInterrupt, CloseTurn
  <2> QED
    BY <1>1, <2>1, <2>2, <2>3 DEF FromHouse
<1>2. ASSUME NEW r \in Rooms, NEW b \in Beings, NEW t \in TurnIds, FromBeing(r, b, t)
      PROVE  WaitingTurnHasTimer'
  <2>1. CASE TurnDone(r, b, t)
    BY <2>1, NoTurnIsTyped, WaitsReplaced DEF TurnDone
  <2>2. CASE TurnError(r, b, t)
    BY <2>2, NoTurnIsTyped, WaitsReplaced DEF TurnError, CloseTurn
  <2>3. CASE \/ \E text \in Segments : FoldFinal(r, b, t, text)
             \/ FoldReach(r, b, t)
             \/ ToolExec(r, b, t)
             \/ \E asks \in BOOLEAN : ToolExecAtOnce(r, b, t, asks)
    BY <2>3, FoldKeepsIds, WaitsUntouched
  <2> QED
    BY <1>2, <2>1, <2>2, <2>3 DEF FromBeing
<1>3. ASSUME NEW b \in Beings, HandleSeatExit(b) \/ HandleSeatReturn(b)
      PROVE  WaitingTurnHasTimer'
  BY <1>3, ExitWaits, ReturnWaits
<1>4. ASSUME NEW x \in running, ToolReturns(x)
      PROVE  WaitingTurnHasTimer'
  BY <1>4, WaitsUntouched DEF ToolReturns
<1>5. ASSUME NEW r \in Rooms, NEW on \in BOOLEAN, Autotrigger(r, on)
      PROVE  WaitingTurnHasTimer'
  BY <1>5, WaitsUntouched DEF Autotrigger
<1>6. ASSUME NEW how \in {"killed", "threw"}, ProcessExit(how)
      PROVE  WaitingTurnHasTimer'
  <2>1. \A q \in Rooms, c \in Beings : turns'[q][c].id = 0
    BY <1>6, NoTurnIsTyped DEF ProcessExit
  <2> QED
    BY <2>1 DEF WaitingTurnHasTimer, Open
<1>7. CASE Timer
  <2>1. ASSUME NEW g \in graceTimers, GraceExpires(g)
        PROVE  WaitingTurnHasTimer'
    BY <2>1, GraceWaits
  <2>2. ASSUME NEW w \in wakes, ReactivateIdle(w)
        PROVE  WaitingTurnHasTimer'
    BY <2>2, WaitsUntouched DEF ReactivateIdle
  <2>3. ASSUME NEW w \in wakes, Reactivate(w)
        PROVE  WaitingTurnHasTimer'
    <3>1. w.room \in Rooms /\ w.being \in Beings
      BY DEF TypeOK
    <3>2. issued + 1 \in 0 .. MaxTurns
      BY <2>3, RoomTurnsAssumption DEF Reactivate, TypeOK
    <3> QED
      BY <2>3, <3>1, <3>2, NewTurnIsTyped, WaitsReplaced DEF Reactivate, MayBegin
  <2>4. ASSUME NEW w \in wakes, ReactivateThrows(w)
        PROVE  WaitingTurnHasTimer'
    BY <2>4, <1>6 DEF ReactivateThrows
  <2> QED
    BY <1>7, <2>1, <2>2, <2>3, <2>4 DEF Timer
<1>8. CASE Restart \/ Tick \/ UNCHANGED vars
  BY <1>8, WaitsUntouched DEF Restart, Tick, vars, house
<1> QED
  BY <1>1, <1>2, <1>3, <1>4, <1>5, <1>6, <1>7, <1>8 DEF Next, Running

(* No turn is left open without a timer when its being's seat is lost.     *)
THEOREM LostTurnsHaveTimers == Spec => []WaitingTurnHasTimer
<1>1. Init => TypeOK /\ WaitingTurnHasTimer
  <2>1. ASSUME Init PROVE \A r \in Rooms, b \in Beings : turns[r][b].id = 0
    BY <2>1, NoTurnIsTyped DEF Init
  <2> QED
    BY <2>1, InitTypeOK DEF WaitingTurnHasTimer, Open
<1>2. TypeOK /\ WaitingTurnHasTimer /\ [Next]_vars => TypeOK' /\ WaitingTurnHasTimer'
  BY NextTypeOK, NextKeepsTimers
<1> QED
  BY <1>1, <1>2, PTL DEF Spec

-----------------------------------------------------------------------------
(* A turn of a seated being is aborted by !stop alone.                     *)
NoticedIfAborted(r, b) ==
  Open(r, b) /\ Seated(b) /\ outcome'[turns[r][b].id] = "aborted"
    => Last(record'[r]).type = "notice"

(* The last of two sequences joined is the last of the second.             *)
LEMMA LastOfConcatenation ==
  ASSUME NEW s \in Seq(Frame), NEW more \in Seq(Frame), NEW f \in Frame
  PROVE  Last(s \o more \o << f >>) = f
<1>1. s \o more \in Seq(Frame)
  OBVIOUS
<1> DEFINE u == s \o more
<1>2. u \in Seq(Frame)
  BY <1>1
<1> HIDE DEF u
<1>3. Len(u \o << f >>) = Len(u) + 1
  BY <1>2
<1>4. (u \o << f >>)[Len(u) + 1] = f
  BY <1>2
<1> QED
  BY <1>3, <1>4 DEF Last, u

(* No step aborts a seated being's turn but with a notice last.            *)
LEMMA StepNotices ==
  ASSUME Promises, WaitingTurnHasTimer, [Next]_vars,
         NEW r \in Rooms, NEW b \in Beings
  PROVE  NoticedIfAborted(r, b)
<1> SUFFICES ASSUME Open(r, b), Seated(b), outcome'[turns[r][b].id] = "aborted"
             PROVE  Last(record'[r]).type = "notice"
  BY DEF NoticedIfAborted
<1> DEFINE t == turns[r][b].id
<1>0. TypeOK
  BY DEF Promises
<1>1. TypeOK /\ t \in TurnIds
  <2>1. turns[r][b] \in Turn
    BY <1>0 DEF TypeOK
  <2>2. turns[r][b].id \in 0 .. MaxTurns /\ turns[r][b].id # 0
    BY <2>1 DEF Turn, Open
  <2> QED
    BY <1>0, <2>2, RoomTurnsAssumption DEF TurnIds
<1>2. outcome[t] = "open"
  BY <1>1, RoomTurnsAssumption DEF Promises, PromisesMatchTurns, Holds, TurnIds
<1>3. outcome' # outcome
  BY <1>2
<1>4. ASSUME NEW q \in Rooms, NEW c \in Beings, NEW kind,
             outcome' = [outcome EXCEPT ![turns[q][c].id] = kind]
      PROVE  q = r /\ c = b /\ kind = "aborted"
  <2>1. turns[q][c].id = t
    BY <1>1, <1>2, <1>4 DEF TypeOK
  <2>2. kind = "aborted"
    BY <1>1, <1>4, <2>1 DEF TypeOK
  <2> QED
    BY <2>1, <2>2 DEF Promises, PromisesMatchTurns
<1>5. ASSUME NEW kind, kind # "aborted",
             outcome' = [outcome EXCEPT ![issued + 1] = kind]
      PROVE  FALSE
  BY <1>1, <1>2, <1>5 DEF TypeOK
<1>6. ASSUME NEW q \in Rooms, NEW c \in Beings, FromHouse(q, c)
      PROVE  Last(record'[r]).type = "notice"
  <2>1. ~BeginTurn(q, c) /\ ~BeginTurnFails(q, c)
    BY <1>5 DEF BeginTurn, BeginTurnFails
  <2>2. ~ApplySteer(q, c)
    BY <1>3 DEF ApplySteer, house
  <2>3. CASE ApplyInterrupt(q, c)
    <3>1. q = r /\ c = b
      BY <2>3, <1>4 DEF ApplyInterrupt, CloseTurn
    <3>2. record' = [record EXCEPT ![r] =
                       @ \o Abandoned(r, b) \o << Plain("notice", b, t) >>]
      BY <2>3, <3>1 DEF ApplyInterrupt, CloseTurn
    <3>3. record'[r] = record[r] \o Abandoned(r, b) \o << Plain("notice", b, t) >>
      BY <1>1, <3>2 DEF TypeOK
    <3>4. Plain("notice", b, t) \in Frame
      BY <1>1, PlainIsTyped DEF TurnIds, FrameTypes
    <3>5. Last(record'[r]) = Plain("notice", b, t)
      <4>1. record[r] \in Seq(Frame) /\ Abandoned(r, b) \in Seq(Frame)
        BY <1>0, AbandonedIsTyped DEF TypeOK
      <4> QED
        BY <3>3, <3>4, <4>1, LastOfConcatenation
    <3> QED
      BY <3>5 DEF Plain, FrameOf
  <2> QED
    BY <1>6, <2>1, <2>2, <2>3 DEF FromHouse
<1>7. ASSUME NEW q \in Rooms, NEW c \in Beings, NEW u \in TurnIds, FromBeing(q, c, u)
      PROVE  FALSE
  <2>1. ~TurnDone(q, c, u)
    <3> SUFFICES ASSUME TurnDone(q, c, u) PROVE FALSE
      OBVIOUS
    <3>1. outcome' = [outcome EXCEPT ![turns[q][c].id] = "done"]
      BY DEF TurnDone, Hears, Holds
    <3> QED
      BY <1>4, <3>1
  <2>2. ~TurnError(q, c, u)
    <3> SUFFICES ASSUME TurnError(q, c, u) PROVE FALSE
      OBVIOUS
    <3>1. outcome' = [outcome EXCEPT ![turns[q][c].id] = "error"]
      BY DEF TurnError, CloseTurn
    <3> QED
      BY <1>4, <3>1
  <2> QED
    BY <1>1, <1>3, <1>7, <2>1, <2>2, FoldKeepsIds DEF FromBeing
<1>8. ASSUME NEW how \in {"killed", "threw"}, ProcessExit(how)
      PROVE  FALSE
  BY <1>1, <1>2, <1>8 DEF ProcessExit
<1>9. ASSUME Timer
      PROVE  FALSE
  <2>1. ASSUME NEW g \in graceTimers, GraceExpires(g)
        PROVE  FALSE
    <3>1. StillWaiting(g)
      BY <1>3, <2>1 DEF GraceExpires
    <3>2. g.room \in Rooms /\ g.being \in Beings
      BY <1>1 DEF TypeOK
    <3>3. g.room = r /\ g.being = b
      BY <2>1, <3>1, <3>2, <1>4 DEF GraceExpires, CloseTurn
    <3> QED
      BY <3>1, <3>3 DEF StillWaiting, WaitingTurnHasTimer
  <2>2. ASSUME NEW w \in wakes, ReactivateIdle(w)
        PROVE  FALSE
    BY <1>3, <2>2 DEF ReactivateIdle
  <2>3. ASSUME NEW w \in wakes, Reactivate(w)
        PROVE  FALSE
    BY <1>5, <2>3 DEF Reactivate
  <2>4. ASSUME NEW w \in wakes, ReactivateThrows(w)
        PROVE  FALSE
    BY <1>8, <2>4 DEF ReactivateThrows
  <2> QED
    BY <1>9, <2>1, <2>2, <2>3, <2>4 DEF Timer
<1>10. ASSUME \/ \E c \in Beings : HandleSeatExit(c) \/ HandleSeatReturn(c)
              \/ \E x \in running : ToolReturns(x)
              \/ \E q \in Rooms, on \in BOOLEAN : Autotrigger(q, on)
              \/ Restart \/ Tick \/ UNCHANGED vars
       PROVE  FALSE
  BY <1>3, <1>10
  DEF HandleSeatExit, HandleSeatReturn, ToolReturns, Autotrigger, Restart, Tick, vars, house
<1> QED
  BY <1>6, <1>7, <1>8, <1>9, <1>10 DEF Next, Running

(* Whatever timers a being's absences left armed, a seat that came back    *)
(* keeps its turn: of a seated being's turns only !stop aborts one.        *)
THEOREM SeatKeepsItsTurn == Spec => SeatedTurnNotAborted
<1> DEFINE Inv == Promises /\ WaitingTurnHasTimer
<1>1. Init => Inv
  <2>1. ASSUME Init PROVE WaitingTurnHasTimer
    BY <2>1, NoTurnIsTyped DEF Init, WaitingTurnHasTimer, Open
  <2> QED
    BY <2>1, InitPromises
<1>2. Inv /\ [Next]_vars => Inv'
  BY NextKeepsPromises, NextKeepsTimers DEF Promises
<1>3. Inv /\ [Next]_vars =>
        [\A r \in Rooms, b \in Beings : NoticedIfAborted(r, b)]_vars
  BY StepNotices
<1>4. (\A r \in Rooms, b \in Beings : NoticedIfAborted(r, b)) =>
        (\A r \in Rooms, b \in Beings :
           Open(r, b) /\ Seated(b) /\ outcome'[turns[r][b].id] = "aborted"
             => Last(record'[r]).type = "notice")
  BY DEF NoticedIfAborted
<1> QED
  BY <1>1, <1>2, <1>3, <1>4, PTL DEF Spec, SeatedTurnNotAborted

-----------------------------------------------------------------------------
(* The record agrees with what the promises resolved to.                   *)

(* What a step writes, to room r.  Fits says of each frame that its turn   *)
(* was not over, if it speaks, and has just ended so, if it is an ending.  *)
Writes(r, more) == record' = [record EXCEPT ![r] = @ \o more]

Over(t) == outcome[t] \in {"done", "error", "aborted"}

Fits(f) ==
  /\ f.turn \in TurnIds
  /\ f.type \in Speaking => ~Over(f.turn)
  /\ f.type = "final" => outcome'[f.turn] = "done"
  /\ f.type = "aborted" => outcome'[f.turn] \in {"error", "aborted"}

EndsOnce(more) ==
  \A i, j \in 1 .. Len(more) :
    i < j /\ more[i].type \in Ending => more[j].type \notin Speaking

(* Every frame names a turn that was issued.                               *)
TurnsNamed == \A r \in Rooms : \A i \in 1 .. Len(record[r]) : record[r][i].turn \in TurnIds

(* What is over stays as it ended.                                         *)
OverStays == \A t \in TurnIds : Over(t) => outcome'[t] = outcome[t]

(* The room's record after it was extended, frame by frame.                *)
LEMMA Extended ==
  ASSUME TypeOK, NEW r \in Rooms, NEW more \in Seq(Frame), Writes(r, more)
  PROVE  /\ \A q \in Rooms : q # r => record'[q] = record[q]
         /\ Len(record[r]) \in Nat /\ Len(more) \in Nat
         /\ Len(record'[r]) = Len(record[r]) + Len(more)
         /\ \A i \in 1 .. Len(record[r]) : record'[r][i] = record[r][i]
         /\ \A i \in 1 .. Len(record'[r]) :
              i > Len(record[r]) =>
                i - Len(record[r]) \in 1 .. Len(more) /\ record'[r][i] = more[i - Len(record[r])]
<1>1. record[r] \in Seq(Frame) /\ record'[r] = record[r] \o more
  BY DEF TypeOK, Writes
<1>2. \A q \in Rooms : q # r => record'[q] = record[q]
  BY DEF TypeOK, Writes
<1>3. Len(record[r]) \in Nat /\ Len(more) \in Nat
  BY <1>1, LenProperties
<1> QED
  BY <1>1, <1>2, <1>3, ConcatProperties

(* Frames that fit keep the record in agreement with the promises.         *)
LEMMA RecordGrows ==
  ASSUME TypeOK, NEW r \in Rooms, NEW more \in Seq(Frame), Writes(r, more),
         \A k \in 1 .. Len(more) : Fits(more[k]), EndsOnce(more), OverStays,
         RecordMatchesOutcome, TurnsNamed
  PROVE  RecordMatchesOutcome' /\ TurnsNamed'
<1> DEFINE old == Len(record[r])
<1>0. old \in Nat /\ Len(more) \in Nat
  BY Extended
<1>1. \A q \in Rooms : \A i \in 1 .. Len(record'[q]) :
        \/ i \in 1 .. Len(record[q]) /\ record'[q][i] = record[q][i]
        \/ q = r /\ i > old /\ i - old \in 1 .. Len(more) /\ record'[q][i] = more[i - old]
  <2> SUFFICES ASSUME NEW q \in Rooms, NEW i \in 1 .. Len(record'[q])
               PROVE  \/ i \in 1 .. Len(record[q]) /\ record'[q][i] = record[q][i]
                      \/ q = r /\ i > old /\ i - old \in 1 .. Len(more) /\ record'[q][i] = more[i - old]
    OBVIOUS
  <2>1. CASE q # r
    BY <2>1, Extended
  <2>2. CASE q = r
    <3>1. i \in 1 .. old \/ i > old
      BY <1>0
    <3> QED
      BY <2>2, <3>1, Extended
  <2> QED
    BY <2>1, <2>2
<1>2. TurnsNamed'
  BY <1>1 DEF TurnsNamed, Fits, TurnIds
<1>3. ASSUME NEW q \in Rooms, NEW i \in 1 .. Len(record'[q])
      PROVE  LET f == record'[q][i]
             IN  /\ f.type = "final" => outcome'[f.turn] = "done"
                 /\ f.type = "aborted" => outcome'[f.turn] \in {"error", "aborted"}
  <2>1. CASE i \in 1 .. Len(record[q]) /\ record'[q][i] = record[q][i]
    BY <2>1 DEF RecordMatchesOutcome, TurnsNamed, OverStays, Over
  <2>2. CASE q = r /\ i - old \in 1 .. Len(more) /\ record'[q][i] = more[i - old]
    BY <2>2 DEF Fits
  <2> QED
    BY <1>1, <2>1, <2>2
<1>4. ASSUME NEW q \in Rooms, NEW i \in 1 .. Len(record'[q]), NEW j \in i + 1 .. Len(record'[q]),
             record'[q][i].type \in Ending, record'[q][j].turn = record'[q][i].turn
      PROVE  record'[q][j].type \notin Speaking
  <2>0. Len(record[q]) \in Nat /\ Len(record'[q]) \in Nat /\ i < j /\ j \in 1 .. Len(record'[q])
    BY Extended, LenProperties DEF TypeOK
  <2>1. CASE j \in 1 .. Len(record[q]) /\ record'[q][j] = record[q][j] /\ ~(q = r /\ j > old)
    <3>1. i \in 1 .. Len(record[q]) /\ record'[q][i] = record[q][i]
      BY <1>1, <2>0, <2>1
    <3> QED
      BY <2>0, <2>1, <3>1, <1>4 DEF RecordMatchesOutcome
  <2>2. CASE q = r /\ j > old /\ j - old \in 1 .. Len(more) /\ record'[q][j] = more[j - old]
    <3>1. CASE i \in 1 .. Len(record[q]) /\ record'[q][i] = record[q][i]
      <4>1. Over(record[q][i].turn)
        BY <3>1, <1>4 DEF RecordMatchesOutcome, Over, Ending
      <4> QED
        BY <4>1, <2>2, <3>1, <1>4 DEF Fits
    <3>2. CASE i > old /\ i - old \in 1 .. Len(more) /\ record'[q][i] = more[i - old]
      <4>1. i - old < j - old
        BY <1>0, <2>0
      <4> QED
        BY <4>1, <2>2, <3>2, <1>4 DEF EndsOnce
    <3> QED
      BY <1>1, <3>1, <3>2, <2>2
  <2>3. q = r => Len(record[q]) = old
    OBVIOUS
  <2> QED
    BY <1>0, <1>1, <2>0, <2>1, <2>2, <2>3
<1> QED
  BY <1>2, <1>3, <1>4 DEF RecordMatchesOutcome

(* The frames of two sequences written one after the other.                *)
LEMMA Joined ==
  ASSUME NEW s \in Seq(Frame), NEW u \in Seq(Frame)
  PROVE  /\ s \o u \in Seq(Frame)
         /\ Len(s) \in Nat /\ Len(u) \in Nat /\ Len(s \o u) = Len(s) + Len(u)
         /\ \A k \in 1 .. Len(s) + Len(u) :
              \/ k \in 1 .. Len(s) /\ (s \o u)[k] = s[k]
              \/ k > Len(s) /\ k - Len(s) \in 1 .. Len(u) /\ (s \o u)[k] = u[k - Len(s)]
<1>1. Len(s) \in Nat /\ Len(u) \in Nat
  BY LenProperties
<1> QED
  BY <1>1, ConcatProperties

(* What fits may follow what fits and holds no ending.                     *)
LEMMA JoinFits ==
  ASSUME NEW s \in Seq(Frame), \A k \in 1 .. Len(s) : Fits(s[k]) /\ s[k].type \notin Ending,
         NEW u \in Seq(Frame), \A k \in 1 .. Len(u) : Fits(u[k]), EndsOnce(u)
  PROVE  s \o u \in Seq(Frame) /\ (\A k \in 1 .. Len(s \o u) : Fits((s \o u)[k])) /\ EndsOnce(s \o u)
<1> DEFINE more == s \o u
<1>1. /\ more \in Seq(Frame)
      /\ Len(s) \in Nat /\ Len(u) \in Nat /\ Len(more) = Len(s) + Len(u)
      /\ \A k \in 1 .. Len(s) + Len(u) :
           \/ k \in 1 .. Len(s) /\ more[k] = s[k]
           \/ k > Len(s) /\ k - Len(s) \in 1 .. Len(u) /\ more[k] = u[k - Len(s)]
  BY Joined
<1> HIDE DEF more
<1>2. \A k \in 1 .. Len(more) : Fits(more[k])
  BY <1>1
<1>3. EndsOnce(more)
  <2> SUFFICES ASSUME NEW i \in 1 .. Len(more), NEW j \in 1 .. Len(more), i < j,
                      more[i].type \in Ending
               PROVE  more[j].type \notin Speaking
    BY DEF EndsOnce
  <2>1. i > Len(s) /\ i - Len(s) \in 1 .. Len(u) /\ more[i] = u[i - Len(s)]
    BY <1>1
  <2>2. j - Len(s) \in 1 .. Len(u) /\ more[j] = u[j - Len(s)] /\ i - Len(s) < j - Len(s)
    BY <1>1, <2>1
  <2> QED
    BY <2>1, <2>2 DEF EndsOnce
<1> QED
  BY <1>1, <1>2, <1>3 DEF more

(* A held segment fits as an interim one while its turn is open.           *)
LEMMA FlushedFits ==
  ASSUME NEW b \in Beings, NEW turn \in Turn, turn.id \in TurnIds, ~Over(turn.id)
  PROVE  /\ Flushed(b, turn, "interim") \in Seq(Frame)
         /\ \A k \in 1 .. Len(Flushed(b, turn, "interim")) :
              /\ Fits(Flushed(b, turn, "interim")[k])
              /\ Flushed(b, turn, "interim")[k].type \notin Ending
<1> DEFINE f == FrameOf("interim", b, turn.id, turn.pending, 0)
<1>1. f \in Frame
  BY FrameIsTyped DEF Turn, FrameTypes
<1>2. f.turn = turn.id /\ f.type = "interim"
  BY DEF FrameOf
<1>3. Flushed(b, turn, "interim") \in {<< >>, << f >>}
  BY DEF Flushed
<1>4. Fits(f) /\ f.type \notin Ending
  BY <1>2 DEF Fits, Ending
<1> HIDE DEF f
<1> DEFINE s == Flushed(b, turn, "interim")
<1>5. s \in {<< >>, << f >>}
  BY <1>3
<1> HIDE DEF s
<1>6. s \in Seq(Frame) /\ \A k \in 1 .. Len(s) : s[k] = f
  <2>1. CASE s = << >>
    BY <2>1
  <2>2. CASE s = << f >>
    BY <1>1, <2>2, OneFrame
  <2> QED
    BY <1>5, <2>1, <2>2
<1>7. s \in Seq(Frame) /\ \A k \in 1 .. Len(s) : Fits(s[k]) /\ s[k].type \notin Ending
  BY <1>4, <1>6
<1> QED
  BY <1>7 DEF s

(* One or two frames that are no ending fit together; so does one alone.   *)
LEMMA OneFits ==
  ASSUME NEW f \in Frame, Fits(f)
  PROVE  /\ << f >> \in Seq(Frame) /\ \A k \in 1 .. Len(<< f >>) : Fits(<< f >>[k])
         /\ EndsOnce(<< f >>)
  BY DEF EndsOnce

(* Two frames fit if only the second speaks, or the first is no ending.    *)
LEMMA TwoFit ==
  ASSUME NEW f \in Frame, NEW g \in Frame, Fits(f), Fits(g),
         f.type \in Ending => g.type \notin Speaking
  PROVE  /\ << f, g >> \in Seq(Frame) /\ \A k \in 1 .. Len(<< f, g >>) : Fits(<< f, g >>[k])
         /\ EndsOnce(<< f, g >>)
  BY DEF EndsOnce

(* So does nothing.                                                        *)
LEMMA NoneFits ==
  /\ << >> \in Seq(Frame) /\ \A k \in 1 .. Len(<< >>) : Fits(<< >>[k])
  /\ EndsOnce(<< >>)
  BY DEF EndsOnce

(* A frame without speech needs a turn only.                               *)
LEMMA QuietFits ==
  ASSUME NEW type \in {"result", "notice", "message"}, NEW b \in Beings, NEW t \in TurnIds, NEW of \in Nat
  PROVE  /\ FrameOf(type, b, t, NoSegment, of) \in Frame /\ Fits(FrameOf(type, b, t, NoSegment, of))
         /\ FrameOf(type, b, t, NoSegment, of).type = type
         /\ Plain(type, b, t) \in Frame /\ Fits(Plain(type, b, t)) /\ Plain(type, b, t).type = type
<1>1. t \in 0 .. MaxTurns /\ type \in FrameTypes /\ type \notin Speaking /\ 0 \in Nat
  BY DEF TurnIds, FrameTypes, Speaking
<1>2. \A n \in Nat : FrameOf(type, b, t, NoSegment, n) \in Frame
  BY <1>1, FrameIsTyped
<1>3. \A n \in Nat : /\ FrameOf(type, b, t, NoSegment, n).turn = t
                     /\ FrameOf(type, b, t, NoSegment, n).type = type
  BY DEF FrameOf
<1> QED
  BY <1>1, <1>2, <1>3 DEF Fits, Plain

(* A reach fits while its turn is open.                                    *)
LEMMA ReachFits ==
  ASSUME NEW b \in Beings, NEW t \in TurnIds, NEW of \in Nat, ~Over(t)
  PROVE  /\ FrameOf("reach", b, t, NoSegment, of) \in Frame /\ Fits(FrameOf("reach", b, t, NoSegment, of))
         /\ FrameOf("reach", b, t, NoSegment, of).type = "reach"
         /\ Plain("reach", b, t) \in Frame /\ Fits(Plain("reach", b, t))
<1>1. t \in 0 .. MaxTurns /\ "reach" \in FrameTypes /\ 0 \in Nat
  BY DEF TurnIds, FrameTypes
<1>2. \A n \in Nat : FrameOf("reach", b, t, NoSegment, n) \in Frame
  BY <1>1, FrameIsTyped
<1>3. \A n \in Nat : /\ FrameOf("reach", b, t, NoSegment, n).turn = t
                     /\ FrameOf("reach", b, t, NoSegment, n).type = "reach"
  BY DEF FrameOf
<1> QED
  BY <1>1, <1>2, <1>3 DEF Fits, Plain

(* Two frames are the one and then the other.                             *)
LEMMA PairIsJoined ==
  ASSUME NEW f \in Frame, NEW g \in Frame
  PROVE  << f >> \o << g >> = << f, g >> /\ << f >> \o << >> = << f >>
<1> DEFINE s == << f >> \o << g >>
<1>1. << f >> \in Seq(Frame) /\ << g >> \in Seq(Frame) /\ << f, g >> \in Seq(Frame)
  OBVIOUS
<1>2. s \in Seq(Frame) /\ Len(s) = 2 /\ s[1] = f /\ s[2] = g
  BY <1>1
<1> HIDE DEF s
<1>3. s = << f, g >>
  BY <1>1, <1>2, SeqEqual
<1>4. << f >> \o << >> = << f >>
  BY <1>1, ConcatEmptySeq
<1> QED
  BY <1>3, <1>4 DEF s

(* What is written after a frame, and the frame, are written together.    *)
LEMMA OneThenMore ==
  ASSUME NEW s \in Seq(Frame), NEW f \in Frame, NEW g \in Frame
  PROVE  /\ s \o << f >> \o << >> = s \o << f >>
         /\ s \o << f >> \o << g >> = s \o << f, g >>
         /\ Append(s, f) = s \o << f >>
<1>1. << f >> \in Seq(Frame) /\ << g >> \in Seq(Frame) /\ << >> \in Seq(Frame)
  OBVIOUS
<1>2. s \o << f >> \o << >> = s \o (<< f >> \o << >>)
  BY <1>1, ConcatAssociative
<1>3. s \o << f >> \o << g >> = s \o (<< f >> \o << g >>)
  BY <1>1, ConcatAssociative
<1> QED
  BY <1>2, <1>3, PairIsJoined, AppendIsConcat

(* A turn in flight is no turn that is over.                               *)
LEMMA OpenIsNotOver ==
  ASSUME Promises, NEW r \in Rooms, NEW b \in Beings, Open(r, b)
  PROVE  /\ turns[r][b] \in Turn /\ turns[r][b].id \in TurnIds
         /\ outcome[turns[r][b].id] = "open" /\ ~Over(turns[r][b].id)
<1>1. turns[r][b] \in Turn /\ turns[r][b].id \in TurnIds
  BY RoomTurnsAssumption DEF Promises, TypeOK, Turn, TurnIds, Open
<1>2. outcome[turns[r][b].id] = "open"
  BY <1>1 DEF Promises, PromisesMatchTurns, Holds, Open
<1> QED
  BY <1>1, <1>2 DEF Over

(* A step's frames: none, or some of one room that fit.                    *)
Adds(r) == \E more \in Seq(Frame) :
             Writes(r, more) /\ (\A k \in 1 .. Len(more) : Fits(more[k])) /\ EndsOnce(more)

(* One outcome of a turn that was not over leaves the others.              *)
LEMMA OutcomeSet ==
  ASSUME TypeOK, NEW t \in TurnIds, ~Over(t), NEW kind,
         outcome' = [outcome EXCEPT ![t] = kind]
  PROVE  OverStays /\ outcome'[t] = kind
  BY DEF TypeOK, OverStays, Over

(* A turn that closes badly: an aborted frame, and a notice after it.      *)
LEMMA CloseWrites ==
  ASSUME Promises, NEW r \in Rooms, NEW b \in Beings, Open(r, b),
         NEW kind \in {"error", "aborted"}, NEW more,
         more \in {<< >>, << Plain("notice", b, turns[r][b].id) >>},
         CloseTurn(r, b, kind, more)
  PROVE  OverStays /\ Adds(r)
<1> DEFINE t == turns[r][b].id
           f == Plain("aborted", b, t)
           g == Plain("notice", b, t)
<1>1. t \in TurnIds /\ ~Over(t) /\ TypeOK
  BY OpenIsNotOver DEF Promises
<1>2. OverStays /\ outcome'[t] = kind
  BY <1>1, OutcomeSet DEF CloseTurn
<1>3. f \in Frame /\ f.type = "aborted" /\ f.turn = t
  BY <1>1, PlainIsTyped DEF FrameTypes, TurnIds, Plain, FrameOf
<1>4. g \in Frame /\ Fits(g) /\ g.type = "notice"
  BY <1>1, QuietFits
<1>5. record' = [record EXCEPT ![r] = @ \o << f >> \o more] /\ more \in {<< >>, << g >>}
  BY DEF CloseTurn, Abandoned
<1>7. Fits(f)
  BY <1>1, <1>2, <1>3 DEF Fits
<1> HIDE DEF f, g, t
<1>6. record[r] \in Seq(Frame)
  BY <1>1 DEF TypeOK
<1>8. CASE more = << >>
  <2>1. Writes(r, << f >>)
    BY <1>3, <1>4, <1>5, <1>6, <1>8, OneThenMore DEF Writes
  <2> QED
    BY <1>2, <1>3, <1>7, <2>1, OneFits DEF Adds
<1>9. CASE more = << g >>
  <2>1. Writes(r, << f, g >>)
    BY <1>3, <1>4, <1>5, <1>6, <1>9, OneThenMore DEF Writes
  <2>2. g.type \notin Speaking
    BY <1>4 DEF Speaking
  <2>3. << f, g >> \in Seq(Frame) /\ (\A k \in 1 .. Len(<< f, g >>) : Fits(<< f, g >>[k])) /\ EndsOnce(<< f, g >>)
    BY <1>3, <1>4, <1>7, <2>2, TwoFit
  <2> QED
    BY <1>2, <2>1, <2>3 DEF Adds
<1> QED
  BY <1>5, <1>8, <1>9

(* What beginTurn, !stop and !steer write fits.                            *)
LEMMA HouseAdds ==
  ASSUME Promises, NEW r \in Rooms, NEW b \in Beings, FromHouse(r, b)
  PROVE  OverStays /\ (UNCHANGED record \/ Adds(r))
<1>0. TypeOK
  BY DEF Promises
<1>1. CASE BeginTurn(r, b)
  <2>1. issued + 1 \in TurnIds /\ issued + 1 > issued
    BY <1>0, <1>1, RoomTurnsAssumption DEF BeginTurn, TypeOK, TurnIds
  <2>2. ~Over(issued + 1)
    BY <2>1 DEF Promises, UnissuedUnborn, Over
  <2> QED
    BY <1>0, <1>1, <2>1, <2>2, OutcomeSet DEF BeginTurn
<1>2. CASE BeginTurnFails(r, b)
  <2> DEFINE f == Plain("aborted", b, issued + 1)
  <2>1. issued + 1 \in TurnIds /\ issued + 1 > issued
    BY <1>0, <1>2, RoomTurnsAssumption DEF BeginTurnFails, TypeOK, TurnIds
  <2>2. ~Over(issued + 1)
    BY <2>1 DEF Promises, UnissuedUnborn, Over
  <2>3. OverStays /\ outcome'[issued + 1] = "error"
    BY <1>0, <1>2, <2>1, <2>2, OutcomeSet DEF BeginTurnFails
  <2>4. f \in Frame /\ f.type = "aborted" /\ f.turn = issued + 1
    BY <2>1, PlainIsTyped DEF FrameTypes, TurnIds, Plain, FrameOf
  <2>5. Fits(f)
    BY <2>1, <2>2, <2>3, <2>4 DEF Fits
  <2>6. record' = [record EXCEPT ![r] = Append(@, f)]
    BY <1>2 DEF BeginTurnFails
  <2> HIDE DEF f
  <2>7. Writes(r, << f >>)
    <3>1. Append(record[r], f) = record[r] \o << f >>
      BY <1>0, <2>4, OneThenMore DEF TypeOK
    <3> QED
      BY <2>6, <3>1 DEF Writes
  <2> QED
    BY <2>3, <2>4, <2>5, <2>7, OneFits DEF Adds
<1>3. CASE ApplyInterrupt(r, b)
  BY <1>3, CloseWrites DEF ApplyInterrupt
<1>4. CASE ApplySteer(r, b)
  <2> DEFINE f == Plain("message", b, turns[r][b].id)
  <2>1. f \in Frame /\ Fits(f)
    BY <1>4, OpenIsNotOver, QuietFits DEF ApplySteer
  <2>2. record' = [record EXCEPT ![r] = Append(@, f)]
    BY <1>4 DEF ApplySteer
  <2> HIDE DEF f
  <2>3. Writes(r, << f >>)
    <3>1. Append(record[r], f) = record[r] \o << f >>
      BY <1>0, <2>1, OneThenMore DEF TypeOK
    <3> QED
      BY <2>2, <3>1 DEF Writes
  <2>4. OverStays
    BY <1>4 DEF ApplySteer, house, OverStays
  <2> QED
    BY <2>1, <2>3, <2>4, OneFits DEF Adds
<1> QED
  BY <1>1, <1>2, <1>3, <1>4 DEF FromHouse

(* A held segment and what follows it, written while the turn is open.     *)
LEMMA FoldAdds ==
  ASSUME Promises, NEW r \in Rooms, NEW b \in Beings, Open(r, b),
         NEW rest \in Seq(Frame), \A k \in 1 .. Len(rest) : Fits(rest[k]), EndsOnce(rest),
         record' = [record EXCEPT ![r] = @ \o Flushed(b, turns[r][b], "interim") \o rest]
  PROVE  Adds(r)
<1> DEFINE s == Flushed(b, turns[r][b], "interim")
<1>1. /\ s \in Seq(Frame)
      /\ \A k \in 1 .. Len(s) : Fits(s[k]) /\ s[k].type \notin Ending
  BY OpenIsNotOver, FlushedFits
<1>2. record' = [record EXCEPT ![r] = @ \o s \o rest]
  OBVIOUS
<1> HIDE DEF s
<1>3. s \o rest \in Seq(Frame) /\ (\A k \in 1 .. Len(s \o rest) : Fits((s \o rest)[k])) /\ EndsOnce(s \o rest)
  BY <1>1, JoinFits
<1>4. record[r] \o s \o rest = record[r] \o (s \o rest)
  BY <1>1, ConcatAssociative DEF Promises, TypeOK
<1>5. Writes(r, s \o rest)
  BY <1>2, <1>4 DEF Writes
<1> QED
  BY <1>3, <1>5 DEF Adds

(* The held segment of a turn that ends well is its last word.             *)
LEMMA DoneAdds ==
  ASSUME Promises, NEW r \in Rooms, NEW b \in Beings, NEW t \in TurnIds, TurnDone(r, b, t)
  PROVE  OverStays /\ Adds(r)
<1> DEFINE f == FrameOf("final", b, t, turns[r][b].pending, 0)
           g == Plain("message", b, t)
           said == Flushed(b, turns[r][b], "final")
<1>1. Open(r, b) /\ turns[r][b].id = t /\ TypeOK
  BY DEF TurnDone, Hears, Holds, Open, Promises
<1>2. turns[r][b] \in Turn /\ ~Over(t)
  BY <1>1, OpenIsNotOver
<1>3. OverStays /\ outcome'[t] = "done"
  BY <1>1, <1>2, OutcomeSet DEF TurnDone
<1>4. f \in Frame /\ f.type = "final" /\ f.turn = t
  BY <1>2, FrameIsTyped DEF FrameTypes, TurnIds, Turn, FrameOf
<1>5. Fits(f)
  BY <1>2, <1>3, <1>4 DEF Fits
<1>6. g \in Frame /\ Fits(g) /\ g.type \notin Speaking
  BY QuietFits DEF Speaking
<1>7. said \in {<< >>, << f >>}
  BY <1>1 DEF Flushed
<1>8. \/ record' = [record EXCEPT ![r] = @ \o said \o << g >>]
      \/ record' = [record EXCEPT ![r] = @ \o said]
  BY DEF TurnDone
<1>9. record[r] \in Seq(Frame)
  BY <1>1 DEF TypeOK
<1> HIDE DEF f, g, said
<1>10. \/ Writes(r, << >>) \/ Writes(r, << f >>) \/ Writes(r, << g >>) \/ Writes(r, << f, g >>)
  <2>1. record[r] \o << >> = record[r]
    BY <1>9, ConcatEmptySeq
  <2> QED
    BY <1>4, <1>6, <1>7, <1>8, <1>9, <2>1, OneThenMore DEF Writes
<1>11. << f, g >> \in Seq(Frame) /\ (\A k \in 1 .. Len(<< f, g >>) : Fits(<< f, g >>[k])) /\ EndsOnce(<< f, g >>)
  BY <1>4, <1>5, <1>6, TwoFit
<1>12. CASE Writes(r, << >>)
  BY <1>3, <1>12, NoneFits DEF Adds
<1>13. CASE Writes(r, << f >>)
  BY <1>3, <1>4, <1>5, <1>13, OneFits DEF Adds
<1>14. CASE Writes(r, << g >>)
  BY <1>3, <1>6, <1>14, OneFits DEF Adds
<1>15. CASE Writes(r, << f, g >>)
  BY <1>3, <1>11, <1>15 DEF Adds
<1> QED
  BY <1>3, <1>10, <1>12, <1>13, <1>14, <1>15

(* What a being's messages make the house write fits.                      *)
LEMMA BeingAdds ==
  ASSUME Promises, NEW r \in Rooms, NEW b \in Beings, NEW t \in TurnIds, FromBeing(r, b, t)
  PROVE  OverStays /\ (UNCHANGED record \/ Adds(r))
<1>0. TypeOK /\ Open(r, b) /\ turns[r][b].id = t
  BY RoomTurnsAssumption
  DEF Promises, FromBeing, FoldFinal, FoldReach, ToolExec, ToolExecAtOnce, TurnDone, TurnError,
      Hears, Holds, Open
<1>1. ~Over(t)
  BY <1>0, OpenIsNotOver
<1>2. ASSUME UNCHANGED outcome PROVE OverStays
  BY <1>2 DEF OverStays
<1>3. ASSUME NEW text \in Segments, FoldFinal(r, b, t, text)
      PROVE  OverStays /\ Adds(r)
  <2> DEFINE s == Flushed(b, turns[r][b], "interim")
  <2>1. /\ s \in Seq(Frame)
        /\ \A k \in 1 .. Len(s) : Fits(s[k]) /\ s[k].type \notin Ending
    BY <1>0, OpenIsNotOver, FlushedFits
  <2>2. Writes(r, s)
    BY <1>3 DEF FoldFinal, Writes
  <2> HIDE DEF s
  <2>3. EndsOnce(s)
    BY <2>1 DEF EndsOnce
  <2> QED
    BY <1>2, <1>3, <2>1, <2>2, <2>3 DEF FoldFinal, Adds
<1>4. CASE FoldReach(r, b, t)
  <2> DEFINE f == Plain("reach", b, t)
  <2>1. f \in Frame /\ Fits(f)
    BY <1>1, ReachFits
  <2>2. record' = [record EXCEPT ![r] = @ \o Flushed(b, turns[r][b], "interim") \o << f >>]
    BY <1>4 DEF FoldReach
  <2> HIDE DEF f
  <2>3. Adds(r)
    BY <1>0, <2>1, <2>2, OneFits, FoldAdds
  <2> QED
    BY <1>2, <1>4, <2>3 DEF FoldReach
<1>5. NextReach(r, b) \in Nat
  BY <1>0, NoneFits, FoldIsTyped DEF NextReach, FrameTypes
<1>6. CASE ToolExec(r, b, t)
  <2> DEFINE f == FrameOf("reach", b, t, NoSegment, NextReach(r, b))
  <2>1. f \in Frame /\ Fits(f)
    BY <1>1, <1>5, ReachFits
  <2>2. record' = [record EXCEPT ![r] = @ \o Flushed(b, turns[r][b], "interim") \o << f >>]
    BY <1>6 DEF ToolExec
  <2> HIDE DEF f
  <2>3. Adds(r)
    BY <1>0, <2>1, <2>2, OneFits, FoldAdds
  <2> QED
    BY <1>2, <1>6, <2>3 DEF ToolExec
<1>7. ASSUME NEW asks \in BOOLEAN, ToolExecAtOnce(r, b, t, asks)
      PROVE  OverStays /\ Adds(r)
  <2> DEFINE f == FrameOf("reach", b, t, NoSegment, NextReach(r, b))
             g == FrameOf("result", b, t, NoSegment, NextReach(r, b))
  <2>1. f \in Frame /\ Fits(f) /\ f.type = "reach"
    BY <1>1, <1>5, ReachFits
  <2>2. g \in Frame /\ Fits(g)
    BY <1>5, QuietFits
  <2>3. record' = [record EXCEPT ![r] = @ \o Flushed(b, turns[r][b], "interim") \o << f, g >>]
    BY <1>7 DEF ToolExecAtOnce
  <2> HIDE DEF f, g
  <2>4. f.type \notin Ending
    BY <2>1 DEF Ending
  <2>5. << f, g >> \in Seq(Frame) /\ (\A k \in 1 .. Len(<< f, g >>) : Fits(<< f, g >>[k])) /\ EndsOnce(<< f, g >>)
    BY <2>1, <2>2, <2>4, TwoFit
  <2>6. Adds(r)
    BY <1>0, <2>3, <2>5, FoldAdds
  <2> QED
    BY <1>2, <1>7, <2>6 DEF ToolExecAtOnce
<1>8. CASE TurnError(r, b, t)
  BY <1>0, <1>8, CloseWrites DEF TurnError
<1> QED
  BY <1>3, <1>4, <1>6, <1>7, <1>8, DoneAdds DEF FromBeing

(* What any step writes fits, and what is over stays as it ended.          *)
LEMMA NextAdds ==
  ASSUME Promises, [Next]_vars
  PROVE  OverStays /\ (UNCHANGED record \/ \E r \in Rooms : Adds(r))
<1>0. TypeOK
  BY DEF Promises
<1>2. ASSUME UNCHANGED <<outcome, record>>
      PROVE  OverStays /\ (UNCHANGED record \/ \E r \in Rooms : Adds(r))
  BY <1>2 DEF OverStays
<1>3. ASSUME NEW b \in Beings, HandleSeatExit(b) \/ HandleSeatReturn(b)
      PROVE  OverStays /\ UNCHANGED record
  BY <1>3 DEF HandleSeatExit, HandleSeatReturn, OverStays
<1>4. ASSUME NEW x \in running, ToolReturns(x)
      PROVE  OverStays /\ \E r \in Rooms : Adds(r)
  <2>1. x.room \in Rooms /\ x.being \in Beings /\ x.turn \in TurnIds /\ x.reach \in Nat
    BY <1>0 DEF TypeOK
  <2> DEFINE f == FrameOf("result", x.being, x.turn, NoSegment, x.reach)
  <2>2. f \in Frame /\ Fits(f)
    BY <2>1, QuietFits
  <2>3. Writes(x.room, << f >>)
    BY <1>4 DEF ToolReturns, ResultOf, Writes
  <2> HIDE DEF f
  <2>4. Adds(x.room)
    BY <2>2, <2>3, OneFits DEF Adds
  <2>5. OverStays
    BY <1>4 DEF ToolReturns, OverStays
  <2> QED
    BY <2>1, <2>4, <2>5
<1>5. ASSUME NEW r \in Rooms, NEW on \in BOOLEAN, Autotrigger(r, on)
      PROVE  OverStays /\ UNCHANGED record
  BY <1>5 DEF Autotrigger, OverStays
<1>6. ASSUME NEW how, ProcessExit(how)
      PROVE  OverStays /\ UNCHANGED record
  BY <1>0, <1>6 DEF ProcessExit, OverStays, Over
<1>7. CASE Timer
  <2>1. ASSUME NEW g \in graceTimers, GraceExpires(g)
        PROVE  OverStays /\ (UNCHANGED record \/ \E r \in Rooms : Adds(r))
    <3>1. g.room \in Rooms /\ g.being \in Beings
      BY <1>0 DEF TypeOK
    <3>2. CASE StillWaiting(g)
      <4>1. Open(g.room, g.being) /\ CloseTurn(g.room, g.being, "aborted", << >>)
        BY <2>1, <3>2 DEF GraceExpires, StillWaiting, Holds, Open
      <4> QED
        BY <3>1, <4>1, CloseWrites
    <3>3. CASE ~StillWaiting(g)
      BY <1>2, <2>1, <3>3 DEF GraceExpires
    <3> QED
      BY <3>2, <3>3
  <2>2. ASSUME NEW w \in wakes, ReactivateIdle(w)
        PROVE  OverStays /\ UNCHANGED record
    BY <2>2 DEF ReactivateIdle, OverStays
  <2>3. ASSUME NEW w \in wakes, Reactivate(w)
        PROVE  OverStays /\ UNCHANGED record
    <3>1. issued + 1 \in TurnIds /\ issued + 1 > issued
      BY <1>0, <2>3, RoomTurnsAssumption DEF Reactivate, TypeOK, TurnIds
    <3>2. ~Over(issued + 1)
      BY <3>1 DEF Promises, UnissuedUnborn, Over
    <3> QED
      BY <1>0, <2>3, <3>1, <3>2, OutcomeSet DEF Reactivate
  <2>4. ASSUME NEW w \in wakes, ReactivateThrows(w)
        PROVE  OverStays /\ UNCHANGED record
    BY <2>4, <1>6 DEF ReactivateThrows
  <2> QED
    BY <1>7, <2>1, <2>2, <2>3, <2>4 DEF Timer
<1>8. CASE Restart \/ Tick \/ UNCHANGED vars
  BY <1>2, <1>8 DEF Restart, Tick, vars, house
<1>9. ASSUME NEW r \in Rooms, NEW b \in Beings, FromHouse(r, b)
      PROVE  OverStays /\ (UNCHANGED record \/ \E q \in Rooms : Adds(q))
  BY <1>9, HouseAdds
<1>10. ASSUME NEW r \in Rooms, NEW b \in Beings, NEW t \in TurnIds, FromBeing(r, b, t)
      PROVE  OverStays /\ (UNCHANGED record \/ \E q \in Rooms : Adds(q))
  BY <1>10, BeingAdds
<1> QED
  BY <1>3, <1>4, <1>5, <1>6, <1>7, <1>8, <1>9, <1>10 DEF Next, Running

(* The record agrees with the promises, and only turns that were issued    *)
(* are named in it.                                                        *)
Agreement == Promises /\ RecordMatchesOutcome /\ TurnsNamed

(* Every step keeps the agreement.                                         *)
LEMMA NextKeepsAgreement ==
  ASSUME Agreement, [Next]_vars
  PROVE  Agreement'
<1>1. Promises'
  BY NextKeepsPromises DEF Agreement
<1>2. OverStays /\ (UNCHANGED record \/ \E r \in Rooms : Adds(r))
  BY NextAdds DEF Agreement
<1>3. CASE UNCHANGED record
  <2>1. TurnsNamed'
    BY <1>3 DEF Agreement, TurnsNamed
  <2>2. RecordMatchesOutcome'
    BY <1>2, <1>3 DEF Agreement, RecordMatchesOutcome, TurnsNamed, OverStays, Over
  <2> QED
    BY <1>1, <2>1, <2>2 DEF Agreement
<1>4. ASSUME NEW r \in Rooms, Adds(r)
      PROVE  Agreement'
  <2>1. PICK more \in Seq(Frame) :
          Writes(r, more) /\ (\A k \in 1 .. Len(more) : Fits(more[k])) /\ EndsOnce(more)
    BY <1>4 DEF Adds
  <2>2. RecordMatchesOutcome' /\ TurnsNamed'
    BY <1>2, <2>1, RecordGrows DEF Agreement, Promises
  <2> QED
    BY <1>1, <2>2 DEF Agreement
<1> QED
  BY <1>2, <1>3, <1>4

(* Whatever arrives late, a final speech is only of a turn that resolved   *)
(* "done", an aborted frame only of one that resolved otherwise, and       *)
(* neither is followed by speech of that turn: for any rooms, beings,      *)
(* turns, losses of seats and crashes.                                     *)
THEOREM RecordKeepsToOutcomes == Spec => []RecordMatchesOutcome
<1>1. Init => Agreement
  <2> SUFFICES ASSUME Init PROVE Agreement
    OBVIOUS
  <2>1. \A r \in Rooms : record[r] = << >>
    BY DEF Init
  <2> QED
    BY <2>1, InitPromises DEF Agreement, RecordMatchesOutcome, TurnsNamed
<1>2. Agreement /\ [Next]_vars => Agreement'
  BY NextKeepsAgreement
<1>3. Agreement => RecordMatchesOutcome
  BY DEF Agreement
<1> QED
  BY <1>1, <1>2, <1>3, PTL DEF Spec

-----------------------------------------------------------------------------
(* Every tool call is answered once.                                       *)

(* A room's record read for its tool calls: where a call was framed, and   *)
(* the place of the answer to one.                                         *)
IsCall(s, i) == i \in 1 .. Len(s) /\ s[i].type = "reach" /\ s[i].of # 0
IsAnswer(s, j, i) == j \in 1 .. Len(s) /\ s[j].type = "result" /\ s[j].of = i

(* A record whose calls in W are awaited: these are calls, an answer is to *)
(* an earlier call that is awaited no more, and no call has two.           *)
CallsIn(s, W) ==
  /\ \A i \in W : IsCall(s, i)
  /\ \A j \in 1 .. Len(s) : s[j].type = "result" =>
       s[j].of < j /\ IsCall(s, s[j].of) /\ s[j].of \notin W
  /\ \A i \in Nat, j, k \in 1 .. Len(s) : IsAnswer(s, j, i) /\ IsAnswer(s, k, i) => j = k

(* No call of it is forgotten.                                             *)
Live(s, W) ==
  \A i \in 1 .. Len(s) : IsCall(s, i) => i \in W \/ \E j \in 1 .. Len(s) : IsAnswer(s, j, i)

Tracked(s, W, alive) == CallsIn(s, W) /\ (alive => Live(s, W))

(* Both are places of the record.                                          *)
LEMMA Places ==
  ASSUME NEW s
  PROVE  /\ \A i : IsCall(s, i) => i \in 1 .. Len(s)
         /\ \A i, j : IsAnswer(s, j, i) => j \in 1 .. Len(s)
  BY DEF IsCall, IsAnswer

(* One more frame leaves what stands before it.                            *)
LEMMA OneMore ==
  ASSUME NEW s \in Seq(Frame), NEW f \in Frame
  PROVE  /\ Append(s, f) \in Seq(Frame) /\ Len(s) \in Nat
         /\ Len(Append(s, f)) = Len(s) + 1
         /\ \A i \in 1 .. Len(s) : Append(s, f)[i] = s[i]
         /\ Append(s, f)[Len(s) + 1] = f
  BY AppendProperties, LenProperties

(* A frame that is neither a call nor an answer changes nothing.           *)
LEMMA SilentKeeps ==
  ASSUME NEW s \in Seq(Frame), NEW f \in Frame, NEW W, NEW alive \in BOOLEAN,
         Tracked(s, W, alive), f.of = 0, f.type # "result"
  PROVE  Tracked(Append(s, f), W, alive)
<1> DEFINE u == Append(s, f)
<1>1. /\ Len(s) \in Nat /\ Len(u) = Len(s) + 1
      /\ \A i \in 1 .. Len(s) : u[i] = s[i]
      /\ u[Len(s) + 1] = f
  BY OneMore
<1> HIDE DEF u
<1>2. \A i : IsCall(u, i) <=> IsCall(s, i)
  BY <1>1 DEF IsCall
<1>3. \A i, j : IsAnswer(u, j, i) <=> IsAnswer(s, j, i)
  BY <1>1 DEF IsAnswer
<1>4. \A j \in 1 .. Len(u) : u[j].type = "result" => j \in 1 .. Len(s) /\ u[j] = s[j]
  BY <1>1
<1>5. CallsIn(u, W)
  <2>1. \A j \in 1 .. Len(u) : u[j].type = "result" =>
          u[j].of < j /\ IsCall(u, u[j].of) /\ u[j].of \notin W
    BY <1>2, <1>4 DEF Tracked, CallsIn
  <2>2. \A i \in Nat, j, k \in 1 .. Len(u) : IsAnswer(u, j, i) /\ IsAnswer(u, k, i) => j = k
    BY <1>3, Places DEF Tracked, CallsIn
  <2> QED
    BY <1>2, <2>1, <2>2 DEF Tracked, CallsIn
<1>6. alive => Live(u, W)
  BY <1>1, <1>2, <1>3, Places DEF Tracked, Live
<1> QED
  BY <1>5, <1>6 DEF Tracked, u

(* A call framed at the end is awaited from then on.                       *)
LEMMA CallKeeps ==
  ASSUME NEW s \in Seq(Frame), NEW f \in Frame, NEW W, NEW alive \in BOOLEAN,
         Tracked(s, W, alive), f.of = Len(s) + 1, f.type = "reach"
  PROVE  /\ Tracked(Append(s, f), W \cup {Len(s) + 1}, alive)
         /\ Len(s) + 1 \notin W
<1> DEFINE u == Append(s, f)
           n == Len(s) + 1
<1>1. /\ Len(s) \in Nat /\ Len(u) = Len(s) + 1 /\ n = Len(s) + 1
      /\ \A i \in 1 .. Len(s) : u[i] = s[i]
      /\ u[Len(s) + 1] = f
  BY OneMore
<1> HIDE DEF u, n
<1>2. \A i : IsCall(u, i) <=> IsCall(s, i) \/ i = n
  BY <1>1 DEF IsCall
<1>3. \A i, j : IsAnswer(u, j, i) <=> IsAnswer(s, j, i)
  BY <1>1 DEF IsAnswer
<1>4. \A j \in 1 .. Len(u) : u[j].type = "result" => j \in 1 .. Len(s) /\ u[j] = s[j]
  BY <1>1
<1>5. CallsIn(u, W \cup {n})
  <2>1. \A j \in 1 .. Len(u) : u[j].type = "result" =>
          u[j].of < j /\ IsCall(u, u[j].of) /\ u[j].of \notin W \cup {n}
    <3> SUFFICES ASSUME NEW j \in 1 .. Len(u), u[j].type = "result"
                 PROVE  u[j].of < j /\ IsCall(u, u[j].of) /\ u[j].of \notin W \cup {n}
      OBVIOUS
    <3>1. j \in 1 .. Len(s) /\ s[j].type = "result" /\ u[j] = s[j]
      BY <1>4
    <3>2. s[j].of < j /\ IsCall(s, s[j].of) /\ s[j].of \notin W
      BY <3>1 DEF Tracked, CallsIn
    <3>3. s[j].of # n
      BY <1>1, <3>2 DEF IsCall
    <3> QED
      BY <1>2, <3>1, <3>2, <3>3
  <2>2. \A i \in Nat, j, k \in 1 .. Len(u) : IsAnswer(u, j, i) /\ IsAnswer(u, k, i) => j = k
    BY <1>3, Places DEF Tracked, CallsIn
  <2> QED
    BY <1>2, <2>1, <2>2 DEF Tracked, CallsIn
<1>6. alive => Live(u, W \cup {n})
  BY <1>1, <1>2, <1>3, Places DEF Tracked, Live
<1>7. n \notin W
  BY <1>1 DEF Tracked, CallsIn, IsCall
<1> QED
  BY <1>5, <1>6, <1>7 DEF Tracked, u, n

(* Its answer ends the waiting.                                            *)
LEMMA AnswerKeeps ==
  ASSUME NEW s \in Seq(Frame), NEW f \in Frame, NEW W, NEW alive \in BOOLEAN,
         Tracked(s, W, alive), f.of \in W, f.type = "result"
  PROVE  Tracked(Append(s, f), W \ {f.of}, alive)
<1> DEFINE u == Append(s, f)
<1>1. /\ Len(s) \in Nat /\ Len(u) = Len(s) + 1
      /\ \A i \in 1 .. Len(s) : u[i] = s[i]
      /\ u[Len(s) + 1] = f
  BY OneMore
<1> HIDE DEF u
<1>2. \A i : IsCall(u, i) <=> IsCall(s, i)
  BY <1>1 DEF IsCall
<1>3. \A i, j : IsAnswer(u, j, i) <=> IsAnswer(s, j, i) \/ (j = Len(s) + 1 /\ i = f.of)
  BY <1>1 DEF IsAnswer
<1>4. \A j \in 1 .. Len(u) : u[j].type = "result" => 
         (j \in 1 .. Len(s) /\ u[j] = s[j]) \/ (j = Len(s) + 1 /\ u[j] = f)
  BY <1>1
<1>5. IsCall(s, f.of) /\ f.of \in 1 .. Len(s)
  BY DEF Tracked, CallsIn, IsCall
<1>6. \A j : ~IsAnswer(s, j, f.of)
  BY DEF Tracked, CallsIn, IsAnswer
<1>7. CallsIn(u, W \ {f.of})
  <2>1. \A j \in 1 .. Len(u) : u[j].type = "result" =>
          u[j].of < j /\ IsCall(u, u[j].of) /\ u[j].of \notin W \ {f.of}
    <3> SUFFICES ASSUME NEW j \in 1 .. Len(u), u[j].type = "result"
                 PROVE  u[j].of < j /\ IsCall(u, u[j].of) /\ u[j].of \notin W \ {f.of}
      OBVIOUS
    <3>1. CASE j \in 1 .. Len(s) /\ u[j] = s[j]
      BY <1>2, <3>1 DEF Tracked, CallsIn
    <3>2. CASE j = Len(s) + 1 /\ u[j] = f
      BY <1>1, <1>2, <1>5, <3>2
    <3> QED
      BY <1>4, <3>1, <3>2
  <2>2. ASSUME NEW i \in Nat, NEW j \in 1 .. Len(u), NEW k \in 1 .. Len(u),
               IsAnswer(u, j, i), IsAnswer(u, k, i)
        PROVE  j = k
    <3>1. CASE i = f.of
      BY <1>3, <1>6, <2>2, <3>1
    <3>2. CASE i # f.of
      <4>1. IsAnswer(s, j, i) /\ IsAnswer(s, k, i)
        BY <1>3, <2>2, <3>2
      <4> QED
        BY <4>1 DEF Tracked, CallsIn, IsAnswer
    <3> QED
      BY <3>1, <3>2
  <2> QED
    BY <1>2, <2>1, <2>2 DEF Tracked, CallsIn
<1>8. ASSUME alive, NEW i \in 1 .. Len(u), IsCall(u, i)
      PROVE  i \in W \ {f.of} \/ \E j \in 1 .. Len(u) : IsAnswer(u, j, i)
  <2>1. CASE i = f.of
    BY <1>1, <1>3, <2>1
  <2>2. CASE i # f.of
    <3>1. i \in W \/ \E j \in 1 .. Len(s) : IsAnswer(s, j, i)
      BY <1>2, <1>8 DEF Tracked, Live, IsCall
    <3> QED
      BY <1>1, <1>3, <2>2, <3>1
  <2> QED
    BY <2>1, <2>2
<1> QED
  BY <1>7, <1>8 DEF Tracked, Live, u

(* A held segment that is written is no call.                              *)
LEMMA FlushKeeps ==
  ASSUME NEW s \in Seq(Frame), NEW W, NEW alive \in BOOLEAN, Tracked(s, W, alive),
         NEW b \in Beings, NEW turn \in Turn, NEW type \in {"interim", "final"}
  PROVE  /\ s \o Flushed(b, turn, type) \in Seq(Frame)
         /\ Tracked(s \o Flushed(b, turn, type), W, alive)
         /\ Len(s \o Flushed(b, turn, type)) = Len(s) + Len(Flushed(b, turn, type))
<1> DEFINE f == FrameOf(type, b, turn.id, turn.pending, 0)
           h == Flushed(b, turn, type)
<1>1. f \in Frame
  BY FrameIsTyped DEF Turn, FrameTypes
<1>2. f.of = 0 /\ f.type # "result"
  BY DEF FrameOf
<1>3. h \in {<< >>, << f >>}
  BY DEF Flushed
<1>4. << f >> \in Seq(Frame) /\ << >> \in Seq(Frame)
  BY <1>1
<1> HIDE DEF f, h
<1>5. Len(s \o h) = Len(s) + Len(h)
  BY <1>3, <1>4, ConcatProperties
<1>6. s \o << >> = s /\ s \o << f >> = Append(s, f)
  BY <1>1, OneThenMore, ConcatEmptySeq
<1>7. Append(s, f) \in Seq(Frame) /\ Tracked(Append(s, f), W, alive)
  BY <1>1, <1>2, SilentKeeps, OneMore
<1>8. s \o h \in {s, Append(s, f)}
  BY <1>3, <1>6
<1> QED
  BY <1>5, <1>7, <1>8 DEF h

(* The places in room r's record of the calls the house awaits there.      *)
WaitedIn(r) == {x.reach : x \in {y \in running : y.room = r}}

(* Every room's calls are tracked, and each is awaited once.               *)
CallsTracked ==
  /\ \A r \in Rooms : Tracked(record[r], WaitedIn(r), crashes = 0)
  /\ \A x, y \in running : x.room = y.room /\ x.reach = y.reach => x = y

(* A step that frames no call and awaits none.                             *)
LEMMA CallsUntouched ==
  ASSUME CallsTracked, UNCHANGED <<record, running, crashes>>
  PROVE  CallsTracked'
<1>1. \A r \in Rooms : WaitedIn(r)' = WaitedIn(r)
  BY DEF WaitedIn
<1> QED
  BY <1>1 DEF CallsTracked

(* A step that writes to one room what is no call.                         *)
LEMMA OneRoomWritten ==
  ASSUME TypeOK, CallsTracked, NEW r \in Rooms, NEW s, UNCHANGED <<running, crashes>>,
         record' = [record EXCEPT ![r] = s],
         Tracked(s, WaitedIn(r), crashes = 0)
  PROVE  CallsTracked'
<1>1. \A q \in Rooms : WaitedIn(q)' = WaitedIn(q)
  BY DEF WaitedIn
<1>2. record'[r] = s /\ \A q \in Rooms : q # r => record'[q] = record[q]
  BY DEF TypeOK
<1> QED
  BY <1>1, <1>2 DEF CallsTracked

(* The record of one room, with its types and its calls.                   *)
LEMMA RoomTracked ==
  ASSUME TypeOK, CallsTracked, NEW r \in Rooms
  PROVE  /\ record[r] \in Seq(Frame) /\ (crashes = 0) \in BOOLEAN
         /\ Tracked(record[r], WaitedIn(r), crashes = 0)
  BY DEF TypeOK, CallsTracked

(* A message, a notice, an aborted frame or a reach the being made itself  *)
(* is no call.                                                             *)
LEMMA PlainKeeps ==
  ASSUME NEW s \in Seq(Frame), NEW W, NEW alive \in BOOLEAN, Tracked(s, W, alive),
         NEW b \in Beings, NEW t \in TurnIds, NEW type \in FrameTypes \ {"result"}
  PROVE  /\ s \o << Plain(type, b, t) >> \in Seq(Frame)
         /\ Tracked(s \o << Plain(type, b, t) >>, W, alive)
         /\ Tracked(Append(s, Plain(type, b, t)), W, alive)
<1> DEFINE f == Plain(type, b, t)
<1>1. f \in Frame /\ f.of = 0 /\ f.type # "result"
  BY PlainIsTyped DEF TurnIds, Plain, FrameOf
<1> HIDE DEF f
<1>2. Append(s, f) = s \o << f >>
  BY <1>1, OneThenMore
<1>3. Append(s, f) \in Seq(Frame) /\ Tracked(Append(s, f), W, alive)
  BY <1>1, SilentKeeps, OneMore
<1> QED
  BY <1>2, <1>3 DEF f

(* A turn that closes badly frames no call.                                *)
LEMMA CloseKeepsCalls ==
  ASSUME Promises, CallsTracked, NEW r \in Rooms, NEW b \in Beings, Open(r, b), NEW kind, NEW more,
         more \in {<< >>, << Plain("notice", b, turns[r][b].id) >>},
         CloseTurn(r, b, kind, more), UNCHANGED <<running, crashes>>
  PROVE  CallsTracked'
<1> DEFINE t == turns[r][b].id
           s == record[r] \o << Plain("aborted", b, t) >>
<1>1. t \in TurnIds /\ TypeOK
  BY OpenIsNotOver DEF Promises
<1>2. "aborted" \in FrameTypes \ {"result"} /\ "notice" \in FrameTypes \ {"result"}
  BY DEF FrameTypes
<1>3. record' = [record EXCEPT ![r] = s \o more]
  BY DEF CloseTurn, Abandoned
<1>4. s \in Seq(Frame) /\ Tracked(s, WaitedIn(r), crashes = 0)
  BY <1>1, <1>2, RoomTracked, PlainKeeps
<1> HIDE DEF s
<1>5. Tracked(s \o << >>, WaitedIn(r), crashes = 0)
  BY <1>4, ConcatEmptySeq
<1>6. Tracked(s \o << Plain("notice", b, t) >>, WaitedIn(r), crashes = 0)
  BY <1>1, <1>2, <1>4, RoomTracked, PlainKeeps
<1> QED
  BY <1>1, <1>3, <1>5, <1>6, OneRoomWritten

(* beginTurn, !stop and !steer frame no call.                              *)
LEMMA HouseKeepsCalls ==
  ASSUME Promises, CallsTracked, NEW r \in Rooms, NEW b \in Beings, FromHouse(r, b)
  PROVE  CallsTracked'
<1>1. CASE BeginTurn(r, b)
  BY <1>1, CallsUntouched DEF BeginTurn
<1>2. TypeOK /\ "aborted" \in FrameTypes \ {"result"} /\ "message" \in FrameTypes \ {"result"}
  BY DEF Promises, FrameTypes
<1>3. CASE BeginTurnFails(r, b)
  <2>1. issued + 1 \in TurnIds
    BY <1>2, <1>3, RoomTurnsAssumption DEF BeginTurnFails, TypeOK, TurnIds
  <2>2. Tracked(Append(record[r], Plain("aborted", b, issued + 1)), WaitedIn(r), crashes = 0)
    BY <1>2, <2>1, RoomTracked, PlainKeeps
  <2> QED
    BY <1>2, <1>3, <2>2, OneRoomWritten DEF BeginTurnFails
<1>4. CASE ApplyInterrupt(r, b)
  BY <1>4, CloseKeepsCalls DEF ApplyInterrupt
<1>5. CASE ApplySteer(r, b)
  <2>1. turns[r][b].id \in TurnIds
    BY <1>5, OpenIsNotOver DEF ApplySteer
  <2>2. Tracked(Append(record[r], Plain("message", b, turns[r][b].id)), WaitedIn(r), crashes = 0)
    BY <1>2, <2>1, RoomTracked, PlainKeeps
  <2> QED
    BY <1>2, <1>5, <2>2, OneRoomWritten DEF ApplySteer, house
<1> QED
  BY <1>1, <1>3, <1>4, <1>5 DEF FromHouse

(* A call framed after what was held: awaited, or answered at once.        *)
LEMMA ExecKeepsCalls ==
  ASSUME Promises, CallsTracked, NEW r \in Rooms, NEW b \in Beings, NEW t \in TurnIds,
         ToolExec(r, b, t) \/ \E asks \in BOOLEAN : ToolExecAtOnce(r, b, t, asks)
  PROVE  CallsTracked'
<1> DEFINE h == Flushed(b, turns[r][b], "interim")
           s == record[r] \o h
           at == NextReach(r, b)
           f == FrameOf("reach", b, t, NoSegment, at)
           g == FrameOf("result", b, t, NoSegment, at)
           x == [room |-> r, being |-> b, turn |-> t, reach |-> at]
<1>1. TypeOK /\ turns[r][b] \in Turn
  BY DEF Promises, TypeOK
<1>2. s \in Seq(Frame) /\ Tracked(s, WaitedIn(r), crashes = 0) /\ at = Len(s) + 1
  <2>1. s \in Seq(Frame) /\ Tracked(s, WaitedIn(r), crashes = 0) /\ Len(s) = Len(record[r]) + Len(h)
    BY <1>1, RoomTracked, FlushKeeps
  <2>2. at = Len(record[r]) + Len(h) + 1
    BY DEF NextReach
  <2>3. Len(record[r]) \in Nat /\ Len(h) \in Nat
    BY <1>1, RoomTracked, FoldIsTyped, FlushedIsTyped, LenProperties DEF FrameTypes
  <2> HIDE DEF h, s, at
  <2> QED
    BY <2>1, <2>2, <2>3
<1>3. at \in Nat
  <2> HIDE DEF s, at
  <2> QED
    BY <1>2, LenProperties
<1>4. f \in Frame /\ f.type = "reach" /\ f.of = at
  BY <1>3, FrameIsTyped DEF TurnIds, FrameTypes, FrameOf
<1>5. g \in Frame /\ g.type = "result" /\ g.of = at
  BY <1>3, FrameIsTyped DEF TurnIds, FrameTypes, FrameOf
<1>6. x.room = r /\ x.reach = at
  OBVIOUS
<1>7. ToolExec(r, b, t) => record' = [record EXCEPT ![r] = s \o << f >>] /\ running' = running \cup {x}
                           /\ UNCHANGED crashes
  BY DEF ToolExec
<1>8. (\E asks \in BOOLEAN : ToolExecAtOnce(r, b, t, asks)) =>
         record' = [record EXCEPT ![r] = s \o << f, g >>] /\ UNCHANGED <<running, crashes>>
  BY DEF ToolExecAtOnce
<1> HIDE DEF s, at, f, g, x
<1>9. s \o << f >> = Append(s, f)
  BY <1>2, <1>4, OneThenMore
<1>10. s \o << f, g >> = Append(Append(s, f), g)
  <2>1. s \o << f, g >> = s \o << f >> \o << g >>
    BY <1>2, <1>4, <1>5, OneThenMore
  <2> QED
    BY <2>1, <1>2, <1>4, <1>5, <1>9, OneMore, OneThenMore
<1>11. /\ Tracked(Append(s, f), WaitedIn(r) \cup {at}, crashes = 0)
       /\ at \notin WaitedIn(r)
  BY <1>1, <1>2, <1>4, CallKeeps, RoomTracked
<1>12. CASE ToolExec(r, b, t)
  <2>1. /\ WaitedIn(r)' = WaitedIn(r) \cup {at}
        /\ \A q \in Rooms : q # r => WaitedIn(q)' = WaitedIn(q)
    BY <1>6, <1>7, <1>12 DEF WaitedIn
  <2>2. record'[r] = Append(s, f) /\ \A q \in Rooms : q # r => record'[q] = record[q]
    BY <1>1, <1>7, <1>9, <1>12 DEF TypeOK
  <2>3. \A y \in running : ~(y.room = r /\ y.reach = at)
    BY <1>11 DEF WaitedIn
  <2>4. \A y, z \in running' : y.room = z.room /\ y.reach = z.reach => y = z
    BY <1>6, <1>7, <1>12, <2>3 DEF CallsTracked
  <2>5. \A q \in Rooms : Tracked(record'[q], WaitedIn(q)', crashes = 0)
    BY <1>11, <2>1, <2>2 DEF CallsTracked
  <2> QED
    BY <1>7, <1>12, <2>4, <2>5 DEF CallsTracked
<1>13. CASE \E asks \in BOOLEAN : ToolExecAtOnce(r, b, t, asks)
  <2>1. Append(s, f) \in Seq(Frame)
    BY <1>2, <1>4, OneMore
  <2>2. Tracked(Append(Append(s, f), g), (WaitedIn(r) \cup {at}) \ {at}, crashes = 0)
    BY <1>1, <1>5, <1>11, <2>1, AnswerKeeps, RoomTracked
  <2>3. (WaitedIn(r) \cup {at}) \ {at} = WaitedIn(r)
    BY <1>11
  <2>4. Tracked(s \o << f, g >>, WaitedIn(r), crashes = 0)
    BY <1>10, <2>2, <2>3
  <2> QED
    BY <1>1, <1>8, <1>13, <2>4, OneRoomWritten
<1> QED
  BY <1>12, <1>13

(* What a being's messages make the house frame.                           *)
LEMMA BeingKeepsCalls ==
  ASSUME Promises, CallsTracked, NEW r \in Rooms, NEW b \in Beings, NEW t \in TurnIds,
         FromBeing(r, b, t)
  PROVE  CallsTracked'
<1> DEFINE s == record[r] \o Flushed(b, turns[r][b], "interim")
           u == record[r] \o Flushed(b, turns[r][b], "final")
<1>1. TypeOK /\ turns[r][b] \in Turn
  BY DEF Promises, TypeOK
<1>2. s \in Seq(Frame) /\ Tracked(s, WaitedIn(r), crashes = 0)
  BY <1>1, RoomTracked, FlushKeeps
<1>3. u \in Seq(Frame) /\ Tracked(u, WaitedIn(r), crashes = 0)
  BY <1>1, RoomTracked, FlushKeeps
<1>4. "reach" \in FrameTypes \ {"result"} /\ "message" \in FrameTypes \ {"result"}
  BY DEF FrameTypes
<1>5. ASSUME NEW text \in Segments, FoldFinal(r, b, t, text) PROVE CallsTracked'
  <2>1. record' = [record EXCEPT ![r] = s] /\ UNCHANGED <<running, crashes>>
    BY <1>5 DEF FoldFinal
  <2> QED
    BY <1>1, <1>2, <2>1, OneRoomWritten
<1>6. CASE FoldReach(r, b, t)
  <2>1. record' = [record EXCEPT ![r] = s \o << Plain("reach", b, t) >>] /\ UNCHANGED <<running, crashes>>
    BY <1>6 DEF FoldReach
  <2>2. Tracked(s \o << Plain("reach", b, t) >>, WaitedIn(r), crashes = 0)
    BY <1>1, <1>2, <1>4, PlainKeeps, RoomTracked
  <2> QED
    BY <1>1, <2>1, <2>2, OneRoomWritten
<1>7. CASE TurnDone(r, b, t)
  <2>1. /\ \/ record' = [record EXCEPT ![r] = u \o << Plain("message", b, t) >>]
           \/ record' = [record EXCEPT ![r] = u]
        /\ UNCHANGED <<running, crashes>>
    BY <1>7 DEF TurnDone
  <2>2. Tracked(u \o << Plain("message", b, t) >>, WaitedIn(r), crashes = 0)
    BY <1>1, <1>3, <1>4, PlainKeeps, RoomTracked
  <2> QED
    BY <1>1, <1>3, <2>1, <2>2, OneRoomWritten
<1>8. CASE TurnError(r, b, t)
  <2>1. Open(r, b)
    BY <1>8 DEF TurnError, Hears, Holds, Open
  <2> QED
    BY <1>8, <2>1, CloseKeepsCalls DEF TurnError
<1> QED
  BY <1>5, <1>6, <1>7, <1>8, ExecKeepsCalls DEF FromBeing

(* Every step keeps the calls tracked.                                     *)
LEMMA NextKeepsCalls ==
  ASSUME Promises, CallsTracked, [Next]_vars
  PROVE  CallsTracked'
<1>0. TypeOK
  BY DEF Promises
<1>1. ASSUME NEW b \in Beings, HandleSeatExit(b) \/ HandleSeatReturn(b)
      PROVE  CallsTracked'
  BY <1>1, CallsUntouched DEF HandleSeatExit, HandleSeatReturn
<1>2. ASSUME NEW x \in running, ToolReturns(x)
      PROVE  CallsTracked'
  <2> DEFINE f == FrameOf("result", x.being, x.turn, NoSegment, x.reach)
             r == x.room
  <2>1. r \in Rooms /\ x.being \in Beings /\ x.turn \in TurnIds /\ x.reach \in Nat
    BY <1>0 DEF TypeOK
  <2>2. f \in Frame /\ f.type = "result" /\ f.of = x.reach
    BY <2>1, FrameIsTyped DEF TurnIds, FrameTypes, FrameOf
  <2>3. record' = [record EXCEPT ![r] = @ \o << f >>] /\ running' = running \ {x} /\ UNCHANGED crashes
    BY <1>2 DEF ToolReturns, ResultOf
  <2> HIDE DEF f
  <2>4. /\ record[r] \in Seq(Frame) /\ (crashes = 0) \in BOOLEAN
        /\ Tracked(record[r], WaitedIn(r), crashes = 0)
    BY <1>0, <2>1, RoomTracked
  <2>5. record[r] \o << f >> = Append(record[r], f)
    BY <2>2, <2>4, OneThenMore
  <2>6. x.reach \in WaitedIn(r)
    BY DEF WaitedIn
  <2>7. Tracked(Append(record[r], f), WaitedIn(r) \ {x.reach}, crashes = 0)
    BY <2>2, <2>4, <2>6, AnswerKeeps
  <2>8. /\ WaitedIn(r)' = WaitedIn(r) \ {x.reach}
        /\ \A q \in Rooms : q # r => WaitedIn(q)' = WaitedIn(q)
    BY <2>3 DEF WaitedIn, CallsTracked
  <2>9. record'[r] = Append(record[r], f) /\ \A q \in Rooms : q # r => record'[q] = record[q]
    BY <1>0, <2>1, <2>3, <2>5 DEF TypeOK
  <2>10. \A q \in Rooms : Tracked(record'[q], WaitedIn(q)', crashes = 0)
    BY <2>7, <2>8, <2>9 DEF CallsTracked
  <2> QED
    BY <2>3, <2>10 DEF CallsTracked
<1>3. ASSUME NEW r \in Rooms, NEW on \in BOOLEAN, Autotrigger(r, on)
      PROVE  CallsTracked'
  BY <1>3, CallsUntouched DEF Autotrigger
<1>4. ASSUME NEW how, ProcessExit(how)
      PROVE  CallsTracked'
  <2>1. \A r \in Rooms : WaitedIn(r)' = {}
    BY <1>4 DEF ProcessExit, WaitedIn
  <2>2. crashes' # 0
    BY <1>0, <1>4 DEF ProcessExit, TypeOK
  <2>3. \A r \in Rooms : CallsIn(record[r], {})
    BY DEF CallsTracked, Tracked, CallsIn
  <2> QED
    BY <1>4, <2>1, <2>2, <2>3 DEF ProcessExit, CallsTracked, Tracked
<1>5. CASE Timer
  <2>1. ASSUME NEW g \in graceTimers, GraceExpires(g)
        PROVE  CallsTracked'
    <3>1. g.room \in Rooms /\ g.being \in Beings
      BY <1>0 DEF TypeOK
    <3>2. CASE StillWaiting(g)
      <4>1. /\ Open(g.room, g.being) /\ CloseTurn(g.room, g.being, "aborted", << >>)
            /\ UNCHANGED <<running, crashes>>
        BY <2>1, <3>2 DEF GraceExpires, StillWaiting, Holds, Open
      <4> QED
        BY <3>1, <4>1, CloseKeepsCalls
    <3>3. CASE ~StillWaiting(g)
      BY <2>1, <3>3, CallsUntouched DEF GraceExpires
    <3> QED
      BY <3>2, <3>3
  <2>2. ASSUME NEW w \in wakes, ReactivateIdle(w) \/ Reactivate(w)
        PROVE  CallsTracked'
    BY <2>2, CallsUntouched DEF ReactivateIdle, Reactivate
  <2>3. ASSUME NEW w \in wakes, ReactivateThrows(w)
        PROVE  CallsTracked'
    BY <2>3, <1>4 DEF ReactivateThrows
  <2> QED
    BY <1>5, <2>1, <2>2, <2>3 DEF Timer
<1>6. CASE Restart \/ Tick \/ UNCHANGED vars
  BY <1>6, CallsUntouched DEF Restart, Tick, vars, house
<1> QED
  BY <1>1, <1>2, <1>3, <1>4, <1>5, <1>6, HouseKeepsCalls, BeingKeepsCalls DEF Next, Running

(* What is tracked is answered at most once.                               *)
LEMMA TrackedAnsweredOnce ==
  ASSUME TypeOK, CallsTracked
  PROVE  CallsAnsweredOnce
<1> SUFFICES ASSUME NEW r \in Rooms, NEW i \in 1 .. Len(record[r]),
                    record[r][i].type = "reach", record[r][i].of # 0
             PROVE  /\ Cardinality(Answered(r, i)) + Cardinality(Awaited(r, i)) <= 1
                    /\ crashes = 0 => Answered(r, i) # {} \/ Awaited(r, i) # {}
                    /\ \A j \in Answered(r, i) : j > i
  BY DEF CallsAnsweredOnce
<1> DEFINE s == record[r]
<1>1. IsCall(s, i) /\ i \in Nat
  BY DEF IsCall
<1>2. CallsIn(s, WaitedIn(r)) /\ (crashes = 0 => Live(s, WaitedIn(r)))
  BY DEF CallsTracked, Tracked
<1>3. \A j : j \in Answered(r, i) <=> IsAnswer(s, j, i)
  BY DEF Answered, IsAnswer
<1>4. \A j \in Answered(r, i) : j > i /\ i \notin WaitedIn(r)
  BY <1>2, <1>3 DEF CallsIn, IsAnswer
<1>5. i \in WaitedIn(r) <=> Awaited(r, i) # {}
  BY DEF WaitedIn, Awaited
<1>6. Answered(r, i) = {} \/ \E j : Answered(r, i) = {j}
  <2>1. \A j, k \in Answered(r, i) : j = k
    BY <1>1, <1>2, <1>3 DEF CallsIn, IsAnswer
  <2> QED
    BY <2>1
<1>7. Awaited(r, i) = {} \/ \E x : Awaited(r, i) = {x}
  <2>1. \A x, y \in Awaited(r, i) : x = y
    BY DEF Awaited, CallsTracked
  <2> QED
    BY <2>1
<1>8. Answered(r, i) = {} \/ Awaited(r, i) = {}
  BY <1>4, <1>5
<1>9. Cardinality({}) = 0 /\ \A x : Cardinality({x}) = 1
  BY FS_EmptySet, FS_Singleton
<1>10. Cardinality(Answered(r, i)) + Cardinality(Awaited(r, i)) <= 1
  <2>1. Cardinality(Answered(r, i)) \in {0, 1} /\ Cardinality(Awaited(r, i)) \in {0, 1}
    BY <1>6, <1>7, <1>9, Zenon
  <2>2. Cardinality(Answered(r, i)) = 0 \/ Cardinality(Awaited(r, i)) = 0
    BY <1>8, <1>9, Zenon
  <2> QED
    BY <2>1, <2>2
<1>11. crashes = 0 => Answered(r, i) # {} \/ Awaited(r, i) # {}
  BY <1>1, <1>2, <1>3, <1>5 DEF Live
<1> QED
  BY <1>4, <1>10, <1>11

(* A tool call the house framed is answered at most once, after its reach, *)
(* and is not forgotten while the process lives, whatever becomes of its   *)
(* turn and of its being's seat meanwhile.                                 *)
THEOREM EveryCallAnsweredOnce == Spec => []CallsAnsweredOnce
<1> DEFINE IInv == Promises /\ CallsTracked
<1>1. Init => IInv
  <2> SUFFICES ASSUME Init PROVE IInv
    OBVIOUS
  <2>1. \A r \in Rooms : record[r] = << >> /\ WaitedIn(r) = {}
    BY DEF Init, WaitedIn
  <2>2. Tracked(<< >>, {}, crashes = 0)
    BY DEF Tracked, CallsIn, Live, IsCall
  <2>3. \A x, y \in running : x.room = y.room /\ x.reach = y.reach => x = y
    BY DEF Init
  <2> QED
    BY <2>1, <2>2, <2>3, InitPromises DEF CallsTracked
<1>2. IInv /\ [Next]_vars => IInv'
  BY NextKeepsPromises, NextKeepsCalls
<1>3. IInv => CallsAnsweredOnce
  BY TrackedAnsweredOnce DEF Promises
<1> QED
  BY <1>1, <1>2, <1>3, PTL DEF Spec

-----------------------------------------------------------------------------
(* A step whose turns are replaced in one room for one being, and whose    *)
(* seats stay, disturbs that being at most.                                *)
LEMMA OneReplaced ==
  ASSUME TypeOK, NEW r \in Rooms, NEW b \in Beings, NEW new,
         turns' = [turns EXCEPT ![r][b] = new], UNCHANGED seats
  PROVE  Disturbed \subseteq {b}
<1>1. \A q \in Rooms, c \in Beings : c # b => turns'[q][c] = turns[q][c]
  BY DEF TypeOK
<1> QED
  BY <1>1 DEF Disturbed, Seated

(* A step that leaves seats and turns disturbs nobody.                     *)
LEMMA NoneDisturbed ==
  ASSUME UNCHANGED <<seats, turns>>
  PROVE  Disturbed = {}
  BY DEF Disturbed, Seated

(* A being whose connection is lost or seated again is the one disturbed.  *)
LEMMA SeatDisturbs ==
  ASSUME TypeOK, NEW b \in Beings, HandleSeatExit(b) \/ HandleSeatReturn(b)
  PROVE  Disturbed \subseteq {b}
<1>1. \A c \in Beings : c # b => (c \in seats' <=> c \in seats)
  BY DEF HandleSeatExit, HandleSeatReturn, SeatsLeftBy
<1>2. \A q \in Rooms, c \in Beings : c # b => turns'[q][c] = turns[q][c]
  BY DEF HandleSeatExit, HandleSeatReturn, TypeOK
<1> QED
  BY <1>1, <1>2 DEF Disturbed, Seated

(* Every step of a living process disturbs one being at most.              *)
LEMMA NextDisturbs ==
  ASSUME TypeOK, [Next]_vars, Up'
  PROVE  Disturbed = {} \/ \E b \in Beings : Disturbed \subseteq {b}
<1>1. ASSUME NEW r \in Rooms, NEW b \in Beings, FromHouse(r, b)
      PROVE  Disturbed \subseteq {b}
  <2>1. CASE BeginTurn(r, b)
    BY <2>1, OneReplaced DEF BeginTurn
  <2>2. CASE BeginTurnFails(r, b)
    BY <2>2, NoneDisturbed DEF BeginTurnFails
  <2>3. CASE ApplyInterrupt(r, b)
    BY <2>3, OneReplaced DEF ApplyInterrupt, CloseTurn
  <2>4. CASE ApplySteer(r, b)
    BY <2>4, NoneDisturbed DEF ApplySteer, house
  <2> QED
    BY <1>1, <2>1, <2>2, <2>3, <2>4 DEF FromHouse
<1>2. ASSUME NEW r \in Rooms, NEW b \in Beings, NEW t \in TurnIds, FromBeing(r, b, t)
      PROVE  Disturbed \subseteq {b}
  <2>1. (\E new : turns' = [turns EXCEPT ![r][b] = new]) /\ UNCHANGED seats
    <3>1. ASSUME NEW text \in Segments, FoldFinal(r, b, t, text)
          PROVE  (\E new : turns' = [turns EXCEPT ![r][b] = new]) /\ UNCHANGED seats
      BY <3>1 DEF FoldFinal
    <3>2. CASE FoldReach(r, b, t) \/ ToolExec(r, b, t)
      BY <3>2 DEF FoldReach, ToolExec
    <3>3. ASSUME NEW asks \in BOOLEAN, ToolExecAtOnce(r, b, t, asks)
          PROVE  (\E new : turns' = [turns EXCEPT ![r][b] = new]) /\ UNCHANGED seats
      BY <3>3 DEF ToolExecAtOnce
    <3>4. CASE TurnDone(r, b, t)
      BY <3>4 DEF TurnDone
    <3>5. CASE TurnError(r, b, t)
      BY <3>5 DEF TurnError, CloseTurn
    <3> QED
      BY <1>2, <3>1, <3>2, <3>3, <3>4, <3>5 DEF FromBeing
  <2> QED
    BY <2>1, OneReplaced
<1>3. ASSUME NEW x \in running, ToolReturns(x)
      PROVE  Disturbed = {}
  BY <1>3, NoneDisturbed DEF ToolReturns
<1>4. ASSUME NEW r \in Rooms, NEW on \in BOOLEAN, Autotrigger(r, on)
      PROVE  Disturbed = {}
  BY <1>4, NoneDisturbed DEF Autotrigger
<1>5. CASE Timer
  <2>1. ASSUME NEW g \in graceTimers, GraceExpires(g)
        PROVE  \E b \in Beings : Disturbed \subseteq {b}
    <3>1. g.room \in Rooms /\ g.being \in Beings
      BY DEF TypeOK
    <3>2. CASE StillWaiting(g)
      BY <2>1, <3>1, <3>2, OneReplaced DEF GraceExpires, CloseTurn
    <3>3. CASE ~StillWaiting(g)
      BY <2>1, <3>1, <3>3, NoneDisturbed DEF GraceExpires
    <3> QED
      BY <3>2, <3>3
  <2>2. ASSUME NEW w \in wakes, ReactivateIdle(w)
        PROVE  Disturbed = {}
    BY <2>2, NoneDisturbed DEF ReactivateIdle
  <2>3. ASSUME NEW w \in wakes, Reactivate(w)
        PROVE  \E b \in Beings : Disturbed \subseteq {b}
    <3>1. w.room \in Rooms /\ w.being \in Beings
      BY DEF TypeOK
    <3> QED
      BY <2>3, <3>1, OneReplaced DEF Reactivate
  <2>4. ASSUME NEW w \in wakes, ReactivateThrows(w)
        PROVE  FALSE
    BY <2>4 DEF ReactivateThrows, ProcessExit, Up
  <2> QED
    BY <1>5, <2>1, <2>2, <2>3, <2>4 DEF Timer
<1>6. CASE ProcessExit("killed")
  BY <1>6 DEF ProcessExit, Up
<1>7. CASE Restart \/ Tick \/ UNCHANGED vars
  BY <1>7, NoneDisturbed DEF Restart, Tick, vars, house
<1> QED
  BY <1>1, <1>2, <1>3, <1>4, <1>5, <1>6, <1>7, SeatDisturbs DEF Next, Running

(* No step of a living process touches the seats and turns of two beings:  *)
(* whatever one being's connection, timers or messages do, the others' are *)
(* as they were.                                                           *)
THEOREM StepsTouchOneBeing == Spec => OthersUntouched
<1>1. ASSUME TypeOK, [Next]_vars
      PROVE  [Up' => Cardinality(Disturbed) <= 1]_vars
  <2> SUFFICES ASSUME Up' PROVE Cardinality(Disturbed) <= 1
    OBVIOUS
  <2>1. Disturbed = {} \/ \E b : Disturbed = {b}
    BY <1>1, NextDisturbs
  <2>2. Cardinality({}) = 0 /\ \A b : Cardinality({b}) = 1
    BY FS_EmptySet, FS_Singleton
  <2>3. Cardinality(Disturbed) \in {0, 1}
    BY <2>1, <2>2, Zenon
  <2> QED
    BY <2>3
<1> QED
  BY <1>1, TypeCorrect, PTL DEF Spec, OthersUntouched
=============================================================================
