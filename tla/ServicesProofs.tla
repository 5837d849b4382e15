--------------------------- MODULE ServicesProofs ---------------------------
(***************************************************************************)
(* What is proved of RecordSeq for every set of beings, every precision    *)
(* and every length of the record; and of the services beside the house,   *)
(* for every size of their lanes, caches and lists of keys.                *)
(***************************************************************************)
EXTENDS MCServices, SequenceTheorems, FunctionTheorems, FiniteSetTheorems, TLAPS

(* Frames are frames, and what the proofs below read of them.              *)
LEMMA FramesAreFrames ==
  ASSUME NEW seq \in Numbers, NEW n \in Nat, NEW from \in Nat, NEW long \in BOOLEAN
  PROVE  /\ HouseFrame(seq, long) \in Frame /\ HouseFrame(seq, long).seq = seq
         /\ HouseFrame(seq, long).kind = "house"
         /\ TurnFrame(n, long, from) \in Frame /\ TurnFrame(n, long, from).seq = Whole(n)
         /\ TurnFrame(n, long, from).kind = "live" /\ TurnFrame(n, long, from).base = from
         /\ RestedFrame(seq) \in Frame /\ RestedFrame(seq).seq = seq
         /\ RestedFrame(seq).kind = "rested"
         /\ JoinedFrame \in Frame /\ ~JoinedFrame.numbered
BY DEF HouseFrame, TurnFrame, RestedFrame, JoinedFrame, FrameOf, Frame, Numbers, Whole

(* Every frame of the file is one, and so is its number.                   *)
LEMMA FramesOfFile ==
  ASSUME TypeOK
  PROVE  \A i \in 1 .. Len(file) : file[i] \in Frame /\ file[i].seq \in Numbers
<1> SUFFICES ASSUME NEW i \in 1 .. Len(file) PROVE file[i] \in Frame /\ file[i].seq \in Numbers
  OBVIOUS
<1>1. file[i] \in Frame
  BY DEF TypeOK
<1> QED BY <1>1 DEF Frame

(* Numbers read back, and numbers the house makes, are numbers.            *)
LEMMA ReadsNumbers ==
  ASSUME TypeOK
  PROVE  /\ LastFrame \in Frame
         /\ LastFrameInfo \in Numbers
         /\ HouseFrameSeq \in Numbers
         /\ Resynced \in Nat
         /\ RestSeq \in Numbers
<1>0. Len(file) \in Nat \ {0}
  BY DEF TypeOK
<1>1. LastFrame \in Frame
  BY <1>0 DEF TypeOK, LastFrame
<1>2. LastFrameInfo \in Numbers
  BY <1>1 DEF LastFrameInfo, Frame, Whole, Numbers
<1>3. HouseFrameSeq \in Numbers /\ Resynced \in Nat
  BY <1>2 DEF HouseFrameSeq, Resynced, Numbers, Whole
<1>4. RestSeq \in Numbers
  BY <1>1 DEF RestSeq, Frame, Numbers, Whole
<1> QED BY <1>1, <1>2, <1>3, <1>4

(* Appending a frame leaves the frames before it where they were.          *)
LEMMA Appending ==
  ASSUME TypeOK, NEW f \in Frame, file' = Append(file, f)
  PROVE  /\ file' \in Seq(Frame) /\ file' # <<>>
         /\ Len(file) \in Nat \ {0} /\ Len(file') = Len(file) + 1
         /\ \A i \in 1 .. Len(file) : file'[i] = file[i]
         /\ file'[Len(file) + 1] = f
BY DEF TypeOK

-----------------------------------------------------------------------------
(* The type invariant.                                                     *)
LEMMA InitTypeOK == Init => TypeOK
<1> SUFFICES ASSUME Init PROVE TypeOK
  OBVIOUS
<1>1. HouseFrame(Whole(0), FALSE) \in Frame
  BY FramesAreFrames DEF Numbers, Whole
<1>2. \A f \in Frame : <<f>> \in Seq(Frame) /\ <<f>> # <<>>
  OBVIOUS
<1>3. file \in Seq(Frame) /\ file # <<>>
  BY <1>1, <1>2 DEF Init
<1> QED BY <1>3 DEF Init, TypeOK, Unset

(* A turn's frame takes a number and leaves the counter one above it.      *)
LEMMA TurnFrameType ==
  ASSUME TypeOK, NEW long \in BOOLEAN, AppendTurnFrame(long)
  PROVE  /\ NextNumber \in Nat /\ NextBase \in Nat
         /\ TurnFrame(NextNumber, long, NextBase) \in Frame
         /\ file' \in Seq(Frame) /\ file' # <<>>
         /\ counter' \in Nat /\ base' \in Nat
<1>1. NextNumber \in Nat /\ NextBase \in Nat
  BY ReadsNumbers DEF NextNumber, NextBase, TypeOK
<1>2. TurnFrame(NextNumber, long, NextBase) \in Frame
  BY <1>1, FramesAreFrames, <<0, 0>> \in Numbers DEF Numbers
<1> QED BY <1>1, <1>2, Appending DEF AppendTurnFrame

(* Every step of the record keeps the types.                               *)
LEMMA NextTypeOK == TypeOK /\ [Next]_vars => TypeOK'
<1> SUFFICES ASSUME TypeOK, [Next]_vars PROVE TypeOK'
  OBVIOUS
<1>1. ASSUME NEW long \in BOOLEAN, AppendHouseFrame(long) PROVE TypeOK'
  <2>1. HouseFrame(HouseFrameSeq, long) \in Frame
    BY ReadsNumbers, FramesAreFrames, 0 \in Nat
  <2>2. file' \in Seq(Frame) /\ file' # <<>>
    BY <1>1, <2>1, Appending DEF AppendHouseFrame
  <2> QED BY <1>1, <2>2 DEF AppendHouseFrame, TypeOK
<1>2. ASSUME NEW long \in BOOLEAN, ToolReturns(long) PROVE TypeOK'
  <2>1. calls - 1 \in Nat
    BY <1>2 DEF ToolReturns, TypeOK
  <2> QED BY <1>2, <2>1, TurnFrameType DEF ToolReturns, TypeOK
<1>3. ASSUME NEW b \in Beings, BeginTurn(b) PROVE TypeOK'
  BY <1>3, ReadsNumbers DEF BeginTurn, TypeOK
<1>4. ASSUME NEW b \in Beings, BeginTurnFails(b) PROVE TypeOK'
  BY <1>4, TurnFrameType DEF BeginTurnFails, TypeOK
<1>5. ASSUME NEW b \in Beings, ToolExec(b) PROVE TypeOK'
  <2>1. calls + 1 \in Nat
    BY DEF TypeOK
  <2> QED BY <1>5, <2>1, TurnFrameType, FALSE \in BOOLEAN DEF ToolExec, TypeOK
<1>6. ASSUME NEW b \in Beings, NEW long \in BOOLEAN, Speak(b, long) PROVE TypeOK'
  BY <1>6, TurnFrameType DEF Speak, TypeOK
<1>7. ASSUME NEW b \in Beings, NEW spoke \in BOOLEAN, NEW long \in BOOLEAN,
             CloseTurn(b, spoke, long)
      PROVE  TypeOK'
  <2>1. CASE spoke
    BY <1>7, <2>1, TurnFrameType DEF CloseTurn, TypeOK
  <2>2. CASE ~spoke
    BY <1>7, <2>2 DEF CloseTurn, TypeOK
  <2> QED BY <2>1, <2>2
<1>8. CASE RestRoom
  <2>1. RestedFrame(RestSeq) \in Frame
    BY ReadsNumbers, FramesAreFrames, 0 \in Nat, FALSE \in BOOLEAN
  <2>2. file' \in Seq(Frame) /\ file' # <<>>
    BY <1>8, <2>1, Appending DEF RestRoom
  <2> QED BY <1>8, <2>2 DEF RestRoom, TypeOK
<1>9. CASE Restart
  BY <1>9 DEF Restart, TypeOK, Unset
<1>10. CASE EnsureRegistered
  BY <1>10 DEF EnsureRegistered, TypeOK
<1>11. CASE AddParticipant
  <2>1. JoinedFrame \in Frame
    BY FramesAreFrames, <<0, 0>> \in Numbers, 0 \in Nat, FALSE \in BOOLEAN DEF Numbers
  <2>2. file' \in Seq(Frame) /\ file' # <<>>
    BY <1>11, <2>1, Appending DEF AddParticipant
  <2> QED BY <1>11, <2>2 DEF AddParticipant, TypeOK
<1>12. CASE UNCHANGED vars
  BY <1>12 DEF vars, TypeOK
<1> QED BY <1>1, <1>2, <1>3, <1>4, <1>5, <1>6, <1>7, <1>8, <1>9, <1>10, <1>11, <1>12 DEF Next

(* Every state of the record's numbering is of the declared type: the      *)
(* number, the counter and the frames of frames-io.mjs and room-turn.mjs.  *)
THEOREM TypeCorrect == Spec => []TypeOK
<1> QED BY InitTypeOK, NextTypeOK, PTL DEF Spec

-----------------------------------------------------------------------------
(* Numbers are ordered as their pairs are.                                 *)
LEMMA BelowIsTransitive ==
  ASSUME NEW x \in Numbers, NEW y \in Numbers, NEW z \in Numbers, Below(x, y), Below(y, z)
  PROVE  Below(x, z)
BY DEF Below, Numbers

(* A number above the last one of a sound record is above them all, so     *)
(* that appending its frame keeps the numbers ascending.                   *)
LEMMA AppendAscends ==
  ASSUME TypeOK, NumbersAscend, NEW f \in Frame, file' = Append(file, f),
         Sound(Len(file))' => Below(LastFrame.seq, f.seq)
  PROVE  NumbersAscend'
<1> DEFINE N == Len(file)
<1>1. /\ N \in Nat \ {0} /\ Len(file') = N + 1
      /\ \A i \in 1 .. N : file'[i] = file[i]
      /\ file'[N + 1] = f
      /\ \A i \in 1 .. N + 1 : file'[i] \in Frame
  BY Appending DEF TypeOK
<1> SUFFICES ASSUME NEW n \in 1 .. N + 1, Sound(n)',
                    NEW i \in 1 .. n, NEW j \in 1 .. n, i < j
             PROVE  Below(file'[i].seq, file'[j].seq)
  BY <1>1 DEF NumbersAscend
<1>2. CASE n <= N
  <2>1. \A k \in 1 .. n : file'[k] = file[k]
    BY <1>1, <1>2
  <2>2. Sound(n)
    BY <2>1 DEF Sound
  <2> HIDE DEF N
  <2> QED BY <1>1, <1>2, <2>1, <2>2 DEF NumbersAscend, N
<1>3. CASE n = N + 1
  <2>1. \A k \in 1 .. N : file'[k] = file[k]
    BY <1>1
  <2>2. Sound(N)
    <3>1. \A k \in 1 .. N : k \in 1 .. n
      BY <1>1, <1>3
    <3> QED BY <2>1, <3>1 DEF Sound
  <2>3. \A k, l \in 1 .. N : k < l => Below(file[k].seq, file[l].seq)
    BY <2>2, <1>1 DEF NumbersAscend
  <2>4. CASE j <= N
    <3>1. i \in 1 .. N /\ j \in 1 .. N
      BY <2>4, <1>1
    <3> QED BY <3>1, <2>1, <2>3
  <2>5. CASE j = N + 1
    <3>1. i \in 1 .. N
      BY <2>5, <1>1
    <3>2. Below(file[N].seq, f.seq)
      <4>1. Sound(N)'
        <5>1. \A k \in 1 .. N : k \in 1 .. n
          BY <1>1, <1>3
        <5>2. Len(file)' = N + 1
          BY <1>1
        <5> QED BY <1>3, <5>2
      <4> QED BY <4>1 DEF LastFrame
    <3>3. CASE i = N
      BY <3>2, <3>3, <1>1, <2>5
    <3>4. CASE i < N
      <4>1. Below(file[i].seq, file[N].seq)
        BY <2>3, <3>1, <3>4, <1>1
      <4>2. file[i].seq \in Numbers /\ file[N].seq \in Numbers /\ f.seq \in Numbers
        BY <3>1, <1>1 DEF TypeOK, Frame
      <4>3. Below(file[i].seq, f.seq)
        BY <4>1, <4>2, <3>2, BelowIsTransitive
      <4> QED BY <4>3, <2>1, <3>1, <1>1, <2>5
    <3> QED BY <3>1, <3>3, <3>4, <1>1
  <2> QED BY <2>4, <2>5, <1>1, <1>3
<1> QED BY <1>2, <1>3, <1>1

-----------------------------------------------------------------------------
(* NumbersAscend is not inductive: it says nothing of the counter a turn   *)
(* takes its next number from, nor of where that counter was set.          *)
Numbering ==
  /\ TypeOK
  /\ NumbersAscend
  /\ CounterIsFree
  /\ base <= Len(file)

(* In a sound record the last frame's number is read back as it is, and is *)
(* above all the others'.                                                  *)
LEMMA LastIsTop ==
  ASSUME TypeOK, NumbersAscend, Sound(Len(file))
  PROVE  /\ LastFrameInfo = LastFrame.seq
         /\ LastFrame.numbered
         /\ LastFrame.seq \in Numbers /\ LastFrame.seq[2] < Precision
         /\ \A i \in 1 .. Len(file) :
              file[i].seq \in Numbers /\ file[i].seq[1] <= LastFrame.seq[1]
<1>1. Len(file) \in Nat \ {0}
  BY DEF TypeOK
<1>2. \A i \in 1 .. Len(file) : file[i] \in Frame /\ file[i].seq \in Numbers
  BY FramesOfFile
<1>3. Readable(LastFrame)
  BY <1>1 DEF Sound, LastFrame
<1>4. LastFrame.seq \in Numbers
  BY <1>1, <1>2 DEF LastFrame
<1>5. ASSUME NEW i \in 1 .. Len(file) PROVE file[i].seq[1] <= LastFrame.seq[1]
  <2>1. CASE i = Len(file)
    BY <2>1, <1>2, <1>4 DEF LastFrame, Numbers
  <2>2. CASE i < Len(file)
    <3>1. Below(file[i].seq, file[Len(file)].seq)
      BY <2>2, <1>1 DEF NumbersAscend
    <3> QED BY <3>1, <1>2, <1>4 DEF Below, Numbers, LastFrame
  <2> QED BY <2>1, <2>2, <1>1
<1> QED BY <1>2, <1>3, <1>4, <1>5 DEF Readable, LastFrameInfo

(* Soundness of a longer record is soundness of the shorter.               *)
LEMMA SoundBefore ==
  ASSUME TypeOK, NEW f \in Frame, file' = Append(file, f), Sound(Len(file))'
  PROVE  Sound(Len(file))
<1>1. /\ Len(file) \in Nat \ {0} /\ Len(file') = Len(file) + 1
      /\ \A i \in 1 .. Len(file) : file'[i] = file[i]
  BY Appending
<1>2. \A i \in 1 .. Len(file) : i \in 1 .. Len(file')
  BY <1>1
<1> QED BY <1>1, <1>2 DEF Sound

(* A number from the file is above all that the file holds.                *)
LEMMA ResyncedIsFree ==
  ASSUME TypeOK, NumbersAscend, Sound(Len(file))
  PROVE  \A i \in 1 .. Len(file) : Below(file[i].seq, Whole(Resynced))
<1> SUFFICES ASSUME NEW i \in 1 .. Len(file)
             PROVE  Below(file[i].seq, Whole(Resynced))
  OBVIOUS
<1>1. file[i].seq \in Numbers /\ file[i].seq[1] < Resynced /\ Resynced \in Nat
  BY LastIsTop, ReadsNumbers DEF Resynced, Numbers
<1> QED BY <1>1 DEF Below, Whole, Numbers

(* A frame the house numbers between two integers keeps the numbering.     *)
LEMMA HouseKeepsNumbering ==
  ASSUME Numbering, NEW long \in BOOLEAN, AppendHouseFrame(long)
  PROVE  Numbering'
<1> DEFINE f == HouseFrame(HouseFrameSeq, long)
<1>0. TypeOK /\ NumbersAscend /\ CounterIsFree /\ base \in Nat /\ base <= Len(file)
  BY DEF Numbering, TypeOK
<1>1. f \in Frame /\ f.seq = HouseFrameSeq /\ file' = Append(file, f)
  BY <1>0, ReadsNumbers, FramesAreFrames, 0 \in Nat DEF AppendHouseFrame
<1> HIDE DEF f
<1>2. /\ Len(file) \in Nat \ {0} /\ Len(file') = Len(file) + 1
      /\ \A i \in 1 .. Len(file) : file'[i] = file[i]
      /\ file'[Len(file) + 1] = f
  BY <1>0, <1>1, Appending
<1>3. ASSUME Sound(Len(file)) PROVE Below(LastFrame.seq, f.seq) /\ f.seq[1] = LastFrame.seq[1]
  <2>1. f.seq = <<LastFrame.seq[1], LastFrame.seq[2] + 1>>
    BY <1>3, <1>1, <1>0, LastIsTop DEF HouseFrameSeq
  <2>2. LastFrame.seq \in Numbers
    BY <1>3, <1>0, LastIsTop
  <2> QED BY <2>1, <2>2 DEF Below, Numbers
<1>4. NumbersAscend'
  BY <1>0, <1>1, <1>3, SoundBefore, AppendAscends
<1>5. TypeOK'
  BY <1>0, NextTypeOK DEF Next
<1>6. CounterIsFree'
  <2> SUFFICES ASSUME counter' # Unset, Sound(Len(file))',
                      (\A i \in base + 1 .. Len(file) : file[i].kind # "rested")',
                      NEW i \in 1 .. Len(file')
               PROVE  Below(file'[i].seq, Whole(counter'))
    BY DEF CounterIsFree
  <2>1. counter' = counter /\ base' = base
    BY DEF AppendHouseFrame
  <2>2. Sound(Len(file))
    BY <1>0, <1>1, SoundBefore
  <2>3. \A k \in base + 1 .. Len(file) : file[k].kind # "rested"
    BY <2>1, <1>2, <1>0
  <2>4. \A k \in 1 .. Len(file) : Below(file[k].seq, Whole(counter))
    BY <1>0, <2>1, <2>2, <2>3 DEF CounterIsFree
  <2>5. CASE i <= Len(file)
    BY <2>5, <2>4, <2>1, <1>2
  <2>6. CASE i = Len(file) + 1
    <3>1. Below(LastFrame.seq, Whole(counter)) /\ LastFrame.seq \in Numbers
      BY <2>4, <1>0, <1>2, <2>2, LastIsTop DEF LastFrame
    <3>2. f.seq[1] = LastFrame.seq[1] /\ f.seq \in Numbers /\ counter \in Nat
      BY <1>3, <2>2, <1>0, <1>1, ReadsNumbers DEF TypeOK
    <3>3. Below(f.seq, Whole(counter))
      BY <3>1, <3>2 DEF Below, Whole, Numbers
    <3> QED BY <3>3, <2>1, <2>6, <1>2
  <2> QED BY <2>5, <2>6, <1>2
<1>7. base' <= Len(file')
  BY <1>0, <1>2 DEF AppendHouseFrame
<1> QED BY <1>4, <1>5, <1>6, <1>7 DEF Numbering

(* A turn's frame takes a free number, whether its counter was set by the  *)
(* turn or is set now.                                                     *)
LEMMA TurnKeepsNumbering ==
  ASSUME Numbering, NEW long \in BOOLEAN, AppendTurnFrame(long)
  PROVE  NumbersAscend' /\ CounterIsFree' /\ (base <= Len(file))'
<1> DEFINE f == TurnFrame(NextNumber, long, NextBase)
<1>0. TypeOK /\ NumbersAscend /\ CounterIsFree /\ base \in Nat /\ base <= Len(file)
  BY DEF Numbering, TypeOK
<1>1. /\ f \in Frame /\ f.seq = Whole(NextNumber) /\ file' = Append(file, f)
      /\ f.kind = "live" /\ f.base = NextBase
      /\ NextNumber \in Nat /\ NextBase \in Nat
  BY <1>0, TurnFrameType, FramesAreFrames, <<0, 0>> \in Numbers DEF AppendTurnFrame, Numbers
<1> HIDE DEF f
<1>2. /\ Len(file) \in Nat \ {0} /\ Len(file') = Len(file) + 1
      /\ \A i \in 1 .. Len(file) : file'[i] = file[i]
      /\ file'[Len(file) + 1] = f
  BY <1>0, <1>1, Appending
<1>3. counter' = NextNumber + 1 /\ base' = NextBase
  BY DEF AppendTurnFrame
<1>4. NextBase <= Len(file)
  BY <1>0, <1>2 DEF NextBase
<1>5. ASSUME Sound(Len(file))'
      PROVE  \A i \in 1 .. Len(file) : Below(file[i].seq, Whole(NextNumber))
  <2>1. Sound(Len(file))
    BY <1>5, <1>0, <1>1, SoundBefore
  <2>2. CASE counter = Unset
    BY <2>1, <2>2, <1>0, ResyncedIsFree DEF NextNumber
  <2>3. CASE counter # Unset
    <3>1. \A i \in base + 1 .. Len(file) : file[i].kind # "rested"
      <4> SUFFICES ASSUME NEW i \in base + 1 .. Len(file), file[i].kind = "rested"
                   PROVE  FALSE
        OBVIOUS
      <4>1. /\ i \in 1 .. Len(file') /\ Len(file') \in 1 .. Len(file') /\ i < Len(file')
            /\ file'[i].kind = "rested" /\ file'[Len(file')] = f
        BY <1>0, <1>2
      <4>2. i <= f.base
        BY <4>1, <1>1, <1>5 DEF Sound
      <4>3. f.base = base
        BY <1>1, <2>3 DEF NextBase
      <4> QED BY <4>2, <4>3, <1>0
    <3> QED BY <2>1, <2>3, <3>1, <1>0 DEF CounterIsFree, NextNumber
  <2> QED BY <2>2, <2>3
<1>6. NumbersAscend'
  <2>1. Sound(Len(file))' => Below(LastFrame.seq, f.seq)
    BY <1>5, <1>1, <1>2 DEF LastFrame
  <2> QED BY <2>1, <1>0, <1>1, AppendAscends
<1>7. CounterIsFree'
  <2> SUFFICES ASSUME Sound(Len(file))', NEW i \in 1 .. Len(file')
               PROVE  Below(file'[i].seq, Whole(NextNumber + 1))
    BY <1>3 DEF CounterIsFree
  <2>1. CASE i <= Len(file)
    <3>1. Below(file[i].seq, Whole(NextNumber)) /\ file[i].seq \in Numbers
      BY <1>5, <2>1, <1>2, <1>0, FramesOfFile
    <3>2. Below(file[i].seq, Whole(NextNumber + 1))
      BY <3>1, <1>1 DEF Below, Whole, Numbers
    <3> QED BY <3>2, <2>1, <1>2
  <2>2. CASE i = Len(file) + 1
    BY <2>2, <1>1, <1>2 DEF Below, Whole
  <2> QED BY <2>1, <2>2, <1>2
<1>8. base' <= Len(file')
  BY <1>1, <1>2, <1>3, <1>4
<1> QED BY <1>6, <1>7, <1>8

(* Setting the counter from the file makes it free.                        *)
LEMMA BeginKeepsNumbering ==
  ASSUME Numbering, NEW b \in Beings, BeginTurn(b)
  PROVE  NumbersAscend' /\ CounterIsFree' /\ (base <= Len(file))'
<1>0. TypeOK /\ NumbersAscend
  BY DEF Numbering
<1>1. file' = file /\ counter' = Resynced /\ base' = Len(file)
  BY DEF BeginTurn
<1>2. NumbersAscend'
  BY <1>0, <1>1 DEF NumbersAscend, Sound
<1>3. CounterIsFree'
  <2>1. Sound(Len(file))' => Sound(Len(file))
    BY <1>1 DEF Sound
  <2> QED BY <2>1, <1>0, <1>1, ResyncedIsFree DEF CounterIsFree
<1>4. Len(file) \in Nat
  BY <1>0 DEF TypeOK
<1> QED BY <1>1, <1>2, <1>3, <1>4

(* A rest is numbered above the last frame; the counter is free again only *)
(* when a turn sets it.                                                    *)
LEMMA RestKeepsNumbering ==
  ASSUME Numbering, RestRoom
  PROVE  NumbersAscend' /\ CounterIsFree' /\ (base <= Len(file))'
<1> DEFINE f == RestedFrame(RestSeq)
<1>0. TypeOK /\ NumbersAscend /\ base \in Nat /\ base <= Len(file)
  BY DEF Numbering, TypeOK
<1>1. f \in Frame /\ f.seq = RestSeq /\ f.kind = "rested" /\ file' = Append(file, f)
  BY <1>0, ReadsNumbers, FramesAreFrames, 0 \in Nat, FALSE \in BOOLEAN DEF RestRoom
<1> HIDE DEF f
<1>2. /\ Len(file) \in Nat \ {0} /\ Len(file') = Len(file) + 1
      /\ file'[Len(file) + 1] = f
  BY <1>0, <1>1, Appending
<1>3. ASSUME Sound(Len(file)) PROVE Below(LastFrame.seq, f.seq)
  <2>1. f.seq = <<LastFrame.seq[1] + 1, LastFrame.seq[2]>> /\ LastFrame.seq \in Numbers
    BY <1>3, <1>0, <1>1, LastIsTop DEF RestSeq
  <2> QED BY <2>1 DEF Below, Numbers
<1>4. NumbersAscend'
  BY <1>0, <1>1, <1>3, SoundBefore, AppendAscends
<1>5. CounterIsFree'
  <2>1. base' = base
    BY DEF RestRoom
  <2>2. Len(file') \in base' + 1 .. Len(file') /\ file'[Len(file')].kind = "rested"
    BY <2>1, <1>0, <1>1, <1>2
  <2> QED BY <2>2 DEF CounterIsFree
<1>6. base' <= Len(file')
  BY <1>0, <1>2 DEF RestRoom
<1> QED BY <1>4, <1>5, <1>6

(* A frame without a number ends the sound part of the record.             *)
LEMMA JoinedKeepsNumbering ==
  ASSUME Numbering, AddParticipant
  PROVE  NumbersAscend' /\ CounterIsFree' /\ (base <= Len(file))'
<1>0. TypeOK /\ NumbersAscend /\ base \in Nat /\ base <= Len(file)
  BY DEF Numbering, TypeOK
<1>1. JoinedFrame \in Frame /\ ~JoinedFrame.numbered
  BY FramesAreFrames, <<0, 0>> \in Numbers, 0 \in Nat, FALSE \in BOOLEAN DEF Numbers
<1>2. file' = Append(file, JoinedFrame) /\ base' = base
  BY DEF AddParticipant
<1>3. /\ Len(file) \in Nat \ {0} /\ Len(file') = Len(file) + 1
      /\ file'[Len(file) + 1] = JoinedFrame
  BY <1>0, <1>1, <1>2, Appending
<1>4. ~Sound(Len(file))'
  <2>1. Len(file') \in 1 .. Len(file') /\ ~Readable(file'[Len(file')])
    BY <1>1, <1>3 DEF Readable
  <2> QED BY <2>1 DEF Sound
<1>5. NumbersAscend'
  BY <1>0, <1>1, <1>2, <1>4, AppendAscends
<1>6. CounterIsFree'
  BY <1>4 DEF CounterIsFree
<1>7. base' <= Len(file')
  BY <1>0, <1>2, <1>3
<1> QED BY <1>5, <1>6, <1>7

(* The numbering holds when the room is mounted.                           *)
LEMMA InitNumbering == Init => Numbering
<1> SUFFICES ASSUME Init PROVE Numbering
  OBVIOUS
<1>1. TypeOK
  BY InitTypeOK
<1>2. Len(file) = 1 /\ counter = Unset /\ base = 0
  BY DEF Init
<1>3. NumbersAscend /\ CounterIsFree
  BY <1>2 DEF NumbersAscend, CounterIsFree
<1> QED BY <1>1, <1>2, <1>3 DEF Numbering

(* Where neither the file, the counter nor its base change, nor does the   *)
(* numbering.                                                              *)
LEMMA NumberingUntouched ==
  ASSUME Numbering, UNCHANGED <<file, counter, base>>
  PROVE  NumbersAscend' /\ CounterIsFree' /\ (base <= Len(file))'
BY DEF Numbering, NumbersAscend, CounterIsFree, Sound

(* Every step keeps the numbering: one case for each handler.              *)
LEMMA NextNumbering == Numbering /\ [Next]_vars => Numbering'
<1> SUFFICES ASSUME Numbering, [Next]_vars
             PROVE  NumbersAscend' /\ CounterIsFree' /\ (base <= Len(file))'
  BY NextTypeOK DEF Numbering
<1>1. ASSUME NEW long \in BOOLEAN, AppendHouseFrame(long)
      PROVE  NumbersAscend' /\ CounterIsFree' /\ (base <= Len(file))'
  BY <1>1, HouseKeepsNumbering DEF Numbering
<1>2. ASSUME NEW long \in BOOLEAN, ToolReturns(long)
      PROVE  NumbersAscend' /\ CounterIsFree' /\ (base <= Len(file))'
  BY <1>2, TurnKeepsNumbering DEF ToolReturns
<1>3. ASSUME NEW b \in Beings, BeginTurn(b)
      PROVE  NumbersAscend' /\ CounterIsFree' /\ (base <= Len(file))'
  BY <1>3, BeginKeepsNumbering
<1>4. ASSUME NEW b \in Beings, BeginTurnFails(b)
      PROVE  NumbersAscend' /\ CounterIsFree' /\ (base <= Len(file))'
  BY <1>4, TurnKeepsNumbering, FALSE \in BOOLEAN DEF BeginTurnFails
<1>5. ASSUME NEW b \in Beings, ToolExec(b)
      PROVE  NumbersAscend' /\ CounterIsFree' /\ (base <= Len(file))'
  BY <1>5, TurnKeepsNumbering, FALSE \in BOOLEAN DEF ToolExec
<1>6. ASSUME NEW b \in Beings, NEW long \in BOOLEAN, Speak(b, long)
      PROVE  NumbersAscend' /\ CounterIsFree' /\ (base <= Len(file))'
  BY <1>6, TurnKeepsNumbering DEF Speak
<1>7. ASSUME NEW b \in Beings, NEW spoke \in BOOLEAN, NEW long \in BOOLEAN,
             CloseTurn(b, spoke, long)
      PROVE  NumbersAscend' /\ CounterIsFree' /\ (base <= Len(file))'
  <2>1. CASE spoke
    BY <1>7, <2>1, TurnKeepsNumbering DEF CloseTurn
  <2>2. CASE ~spoke
    BY <1>7, <2>2, NumberingUntouched DEF CloseTurn
  <2> QED BY <2>1, <2>2
<1>8. CASE RestRoom
  BY <1>8, RestKeepsNumbering
<1>9. CASE Restart
  <2>1. NumbersAscend'
    BY <1>9 DEF Restart, Numbering, NumbersAscend, Sound
  <2>2. CounterIsFree' /\ (base <= Len(file))'
    <3>1. Len(file) \in Nat
      BY DEF Numbering, TypeOK
    <3> QED BY <3>1, <1>9 DEF Restart, CounterIsFree
  <2> QED BY <2>1, <2>2
<1>10. CASE EnsureRegistered
  BY <1>10, NumberingUntouched DEF EnsureRegistered
<1>11. CASE AddParticipant
  BY <1>11, JoinedKeepsNumbering
<1>12. CASE UNCHANGED vars
  BY <1>12, NumberingUntouched DEF vars
<1> QED BY <1>1, <1>2, <1>3, <1>4, <1>5, <1>6, <1>7, <1>8, <1>9, <1>10, <1>11, <1>12 DEF Next

(* As far as the record can be read back and no rest came between a turn's *)
(* frame and the reading its number came from, no two frames share a       *)
(* number and numbers follow the order of writing, however many beings,    *)
(* turns, late results and restarts wrote them.                            *)
THEOREM RecordAscends == Spec => []NumbersAscend
<1>1. Numbering => NumbersAscend
  BY DEF Numbering
<1> QED BY <1>1, InitNumbering, NextNumbering, PTL DEF Spec

(* And the turns' counter stands above every number in such a record.      *)
THEOREM CounterStaysFree == Spec => []CounterIsFree
<1>1. Numbering => CounterIsFree
  BY DEF Numbering
<1> QED BY <1>1, InitNumbering, NextNumbering, PTL DEF Spec

-----------------------------------------------------------------------------
(* Reading back by number.                                                 *)

(* What is held by a life that has read up to a number of a sound record   *)
(* is every frame up to that one.                                          *)
LEMMA HeldIsPrefix ==
  ASSUME TypeOK, NumbersAscend, NEW n \in 1 .. Len(file), Sound(n), NEW i \in 1 .. n
  PROVE  Held(file[i].seq, n) = 1 .. i
<1>1. /\ n \in Nat /\ i \in Nat /\ Len(file) \in Nat
      /\ \A j \in 1 .. n : file[j].numbered /\ file[j].seq \in Numbers
  <2>1. n \in Nat /\ i \in Nat /\ Len(file) \in Nat /\ \A j \in 1 .. n : j \in 1 .. Len(file)
    BY DEF TypeOK
  <2>2. \A j \in 1 .. n : file[j].numbered
    BY DEF Sound, Readable
  <2> QED
    BY <2>1, <2>2, FramesOfFile
<1>2. \A j, k \in 1 .. n : j < k => Below(file[j].seq, file[k].seq)
  BY DEF NumbersAscend
<1>3. \A x, y \in Numbers : Below(x, y) => ~Below(y, x)
  BY DEF Below, Numbers
<1>4. ASSUME NEW j \in 1 .. n, j > i
      PROVE  Below(file[i].seq, file[j].seq)
  BY <1>1, <1>2, <1>4
<1>5. ASSUME NEW j \in 1 .. n, ~(j > i)
      PROVE  ~Below(file[i].seq, file[j].seq)
  <2>1. CASE j = i
    BY <1>1, <1>3, <2>1
  <2>2. CASE j # i
    <3>1. j < i
      BY <1>1, <1>5, <2>2
    <3>2. Below(file[j].seq, file[i].seq)
      BY <1>2, <3>1
    <3> QED
      BY <1>1, <1>3, <3>2
  <2> QED
    BY <2>1, <2>2
<1>6. Held(file[i].seq, n) = {j \in 1 .. n : ~(j > i)}
  BY <1>1, <1>4, <1>5 DEF Held
<1>7. \A j : j \in 1 .. i <=> j \in 1 .. n /\ ~(j > i)
  BY <1>1
<1> QED
  BY <1>6, <1>7

(* The last of the first i is the i-th.                                    *)
LEMMA LastOfPrefix ==
  ASSUME NEW i \in Nat \ {0}
  PROVE  LastOf(1 .. i) = i
<1>1. i \in 1 .. i /\ \A k \in 1 .. i : k <= i
  OBVIOUS
<1>2. \A j \in 1 .. i : (\A k \in 1 .. i : k <= j) => j = i
  BY <1>1
<1>3. (CHOOSE j \in 1 .. i : \A k \in 1 .. i : k <= j) = i
  BY <1>1, <1>2
<1> QED
  BY <1>1, <1>3 DEF LastOf

(* The conversation a being is shown starts right behind the last line its *)
(* life holds, for any number of beings and bits of a number: what is read *)
(* back by number is read back by place.  (renderConversation's from.)     *)
THEOREM ConversationRuns == Spec => []ConversationRunsOn
<1>1. TypeOK /\ NumbersAscend => ConversationRunsOn
  <2> SUFFICES ASSUME TypeOK, NumbersAscend, NEW n \in 1 .. Len(file), Sound(n), NEW i \in 1 .. n
               PROVE  StartsAfter(file[i].seq, n) = i
    BY DEF ConversationRunsOn
  <2>1. i \in Nat \ {0}
    BY DEF TypeOK
  <2> QED
    BY <2>1, HeldIsPrefix, LastOfPrefix DEF StartsAfter
<1> QED
  BY <1>1, TypeCorrect, RecordAscends, PTL

-----------------------------------------------------------------------------
(* A non-empty set of numbers has a least one.                             *)
LEMMA Least ==
  ASSUME NEW U, U \subseteq Nat, U # {}
  PROVE  \E n \in U : \A m \in U : n <= m
<1>1. IsWellFoundedOn(OpToRel(<, Nat), Nat)
  BY NatLessThanWellFounded
<1>2. PICK n \in U : \A m \in U : ~(<<m, n>> \in OpToRel(<, Nat))
  BY <1>1, WFMin
<1>3. \A m \in U : m < n => <<m, n>> \in OpToRel(<, Nat)
  BY DEF OpToRel
<1>4. \A m \in U : ~(m < n)
  BY <1>2, <1>3, Zenon
<1> QED
  BY <1>4

-----------------------------------------------------------------------------
(* The session with a server of tools (McpServers).                        *)

SessionStates == {"none", "opening", "open", "failed", "lost", "closing", "closed"}
CallStates == {"idle", "connecting", "called", "closing", "reconnecting", "again", "said"}
Answers == {"ok", "unreachable", "late"}

(* How often the server has carried a call out, by how far the call is.    *)
CallKept(l, r, n) ==
  /\ l.at \in CallStates
  /\ l.at \in {"idle", "connecting"} => n = 0 /\ ~r
  /\ l.at = "called" => (r => n = 1) /\ (~r => n = 0)
  /\ l.at \in {"closing", "reconnecting"} => n <= 1
  /\ l.at = "again" => (r => n \in {1, 2}) /\ (~r => n <= 1)
  /\ l.at = "said" =>
       /\ n <= 2
       /\ l.said = "ok" => n > 0
       /\ l.said = "unreachable" => n = 0
       /\ l.said = "late" => n <= 1
  /\ l.at # "said" => l.said \notin Answers
CallsKept ==
  /\ DOMAIN call = Calls /\ DOMAIN opener = Calls \cup {"tick"}
  /\ ran \in [Calls -> BOOLEAN] /\ done \in [Calls -> Nat]
  /\ \A c \in Calls : CallKept(call[c], ran[c], done[c])
  /\ \A c \in Calls : opener[c] # 0 => call[c].at \in {"connecting", "reconnecting"}
SessionsKept ==
  /\ client \in MS!Sessions \cup {0} /\ adopted \in MS!Sessions \cup {0}
  /\ session \in [MS!Sessions -> SessionStates]
  /\ \A x \in Calls \cup {"tick"} : opener[x] \in MS!Sessions \cup {0}
  /\ MS!RidesTheLast
McpKept == CallsKept /\ SessionsKept

(* A call as it is when it rides a session, opens one or waits for one.    *)
LEMMA RidingIs ==
  ASSUME NEW a, NEW k
  PROVE  MS!Rides(a, k).at = a /\ MS!Rides(a, k).said \notin Answers
<1>1. MS!Rides(a, k).said = ""
  BY Zenon DEF MS!Rides
<1>2. "" \notin Answers
  BY Zenon DEF Answers
<1> QED
  BY <1>1, <1>2, Zenon DEF MS!Rides

(* One call moves on, the others stay where they are.                      *)
LEMMA CallMoves ==
  ASSUME CallsKept, NEW c \in Calls, NEW l, NEW r \in BOOLEAN, NEW n \in Nat,
         CallKept(l, r, n),
         call' = [call EXCEPT ![c] = l], ran' = [ran EXCEPT ![c] = r], done' = [done EXCEPT ![c] = n],
         DOMAIN opener' = Calls \cup {"tick"},
         \A d \in Calls : d # c => opener'[d] = opener[d],
         opener'[c] # 0 => l.at \in {"connecting", "reconnecting"}
  PROVE  CallsKept'
  BY DEF CallsKept

(* A session is opened: the first that was not used.                       *)
LEMMA OpensIs ==
  ASSUME MaxSessions \in Nat, NEW x, MS!Opens(x)
  PROVE  \E k \in MS!Sessions :
           session' = [session EXCEPT ![k] = "opening"] /\ opener' = [opener EXCEPT ![x] = k]
<1> DEFINE k == MS!Min(MS!Unused)
<1>1. MS!Unused # {} /\ MS!Unused \subseteq Nat /\ MS!Unused \subseteq MS!Sessions
  BY DEF MS!Opens, MS!Unused, MS!Sessions
<1>2. PICK n \in MS!Unused : \A m \in MS!Unused : n <= m
  BY <1>1, Least
<1> HIDE DEF MS!Unused
<1>3. k \in MS!Unused
  BY <1>2 DEF MS!Min
<1> QED
  BY <1>1, <1>3 DEF MS!Opens

(* Opening one leaves the session in use as it is.                         *)
LEMMA OpeningKeepsSessions ==
  ASSUME MaxSessions \in Nat, SessionsKept, NEW x \in Calls \cup {"tick"}, MS!Opens(x),
         DOMAIN opener = Calls \cup {"tick"}, UNCHANGED <<client, offered, adopted>>
  PROVE  /\ SessionsKept' /\ DOMAIN opener' = Calls \cup {"tick"}
         /\ \A d \in Calls : d # x => opener'[d] = opener[d]
<1>1. PICK k \in MS!Sessions :
        session' = [session EXCEPT ![k] = "opening"] /\ opener' = [opener EXCEPT ![x] = k]
  BY OpensIs
<1>2. session' \in [MS!Sessions -> SessionStates]
  BY <1>1 DEF SessionsKept, SessionStates
<1>3. \A y \in Calls \cup {"tick"} : opener'[y] \in MS!Sessions \cup {0}
  BY <1>1 DEF SessionsKept
<1>4. 0 \notin MS!Sessions
  BY DEF MS!Sessions
<1>5. MS!RidesTheLast'
  BY <1>1, <1>4 DEF SessionsKept, MS!RidesTheLast
<1> QED
  BY <1>1, <1>2, <1>3, <1>5 DEF SessionsKept

(* connect, and what it returns.                                           *)
LEMMA ConnectKeeps ==
  ASSUME MaxSessions \in Nat, "tick" \notin Calls, McpKept,
         \/ MS!ConnectNamed
         \/ \E x \in Calls \cup {"tick"} : MS!Connected(x) \/ MS!NotConnected(x)
  PROVE  McpKept'
<1>1. CASE MS!ConnectNamed
  <2>1. SessionsKept' /\ DOMAIN opener' = Calls \cup {"tick"} /\ \A d \in Calls : opener'[d] = opener[d]
    BY <1>1, OpeningKeepsSessions DEF MS!ConnectNamed, MS!Tick, McpKept, CallsKept
  <2>2. UNCHANGED <<call, ran, done>>
    BY <1>1 DEF MS!ConnectNamed
  <2>3. CallsKept'
    BY <2>1, <2>2 DEF McpKept, CallsKept
  <2> QED
    BY <2>1, <2>3 DEF McpKept
<1>2. ASSUME NEW x \in Calls \cup {"tick"}, MS!Connected(x) \/ MS!NotConnected(x)
      PROVE  McpKept'
  <2>1. opener[x] \in MS!Sessions /\ 0 \notin MS!Sessions
    BY <1>2 DEF MS!Connected, MS!NotConnected, McpKept, SessionsKept, MS!Sessions
  <2>2. opener' = [opener EXCEPT ![x] = 0] /\ UNCHANGED done
    BY <1>2 DEF MS!Connected, MS!NotConnected
  <2>3. SessionsKept'
    <3>1. CASE MS!Connected(x)
      BY <2>1, <2>2, <3>1 DEF MS!Connected, McpKept, CallsKept, SessionsKept, SessionStates, MS!RidesTheLast
    <3>2. CASE MS!NotConnected(x)
      BY <2>1, <2>2, <3>2 DEF MS!NotConnected, McpKept, CallsKept, SessionsKept, SessionStates, MS!RidesTheLast
    <3> QED
      BY <1>2, <3>1, <3>2
  <2>4. DOMAIN opener' = Calls \cup {"tick"} /\ \A d \in Calls : d # x => opener'[d] = opener[d]
    BY <2>2 DEF McpKept, CallsKept
  <2>5. CASE x = "tick"
    <3>1. UNCHANGED <<call, ran, done>>
      BY <1>2, <2>2, <2>5 DEF MS!Connected, MS!NotConnected, MS!Continues, MS!Tick
    <3>2. CallsKept'
      BY <2>4, <2>5, <3>1 DEF McpKept, CallsKept
    <3> QED
      BY <2>3, <3>2 DEF McpKept
  <2>6. CASE x \in Calls
    <3>1. CallKept(call[x], ran[x], done[x]) /\ call[x].at \in {"connecting", "reconnecting"} /\ done[x] \in Nat
      BY <2>1, <2>6 DEF McpKept, CallsKept, MS!Sessions
    <3>2. PICK k : MS!Continues(x, k)
      BY <1>2 DEF MS!Connected, MS!NotConnected
    <3>3. ran' = [ran EXCEPT ![x] = FALSE] /\ done' = [done EXCEPT ![x] = done[x]]
      BY <2>2, <2>6, <3>2 DEF MS!Continues, MS!Tick, McpKept, CallsKept
    <3>4. PICK l : call' = [call EXCEPT ![x] = l] /\ CallKept(l, FALSE, done[x])
      <4>1. CASE k # 0
        <5> DEFINE l == MS!Rides(MS!Onward(call[x].at), k)
        <5>1. call' = [call EXCEPT ![x] = l]
          BY <2>6, <3>2, <4>1 DEF MS!Continues, MS!Tick
        <5>2. CallKept(l, FALSE, done[x])
          BY <3>1, RidingIs DEF CallKept, CallStates, MS!Onward
        <5> HIDE DEF l
        <5> QED
          BY <5>1, <5>2
      <4>2. CASE k = 0
        <5> DEFINE what == IF call[x].at = "connecting" THEN "unreachable" ELSE "error"
                   l == [at |-> "said", on |-> 0, said |-> what]
        <5>1. call' = [call EXCEPT ![x] = l]
          BY <2>6, <3>2, <4>2 DEF MS!Continues, MS!Says, MS!Tick
        <5>2. CallKept(l, FALSE, done[x])
          BY <3>1 DEF CallKept, CallStates
        <5> HIDE DEF l
        <5> QED
          BY <5>1, <5>2
      <4> QED
        BY <4>1, <4>2
    <3>5. opener'[x] = 0
      BY <2>2 DEF McpKept, CallsKept
    <3>6. CallsKept'
      BY <2>4, <2>6, <3>1, <3>3, <3>4, <3>5, CallMoves DEF McpKept
    <3> QED
      BY <2>3, <3>6 DEF McpKept
  <2> QED
    BY <2>5, <2>6
<1> QED
  BY <1>1, <1>2

(* One call moves on, the sessions being kept.                             *)
LEMMA OneMoves ==
  ASSUME CallsKept, NEW c \in Calls, NEW l, NEW r \in BOOLEAN, NEW n \in Nat,
         CallKept(l, r, n), UNCHANGED opener, opener[c] # 0 => l.at \in {"connecting", "reconnecting"},
         call' = [call EXCEPT ![c] = l], ran' = [ran EXCEPT ![c] = r], done' = [done EXCEPT ![c] = n]
  PROVE  CallsKept'
  BY DEF CallsKept

(* What a call is told, by how often it was carried out.                   *)
LEMMA ToldKept ==
  ASSUME NEW what, NEW r \in BOOLEAN, NEW n \in Nat, n <= 2,
         what = "ok" => n > 0, what = "unreachable" => n = 0, what = "late" => n <= 1
  PROVE  CallKept([at |-> "said", on |-> 0, said |-> what], r, n)
  BY DEF CallKept, CallStates

(* A call begins, is carried out, and ends.                                *)
LEMMA CallKeeps ==
  ASSUME MaxSessions \in Nat, "tick" \notin Calls, McpKept, NEW c \in Calls,
         MS!Run(c) \/ MS!ServerDoes(c) \/ MS!Answered(c) \/ MS!TimesOut(c) \/ MS!Rejected(c) \/ MS!Closed(c)
  PROVE  McpKept'
<1>1. /\ CallsKept /\ SessionsKept /\ CallKept(call[c], ran[c], done[c]) /\ ran[c] \in BOOLEAN /\ done[c] \in Nat
      /\ opener[c] # 0 => call[c].at \in {"connecting", "reconnecting"}
  BY DEF McpKept, CallsKept
<1>2. ran = [ran EXCEPT ![c] = ran[c]] /\ done = [done EXCEPT ![c] = done[c]]
  BY DEF McpKept, CallsKept
<1>3. UNCHANGED <<session, client, offered, opener, adopted>> => SessionsKept'
  BY <1>1 DEF SessionsKept, MS!RidesTheLast
<1>4. ASSUME NEW k, NEW where \in CallStates, call' = [call EXCEPT ![c] = MS!Rides(where, k)], UNCHANGED <<ran, done, opener>>,
             where # "said", CallKept(MS!Rides(where, k), ran[c], done[c]), SessionsKept', call[c].at \notin {"connecting", "reconnecting"}
      PROVE  McpKept'
  <2> DEFINE l == MS!Rides(where, k)
  <2>1. call' = [call EXCEPT ![c] = l] /\ CallKept(l, ran[c], done[c]) /\ opener[c] = 0
    BY <1>1, <1>4
  <2> HIDE DEF l
  <2>2. ran' = [ran EXCEPT ![c] = ran[c]] /\ done' = [done EXCEPT ![c] = done[c]] /\ UNCHANGED opener
    BY <1>2, <1>4
  <2>3. CallsKept'
    BY <1>1, <2>1, <2>2, OneMoves
  <2> QED
    BY <1>4, <2>3 DEF McpKept
<1>5. ASSUME NEW what, MS!Says(c, what), UNCHANGED <<ran, done, opener>>, SessionsKept', MS!Rode(c), done[c] <= 2,
             what = "ok" => done[c] > 0, what # "unreachable", what = "late" => done[c] <= 1
      PROVE  McpKept'
  <2> DEFINE l == [at |-> "said", on |-> 0, said |-> what]
  <2>1. call' = [call EXCEPT ![c] = l] /\ CallKept(l, ran[c], done[c]) /\ opener[c] = 0
    BY <1>1, <1>5, ToldKept DEF MS!Says, MS!Rode
  <2> HIDE DEF l
  <2>2. ran' = [ran EXCEPT ![c] = ran[c]] /\ done' = [done EXCEPT ![c] = done[c]] /\ UNCHANGED opener
    BY <1>2, <1>5
  <2>3. CallsKept'
    BY <1>1, <2>1, <2>2, OneMoves
  <2> QED
    BY <1>5, <2>3 DEF McpKept
<1>6. ASSUME MS!Opens(c), NEW where \in {"connecting", "reconnecting"}, call' = [call EXCEPT ![c] = MS!Rides(where, 0)],
             CallKept(MS!Rides(where, 0), ran[c], done[c]), UNCHANGED <<ran, done, client, offered, adopted>>
      PROVE  McpKept'
  <2> DEFINE l == MS!Rides(where, 0)
  <2>1. call' = [call EXCEPT ![c] = l] /\ CallKept(l, ran[c], done[c]) /\ l.at \in {"connecting", "reconnecting"}
    BY <1>6, RidingIs
  <2> HIDE DEF l
  <2>2. ran' = [ran EXCEPT ![c] = ran[c]] /\ done' = [done EXCEPT ![c] = done[c]]
    BY <1>2, <1>6
  <2>3. SessionsKept' /\ DOMAIN opener' = Calls \cup {"tick"} /\ \A d \in Calls : d # c => opener'[d] = opener[d]
    BY <1>1, <1>6, OpeningKeepsSessions DEF CallsKept
  <2>4. CallsKept'
    BY <1>1, <2>1, <2>2, <2>3, CallMoves
  <2> QED
    BY <2>3, <2>4 DEF McpKept
<1>7. CASE MS!Run(c)
  <2>1. call[c].at = "idle"
    BY <1>7 DEF MS!Run
  <2>2. \A k : \A where \in {"called", "connecting"} : CallKept(MS!Rides(where, k), ran[c], done[c])
    BY <1>1, <2>1, RidingIs DEF CallKept, CallStates
  <2>3. CASE client # 0 /\ call' = [call EXCEPT ![c] = MS!Rides("called", client)] /\ UNCHANGED <<session, opener>>
    <3>1. SessionsKept' /\ UNCHANGED <<ran, done, opener>>
      BY <1>3, <1>7, <2>3 DEF MS!Run
    <3>2. "called" \in CallStates /\ "called" # "said"
      BY DEF CallStates
    <3> QED
      BY <1>4, <2>1, <2>2, <2>3, <3>1, <3>2
  <2>4. CASE MS!Opens(c) /\ call' = [call EXCEPT ![c] = MS!Rides("connecting", 0)]
    <3>1. UNCHANGED <<ran, done, client, offered, adopted>>
      BY <1>7 DEF MS!Run
    <3> QED
      BY <1>6, <2>2, <2>4, <3>1
  <2> QED
    BY <1>7, <2>3, <2>4 DEF MS!Run
<1>8. CASE MS!ServerDoes(c)
  <2>1. /\ ran' = [ran EXCEPT ![c] = TRUE] /\ done' = [done EXCEPT ![c] = @ + 1] /\ UNCHANGED <<call, opener>>
        /\ call[c].at \in {"called", "again"} /\ ~ran[c]
    BY <1>8 DEF MS!ServerDoes, MS!Rode
  <2>2. SessionsKept'
    BY <1>3, <1>8 DEF MS!ServerDoes
  <2>3. CallKept(call[c], TRUE, done[c] + 1)
    BY <1>1, <2>1 DEF CallKept
  <2>4. ASSUME NEW d \in Calls PROVE CallKept(call'[d], ran'[d], done'[d])
    <3>1. CASE d = c
      <4>1. ran'[d] = TRUE /\ done'[d] = done[c] + 1 /\ call'[d] = call[c]
        BY <1>1, <2>1, <3>1 DEF CallsKept
      <4> QED
        BY <2>3, <4>1, Zenon
    <3>2. CASE d # c
      <4>1. ran'[d] = ran[d] /\ done'[d] = done[d] /\ call'[d] = call[d]
        BY <1>1, <2>1, <3>2 DEF CallsKept
      <4> QED
        BY <1>1, <4>1, Zenon DEF CallsKept
    <3> QED
      BY <3>1, <3>2
  <2>5. CallsKept'
    <3>1. ran' \in [Calls -> BOOLEAN] /\ done' \in [Calls -> Nat]
      BY <1>1, <2>1 DEF CallsKept
    <3> QED
      BY <1>1, <2>1, <2>4, <3>1 DEF CallsKept
  <2> QED
    BY <2>2, <2>5 DEF McpKept
<1>9. CASE MS!Answered(c)
  <2>1. MS!Rode(c) /\ ran[c] /\ MS!Says(c, "ok") /\ UNCHANGED <<ran, done, opener>> /\ SessionsKept'
    BY <1>3, <1>9 DEF MS!Answered
  <2>2. CASE call[c].at = "called"
    <3>1. done[c] = 1
      BY <1>1, <2>1, <2>2 DEF CallKept
    <3> QED
      BY <1>5, <2>1, <3>1
  <2>3. CASE call[c].at = "again"
    <3>1. done[c] <= 2 /\ done[c] > 0
      BY <1>1, <2>1, <2>3 DEF CallKept
    <3> QED
      BY <1>5, <2>1, <3>1
  <2> QED
    BY <2>1, <2>2, <2>3 DEF MS!Rode
<1>10. CASE MS!TimesOut(c)
  <2> DEFINE what == IF call[c].at = "called" THEN "late" ELSE "lateAgain"
  <2>1. MS!Rode(c) /\ MS!Says(c, what) /\ UNCHANGED <<ran, done, opener>> /\ SessionsKept'
    BY <1>3, <1>10 DEF MS!TimesOut
  <2>2. done[c] <= 2 /\ (what = "late" => done[c] <= 1) /\ what # "ok" /\ what # "unreachable"
    BY <1>1, <2>1 DEF MS!Rode, CallKept
  <2> HIDE DEF what
  <2> QED
    BY <1>5, <2>1, <2>2
<1>11. CASE MS!Rejected(c)
  <2>1. MS!Rode(c) /\ UNCHANGED <<ran, done, opener>>
    BY <1>11 DEF MS!Rejected
  <2>2. CASE call[c].at = "called" /\ MS!Reconnect(c)
    <3>1. SessionsKept'
      <4>1. 0 \notin MS!Sessions /\ UNCHANGED <<adopted, opener>>
        BY <1>11 DEF MS!Sessions, MS!Rejected
      <4>2. session' \in [MS!Sessions -> SessionStates]
        BY <1>1, <2>2 DEF MS!Reconnect, SessionsKept, SessionStates
      <4>3. MS!RidesTheLast'
        BY <1>1, <2>2, <4>1 DEF MS!Reconnect, SessionsKept, MS!RidesTheLast
      <4> QED
        BY <1>1, <2>2, <4>1, <4>2, <4>3 DEF MS!Reconnect, SessionsKept
    <3>2. CallKept(MS!Rides("closing", client), ran[c], done[c])
      BY <1>1, <2>2, RidingIs DEF CallKept, CallStates
    <3>3. "closing" \in CallStates /\ "closing" # "said" /\ call' = [call EXCEPT ![c] = MS!Rides("closing", client)]
      BY <2>2 DEF CallStates, MS!Reconnect
    <3> QED
      BY <1>4, <2>1, <2>2, <3>1, <3>2, <3>3
  <2>3. CASE MS!Says(c, "error") /\ UNCHANGED <<client, session>>
    <3>1. SessionsKept'
      BY <1>3, <1>11, <2>3 DEF MS!Rejected
    <3>2. done[c] <= 2
      BY <1>1, <2>1 DEF MS!Rode, CallKept
    <3> QED
      BY <1>5, <2>1, <2>3, <3>1, <3>2
  <2> QED
    BY <1>11, <2>2, <2>3 DEF MS!Rejected
<1>12. CASE MS!Closed(c)
  <2>1. call[c].at = "closing" /\ UNCHANGED <<client, offered, done, adopted>>
    BY <1>12 DEF MS!Closed
  <2>2. /\ \A k : CallKept(MS!Rides("again", k), FALSE, done[c])
        /\ CallKept(MS!Rides("reconnecting", 0), ran[c], done[c])
    BY <1>1, <2>1, RidingIs DEF CallKept, CallStates
  <2>3. CASE call' = [call EXCEPT ![c] = MS!Rides("again", client)] /\ ran' = [ran EXCEPT ![c] = FALSE] /\ UNCHANGED <<session, opener>>
    <3> DEFINE l == MS!Rides("again", client)
    <3>1. CallKept(l, FALSE, done[c]) /\ call' = [call EXCEPT ![c] = l] /\ opener[c] = 0
      BY <1>1, <2>1, <2>2, <2>3
    <3> HIDE DEF l
    <3>2. done' = [done EXCEPT ![c] = done[c]] /\ ran' = [ran EXCEPT ![c] = FALSE] /\ UNCHANGED opener
      BY <1>2, <2>1, <2>3
    <3>3. CallsKept'
      BY <1>1, <3>1, <3>2, OneMoves
    <3> QED
      BY <1>3, <2>1, <2>3, <3>3 DEF McpKept
  <2>4. CASE MS!Opens(c) /\ call' = [call EXCEPT ![c] = MS!Rides("reconnecting", 0)] /\ UNCHANGED ran
    BY <1>6, <2>1, <2>2, <2>4
  <2> QED
    BY <1>12, <2>3, <2>4 DEF MS!Closed
<1> QED
  BY <1>7, <1>8, <1>9, <1>10, <1>11, <1>12

(* The server forgets a session, and a session's close arrives.            *)
LEMMA SessionEnds ==
  ASSUME McpKept, NEW k \in MS!Sessions, MS!Forgets(k) \/ MS!OnClose(k)
  PROVE  McpKept'
<1>1. UNCHANGED <<opener, call, ran, done, adopted>>
  BY DEF MS!Forgets, MS!OnClose
<1>2. CallsKept'
  BY <1>1 DEF McpKept, CallsKept
<1>3. session' \in [MS!Sessions -> SessionStates]
  BY DEF McpKept, SessionsKept, SessionStates, MS!Forgets, MS!OnClose
<1>4. 0 \notin MS!Sessions
  BY DEF MS!Sessions
<1>5. client' \in MS!Sessions \cup {0} /\ MS!RidesTheLast'
  <2>1. CASE MS!Forgets(k)
    BY <1>1, <1>4, <2>1 DEF McpKept, SessionsKept, MS!RidesTheLast, MS!Forgets
  <2>2. CASE MS!OnClose(k)
    BY <1>1, <1>4, <2>2 DEF McpKept, SessionsKept, MS!RidesTheLast, MS!OnClose
  <2> QED
    BY <2>1, <2>2
<1>6. SessionsKept'
  BY <1>1, <1>3, <1>5 DEF McpKept, SessionsKept
<1> QED
  BY <1>2, <1>6 DEF McpKept

(* Every step of the part keeps it; and it is what the part promises.      *)
LEMMA McpStep ==
  ASSUME MaxSessions \in Nat, "tick" \notin Calls, McpKept, MS!Next
  PROVE  McpKept'
  BY ConnectKeeps, CallKeeps, SessionEnds DEF MS!Next, MS!Tick

(* At rest.                                                                *)
LEMMA McpRest ==
  ASSUME McpKept, UNCHANGED mcpVars
  PROVE  McpKept'
  BY DEF McpKept, CallsKept, SessionsKept, CallKept, MS!RidesTheLast, mcpVars

(* At first nobody calls.                                                  *)
LEMMA McpStart == MS!Init => McpKept
<1> SUFFICES ASSUME MS!Init PROVE McpKept
  OBVIOUS
<1>1. \A c \in Calls : CallKept(call[c], ran[c], done[c]) /\ opener[c] = 0
  BY RidingIs DEF MS!Init, CallKept, CallStates
<1>2. CallsKept
  BY <1>1 DEF MS!Init, CallsKept, MS!Tick
<1>3. SessionsKept
  BY DEF MS!Init, SessionsKept, SessionStates, MS!RidesTheLast, MS!Tick
<1> QED
  BY <1>2, <1>3 DEF McpKept

(* What is kept is what the server promises.                               *)
LEMMA McpIsSound == McpKept => MS!McpSound
<1> SUFFICES ASSUME McpKept PROVE MS!McpSound
  OBVIOUS
<1>1. \A c \in Calls : CallKept(call[c], ran[c], done[c]) /\ done[c] \in Nat
  BY DEF McpKept, CallsKept
<1>2. MS!ToldTruly
  BY <1>1 DEF CallKept, CallStates, Answers, MS!ToldTruly
<1> QED
  BY <1>2 DEF McpKept, SessionsKept, MS!McpSound

-----------------------------------------------------------------------------
(* What the library's operators are, under a part's name.                  *)
LEMMA SameSize == \A S : RB!Cardinality(S) = Cardinality(S)
  BY DEF RB!Cardinality, Cardinality

-----------------------------------------------------------------------------
(* A lane of the render bridge: who is rendered and who is queued.         *)
Lanes == [active : SUBSET Nat, queue : Seq(Nat)]
Apart(lane) ==
  /\ lane \in Lanes /\ IsFiniteSet(lane.active)
  /\ \A i \in 1 .. Len(lane.queue) : lane.queue[i] \notin lane.active
  /\ \A i, k \in 1 .. Len(lane.queue) : lane.queue[i] = lane.queue[k] => i = k
LaneKept(lane, most, room) ==
  /\ Apart(lane) /\ Cardinality(lane.active) <= most /\ Len(lane.queue) <= room
  /\ lane.queue # <<>> => Cardinality(lane.active) = most
(* Before _drain: a slot may be free, one at most if several are queued.   *)
LaneLoose(lane, most, room) ==
  /\ Apart(lane) /\ Cardinality(lane.active) <= most /\ Len(lane.queue) <= room
  /\ lane.queue # <<>> => Cardinality(lane.active) + 1 >= most \/ Len(lane.queue) = 1

(* Who is in a lane.                                                       *)
LEMMA InIs ==
  ASSUME NEW lane \in Lanes, NEW j
  PROVE  RB!In(lane, j) <=> j \in lane.active \/ \E i \in 1 .. Len(lane.queue) : lane.queue[i] = j
<1>1. lane.queue \in Seq(Nat)
  BY DEF Lanes
<1>2. DOMAIN lane.queue = 1 .. Len(lane.queue)
  BY <1>1
<1> QED
  BY <1>2 DEF RB!In, RB!Range

(* _drain keeps everyone and leaves no slot free before a queue.           *)
LEMMA DrainedKept ==
  ASSUME NEW most \in Nat, NEW room \in Nat, NEW lane, LaneLoose(lane, most, room)
  PROVE  /\ LaneKept(RB!Drained(lane, most), most, room)
         /\ \A j : RB!In(RB!Drained(lane, most), j) <=> RB!In(lane, j)
<1> DEFINE q == lane.queue
           h == Head(q)
           d == [active |-> lane.active \cup {h}, queue |-> Tail(q)]
<1>1. /\ lane \in Lanes /\ q \in Seq(Nat) /\ lane.active \subseteq Nat /\ Len(q) \in Nat
      /\ IsFiniteSet(lane.active) /\ Cardinality(lane.active) \in Nat
  BY FS_CardinalityType DEF LaneLoose, Apart, Lanes
<1>2. CASE ~(q # <<>> /\ Cardinality(lane.active) < most)
  <2>1. RB!Drained(lane, most) = lane
    BY <1>2, SameSize DEF RB!Drained
  <2>2. LaneKept(lane, most, room)
    BY <1>1, <1>2 DEF LaneLoose, LaneKept
  <2> QED
    BY <2>1, <2>2
<1>3. CASE q # <<>> /\ Cardinality(lane.active) < most
  <2>1. RB!Drained(lane, most) = d
    BY <1>3, SameSize DEF RB!Drained
  <2>2. /\ h \in Nat /\ h = q[1] /\ Tail(q) \in Seq(Nat) /\ Len(Tail(q)) = Len(q) - 1 /\ Len(q) >= 1
        /\ \A i \in 1 .. Len(Tail(q)) : Tail(q)[i] = q[i + 1]
    BY <1>1, <1>3, HeadTailProperties
  <2>3. d.active = lane.active \cup {h} /\ d.queue = Tail(q) /\ d \in Lanes
    BY <1>1, <2>2 DEF Lanes
  <2> HIDE DEF d, h
  <2>4. h \notin lane.active /\ \A i \in 1 .. Len(Tail(q)) : Tail(q)[i] \notin lane.active /\ Tail(q)[i] # h
    BY <1>1, <2>2 DEF LaneLoose, Apart
  <2>5. \A i, k \in 1 .. Len(Tail(q)) : Tail(q)[i] = Tail(q)[k] => i = k
    <3> SUFFICES ASSUME NEW i \in 1 .. Len(Tail(q)), NEW k \in 1 .. Len(Tail(q)), Tail(q)[i] = Tail(q)[k]
                 PROVE  i = k
      OBVIOUS
    <3>1. i + 1 \in 1 .. Len(q) /\ k + 1 \in 1 .. Len(q) /\ q[i + 1] = q[k + 1]
      BY <1>1, <2>2
    <3>2. i + 1 = k + 1
      BY <3>1 DEF LaneLoose, Apart
    <3> QED
      BY <3>2
  <2>6. Cardinality(lane.active \cup {h}) = Cardinality(lane.active) + 1 /\ IsFiniteSet(lane.active \cup {h})
    BY <1>1, <2>4, FS_AddElement
  <2>7. Apart(d)
    BY <2>3, <2>4, <2>5, <2>6 DEF Apart
  <2>8. Tail(q) # <<>> => Cardinality(lane.active) + 1 >= most
    <3>1. Tail(q) # <<>> => Len(Tail(q)) # 0
      BY <2>2, EmptySeq
    <3> QED
      BY <1>1, <2>2, <3>1 DEF LaneLoose
  <2>9. LaneKept(d, most, room)
    BY <1>1, <1>3, <2>2, <2>3, <2>6, <2>7, <2>8 DEF LaneKept, LaneLoose
  <2>10. ASSUME NEW j PROVE RB!In(d, j) <=> RB!In(lane, j)
    <3>1. RB!In(d, j) <=> j \in lane.active \/ j = h \/ \E i \in 1 .. Len(Tail(q)) : Tail(q)[i] = j
      BY <2>3, InIs
    <3>2. (\E i \in 1 .. Len(q) : q[i] = j) <=> j = h \/ \E i \in 1 .. Len(Tail(q)) : Tail(q)[i] = j
      <4>1. ASSUME NEW i \in 1 .. Len(q), q[i] = j PROVE j = h \/ \E k \in 1 .. Len(Tail(q)) : Tail(q)[k] = j
        <5>1. CASE i = 1
          BY <2>2, <4>1, <5>1
        <5>2. CASE i # 1
          <6>1. i - 1 \in 1 .. Len(Tail(q)) /\ (i - 1) + 1 = i
            BY <1>1, <2>2, <4>1, <5>2
          <6>2. Tail(q)[i - 1] = j
            BY <2>2, <4>1, <6>1
          <6> QED
            BY <6>1, <6>2
        <5> QED
          BY <5>1, <5>2
      <4>2. ASSUME NEW i \in 1 .. Len(Tail(q)), Tail(q)[i] = j PROVE \E k \in 1 .. Len(q) : q[k] = j
        <5>1. i + 1 \in 1 .. Len(q) /\ q[i + 1] = j
          BY <1>1, <2>2, <4>2
        <5> QED
          BY <5>1
      <4>3. h = q[1] /\ 1 \in 1 .. Len(q)
        BY <1>1, <2>2
      <4> QED
        BY <4>1, <4>2, <4>3
    <3> QED
      BY <1>1, <3>1, <3>2, InIs
  <2> QED
    BY <2>1, <2>9, <2>10
<1> QED
  BY <1>2, <1>3

(* Lane.run: what is queued is moved on if there is a slot.                *)
LEMMA JoinsKept ==
  ASSUME NEW most \in Nat, NEW room \in Nat, NEW lane, LaneKept(lane, most, room), NEW j \in Nat,
         ~RB!In(lane, j), ~RB!Full(lane, room)
  PROVE  /\ LaneKept(RB!Joins(lane, most, j), most, room)
         /\ \A i : RB!In(RB!Joins(lane, most, j), i) <=> RB!In(lane, i) \/ i = j
<1> DEFINE q == lane.queue
           w == Append(q, j)
           d == [lane EXCEPT !.queue = Append(@, j)]
<1>1. /\ lane \in Lanes /\ q \in Seq(Nat) /\ Len(q) \in Nat /\ Cardinality(lane.active) \in Nat
  BY FS_CardinalityType DEF LaneKept, Apart, Lanes
<1>2. w \in Seq(Nat) /\ Len(w) = Len(q) + 1 /\ w[Len(q) + 1] = j /\ \A i \in 1 .. Len(q) : w[i] = q[i]
  BY <1>1, AppendProperties
<1>3. d.active = lane.active /\ d.queue = w /\ d \in Lanes
  BY <1>1, <1>2 DEF Lanes
<1>4. RB!Joins(lane, most, j) = RB!Drained(d, most)
  BY DEF RB!Joins
<1> HIDE DEF d, w
<1>5. j \notin lane.active /\ \A i \in 1 .. Len(q) : q[i] # j
  BY <1>1, InIs
<1>6. Apart(d)
  <2>1. \A i \in 1 .. Len(w) : w[i] \notin lane.active
    <3>1. \A i \in 1 .. Len(w) : i \in 1 .. Len(q) \/ i = Len(q) + 1
      BY <1>1, <1>2
    <3>2. \A i \in 1 .. Len(q) : q[i] \notin lane.active
      BY DEF LaneKept, Apart
    <3> QED
      BY <1>2, <1>5, <3>1, <3>2
  <2>2. \A i, k \in 1 .. Len(w) : w[i] = w[k] => i = k
    <3> SUFFICES ASSUME NEW i \in 1 .. Len(w), NEW k \in 1 .. Len(w), w[i] = w[k] PROVE i = k
      OBVIOUS
    <3>1. (i \in 1 .. Len(q) \/ i = Len(q) + 1) /\ (k \in 1 .. Len(q) \/ k = Len(q) + 1)
      BY <1>1, <1>2
    <3> QED
      BY <1>1, <1>2, <1>5, <3>1 DEF LaneKept, Apart
  <2> QED
    BY <1>1, <1>3, <2>1, <2>2 DEF LaneKept, Apart
<1>7. LaneLoose(d, most, room)
  <2>1. Len(q) + 1 <= room
    BY <1>1 DEF RB!Full
  <2>2. Cardinality(lane.active) + 1 >= most \/ Len(w) = 1
    <3>1. CASE q = <<>>
      BY <1>1, <1>2, <3>1
    <3>2. CASE q # <<>>
      BY <1>1, <3>2 DEF LaneKept
    <3> QED
      BY <3>1, <3>2
  <2> QED
    BY <1>1, <1>2, <1>3, <1>6, <2>1, <2>2 DEF LaneLoose, LaneKept
<1>8. ASSUME NEW i PROVE RB!In(d, i) <=> RB!In(lane, i) \/ i = j
  <2>1. (\E k \in 1 .. Len(w) : w[k] = i) <=> i = j \/ \E k \in 1 .. Len(q) : q[k] = i
    <3>1. \A k \in 1 .. Len(w) : k \in 1 .. Len(q) \/ k = Len(q) + 1
      BY <1>1, <1>2
    <3>2. Len(q) + 1 \in 1 .. Len(w) /\ \A k \in 1 .. Len(q) : k \in 1 .. Len(w)
      BY <1>1, <1>2
    <3> QED
      BY <1>2, <3>1, <3>2
  <2> QED
    BY <1>1, <1>3, <2>1, InIs
<1> QED
  BY <1>4, <1>7, <1>8, DrainedKept

(* A job that is done leaves its slot to the next one.                     *)
LEMMA LeavesKept ==
  ASSUME NEW most \in Nat, NEW room \in Nat, NEW lane, LaneKept(lane, most, room), NEW j, j \in lane.active
  PROVE  /\ LaneKept(RB!Leaves(lane, most, j), most, room)
         /\ \A i : RB!In(RB!Leaves(lane, most, j), i) <=> RB!In(lane, i) /\ i # j
<1> DEFINE q == lane.queue
           d == [lane EXCEPT !.active = @ \ {j}]
<1>1. /\ lane \in Lanes /\ q \in Seq(Nat) /\ Len(q) \in Nat /\ Cardinality(lane.active) \in Nat
      /\ IsFiniteSet(lane.active)
  BY FS_CardinalityType DEF LaneKept, Apart, Lanes
<1>2. d.active = lane.active \ {j} /\ d.queue = q /\ d \in Lanes
  BY <1>1 DEF Lanes
<1>3. RB!Leaves(lane, most, j) = RB!Drained(d, most)
  BY DEF RB!Leaves
<1> HIDE DEF d
<1>4. Cardinality(lane.active \ {j}) = Cardinality(lane.active) - 1 /\ IsFiniteSet(lane.active \ {j})
  BY <1>1, FS_RemoveElement
<1>5. Apart(d)
  BY <1>1, <1>2, <1>4 DEF LaneKept, Apart
<1>6. LaneLoose(d, most, room)
  BY <1>1, <1>2, <1>4, <1>5 DEF LaneKept, LaneLoose
<1>7. ASSUME NEW i PROVE RB!In(d, i) <=> RB!In(lane, i) /\ i # j
  <2>1. \A k \in 1 .. Len(q) : q[k] # j
    BY <1>1 DEF LaneKept, Apart
  <2> QED
    BY <1>1, <1>2, <2>1, InIs
<1> QED
  BY <1>3, <1>6, <1>7, DrainedKept

-----------------------------------------------------------------------------
(* The render bridge.                                                      *)

Ends == {"picture", "refused", "busy", "failed"}
Jobs == [key : RB!Pictures, probe : BOOLEAN, end : Ends \cup {"none"}]
Asked == [key : RB!Pictures, job : Nat, got : Ends \cup {"nothing"}]
Kept == [key : RB!Pictures, job : Nat, fresh : BOOLEAN]

(* Requests, what is in flight and what is cached are of jobs of the same  *)
(* picture: a request waits for one that is live, one in flight is live    *)
(* and the only live one of its picture, one that is cached has ended with *)
(* the picture.                                                            *)
AskKept(js, a) ==
  /\ a.job \in 1 .. Len(js) /\ js[a.job].key = a.key
  /\ a.got = "nothing" => js[a.job].end = "none"
  /\ a.got = "picture" => js[a.job].end = "picture"
EntryKept(js, c) ==
  c.job \in 1 .. Len(js) /\ js[c.job].key = c.key /\ js[c.job].end = "picture"
FlightKept ==
  /\ inflight \in [RB!Pictures -> Nat]
  /\ \A k \in RB!Pictures : inflight[k] # 0 =>
       inflight[k] \in 1 .. Len(jobs) /\ jobs[inflight[k]].key = k /\ jobs[inflight[k]].end = "none"
  /\ \A j \in 1 .. Len(jobs) : jobs[j].end = "none" => inflight[jobs[j].key] = j
WorkKept ==
  /\ jobs \in Seq(Jobs) /\ asks \in Seq(Asked) /\ cache \in Seq(Kept)
  /\ \A n \in 1 .. Len(asks) : AskKept(jobs, asks[n])
  /\ \A i \in 1 .. Len(cache) : EntryKept(jobs, cache[i])
  /\ FlightKept
(* What is live stands in one lane, and nothing else does.                 *)
LanesKept ==
  /\ LaneKept(dream, DreamMax, DreamQueue) /\ LaneKept(local, LocalMax, LocalQueue)
  /\ \A j : RB!In(dream, j) \/ RB!In(local, j) => j \in 1 .. Len(jobs) /\ jobs[j].end = "none"
  /\ \A j \in 1 .. Len(jobs) : jobs[j].end = "none" => (RB!In(dream, j) <=> ~RB!In(local, j))
  /\ \A j : ~(RB!In(dream, j) /\ RB!In(local, j))
BreakerKept ==
  /\ breaker \in [state : {"closed", "open", "half-open"}, fails : Nat, cooled : BOOLEAN]
  /\ breaker.state = "half-open" =>
    \E j \in 1 .. Len(jobs) : jobs[j].probe /\ (RB!In(dream, j) \/ jobs[j].end \in {"refused", "busy"})
RenderKept == WorkKept /\ LanesKept /\ BreakerKept

(* A job ends: whoever waited for it is told, and what is in flight, kept  *)
(* and asked stays of live and of ended jobs.                              *)
LEMMA SettlesKeeps ==
  ASSUME WorkKept, NEW j \in 1 .. Len(jobs), jobs[j].end = "none", NEW how \in Ends, RB!Settles(j, how)
  PROVE  /\ WorkKept' /\ Len(jobs') = Len(jobs) /\ jobs'[j].end = how
         /\ \A i \in 1 .. Len(jobs) :
              jobs'[i].key = jobs[i].key /\ jobs'[i].probe = jobs[i].probe /\ (i # j => jobs'[i] = jobs[i])
<1> DEFINE k == jobs[j].key
<1>1. jobs' = [jobs EXCEPT ![j].end = how]
  BY DEF RB!Settles
<1>2. jobs \in Seq(Jobs) /\ asks \in Seq(Asked) /\ cache \in Seq(Kept) /\ Len(jobs) \in Nat /\ Len(asks) \in Nat /\ Len(cache) \in Nat
  BY LenProperties DEF WorkKept
<1>3. /\ jobs' \in Seq(Jobs) /\ Len(jobs') = Len(jobs) /\ jobs'[j].end = how
      /\ \A i \in 1 .. Len(jobs) :
           jobs'[i].key = jobs[i].key /\ jobs'[i].probe = jobs[i].probe /\ (i # j => jobs'[i] = jobs[i])
  <2>1. jobs \in [1 .. Len(jobs) -> Jobs]
    BY <1>2, LenProperties
  <2>2. jobs[j] \in Jobs /\ [jobs[j] EXCEPT !.end = how] \in Jobs
    BY <2>1 DEF Jobs
  <2>3. jobs' \in [1 .. Len(jobs) -> Jobs]
    BY <1>1, <2>1, <2>2
  <2>4. jobs' \in Seq(Jobs) /\ Len(jobs') = Len(jobs)
    BY <1>2, <2>3, IsASeq, LenProperties
  <2> QED
    BY <1>1, <2>1, <2>2, <2>4 DEF Jobs
<1>4. k \in RB!Pictures /\ jobs'[j].key = k /\ inflight[k] = j /\ j # 0
  <2>1. jobs[j] \in Jobs
    BY <1>2, ElementOfSeq
  <2>2. k \in RB!Pictures
    BY <2>1 DEF Jobs
  <2> QED
    BY <1>2, <1>3, <2>2 DEF WorkKept, FlightKept
<1>5. inflight' = [inflight EXCEPT ![k] = 0]
  BY DEF RB!Settles, RB!Clears
<1>6. FlightKept'
  <2>1. inflight' \in [RB!Pictures -> Nat] /\ inflight'[k] = 0 /\ \A p \in RB!Pictures : p # k => inflight'[p] = inflight[p]
    BY <1>4, <1>5 DEF WorkKept, FlightKept
  <2>2. ASSUME NEW p \in RB!Pictures, inflight'[p] # 0
        PROVE  inflight'[p] \in 1 .. Len(jobs') /\ jobs'[inflight'[p]].key = p /\ jobs'[inflight'[p]].end = "none"
    <3>1. p # k /\ inflight'[p] = inflight[p]
      BY <2>1, <2>2
    <3>2. inflight[p] \in 1 .. Len(jobs) /\ jobs[inflight[p]].key = p /\ jobs[inflight[p]].end = "none"
      BY <2>2, <3>1 DEF WorkKept, FlightKept
    <3>3. inflight[p] # j
      BY <3>1, <3>2
    <3> QED
      BY <1>3, <3>1, <3>2, <3>3
  <2>3. ASSUME NEW i \in 1 .. Len(jobs'), jobs'[i].end = "none" PROVE inflight'[jobs'[i].key] = i
    <3>1. i \in 1 .. Len(jobs) /\ i # j
      BY <1>3, <2>3 DEF Ends
    <3>2. jobs'[i] = jobs[i] /\ inflight[jobs[i].key] = i
      BY <1>3, <2>3, <3>1 DEF WorkKept, FlightKept
    <3>3. jobs[i] \in Jobs
      BY <1>2, <3>1, ElementOfSeq
    <3>4. jobs[i].key # k /\ jobs[i].key \in RB!Pictures
      BY <1>4, <3>1, <3>2, <3>3 DEF Jobs
    <3> QED
      BY <2>1, <3>2, <3>4
  <2> QED
    BY <2>1, <2>2, <2>3 DEF FlightKept
<1>7. asks' \in Seq(Asked) /\ \A n \in 1 .. Len(asks') : AskKept(jobs', asks'[n])
  <2> DEFINE f == RB!Answered(asks, j, how)
  <2>1. asks' = f
    BY DEF RB!Settles
  <2>2. DOMAIN asks = 1 .. Len(asks)
    BY <1>2, LenProperties
  <2>3. f = [n \in 1 .. Len(asks) |-> IF asks[n].job = j /\ asks[n].got = "nothing" THEN [asks[n] EXCEPT !.got = how] ELSE asks[n]]
    BY <2>2 DEF RB!Answered
  <2> HIDE DEF f
  <2>4. ASSUME NEW n \in 1 .. Len(asks)
        PROVE  /\ f[n] \in Asked /\ f[n].job = asks[n].job /\ f[n].key = asks[n].key
               /\ f[n].got = IF asks[n].job = j /\ asks[n].got = "nothing" THEN how ELSE asks[n].got
    <3>1. asks[n] \in Asked
      BY <1>2, ElementOfSeq
    <3>2. f[n] = IF asks[n].job = j /\ asks[n].got = "nothing" THEN [asks[n] EXCEPT !.got = how] ELSE asks[n]
      BY <2>3
    <3> QED
      BY <3>1, <3>2 DEF Asked
  <2>5. f \in Seq(Asked) /\ Len(f) = Len(asks)
    <3>1. f \in [1 .. Len(asks) -> Asked]
      BY <2>3, <2>4
    <3> QED
      BY <1>2, <3>1, IsASeq, LenProperties
  <2>6. ASSUME NEW n \in 1 .. Len(asks) PROVE AskKept(jobs', asks'[n])
    <3>1. AskKept(jobs, asks[n]) /\ asks[n].job \in 1 .. Len(jobs)
      BY DEF WorkKept, AskKept
    <3>2. asks'[n].job = asks[n].job /\ asks'[n].key = asks[n].key
          /\ asks'[n].got = IF asks[n].job = j /\ asks[n].got = "nothing" THEN how ELSE asks[n].got
      BY <2>1, <2>4
    <3>3. CASE asks[n].job = j
      <4>1. asks[n].got # "picture"
        BY <3>1, <3>3 DEF AskKept
      <4>2. asks'[n].got # "nothing" /\ (asks'[n].got = "picture" => how = "picture")
        BY <3>2, <3>3, <4>1 DEF Ends
      <4> QED
        BY <1>3, <3>1, <3>2, <3>3, <4>2 DEF AskKept
    <3>4. CASE asks[n].job # j
      BY <1>3, <3>1, <3>2, <3>4 DEF AskKept
    <3> QED
      BY <3>3, <3>4
  <2> QED
    BY <2>1, <2>5, <2>6
<1>8. cache' \in Seq(Kept) /\ \A i \in 1 .. Len(cache') : EntryKept(jobs', cache'[i])
  <2>1. ASSUME NEW c, EntryKept(jobs, c) PROVE EntryKept(jobs', c)
    BY <1>3, <2>1 DEF EntryKept
  <2>2. CASE how # "picture"
    <3>1. cache' = cache
      BY <2>2 DEF RB!Settles
    <3> QED
      BY <1>2, <2>1, <3>1 DEF WorkKept
  <2>3. CASE how = "picture"
    <3> DEFINE room == IF Len(cache) >= Entries THEN Tail(cache) ELSE cache
               e == [key |-> k, job |-> j, fresh |-> TRUE]
    <3>1. cache' = Append(room, e)
      BY <2>3 DEF RB!Settles, RB!Kept
    <3>2. e \in Kept /\ e.key = k /\ e.job = j
      BY <1>2, <1>4 DEF Kept
    <3>3. EntryKept(jobs', e)
      BY <1>3, <1>4, <2>3, <3>2 DEF EntryKept
    <3> HIDE DEF e
    <3>4. room \in Seq(Kept) /\ Len(room) \in Nat /\ \A i \in 1 .. Len(room) : EntryKept(jobs, room[i])
      <4>1. CASE Len(cache) >= Entries
        <5>1. cache # <<>> /\ room = Tail(cache)
          BY <1>2, <4>1, ServicesAssumption, EmptySeq
        <5>2. room \in Seq(Kept) /\ Len(room) = Len(cache) - 1 /\ \A i \in 1 .. Len(room) : room[i] = cache[i + 1]
          BY <1>2, <5>1, HeadTailProperties
        <5>3. \A i \in 1 .. Len(room) : i + 1 \in 1 .. Len(cache)
          BY <1>2, <5>2
        <5> HIDE DEF room
        <5> QED
          BY <1>2, <5>2, <5>3, LenProperties DEF WorkKept
      <4>2. CASE ~(Len(cache) >= Entries)
        BY <1>2, <4>2 DEF WorkKept
      <4> QED
        BY <4>1, <4>2
    <3> HIDE DEF room
    <3>5. /\ Append(room, e) \in Seq(Kept) /\ Len(Append(room, e)) = Len(room) + 1
          /\ Append(room, e)[Len(room) + 1] = e /\ \A i \in 1 .. Len(room) : Append(room, e)[i] = room[i]
      BY <3>2, <3>4, AppendProperties
    <3>6. ASSUME NEW i \in 1 .. Len(cache') PROVE EntryKept(jobs', cache'[i])
      <4>1. i \in 1 .. Len(room) \/ i = Len(room) + 1
        BY <3>1, <3>4, <3>5
      <4>2. CASE i \in 1 .. Len(room)
        <5>1. cache'[i] = room[i] /\ EntryKept(jobs, room[i])
          BY <3>1, <3>4, <3>5, <4>2
        <5> QED
          BY <1>3, <5>1 DEF EntryKept
      <4>3. CASE i = Len(room) + 1
        <5>1. cache'[i] = e
          BY <3>1, <3>5, <4>3
        <5> QED
          BY <3>3, <5>1 DEF EntryKept
      <4> QED
        BY <4>1, <4>2, <4>3
    <3> QED
      BY <3>1, <3>5, <3>6
  <2> QED
    BY <2>2, <2>3
<1> QED
  BY <1>3, <1>6, <1>7, <1>8 DEF WorkKept

(* What is taken from the cache is all that goes.                          *)
LEMMA WithoutKeeps ==
  ASSUME WorkKept, NEW k
  PROVE  RB!Without(k) \in Seq(Kept) /\ \A i \in 1 .. Len(RB!Without(k)) : EntryKept(jobs, RB!Without(k)[i])
<1>1. cache \in Seq(Kept) /\ DOMAIN cache = 1 .. Len(cache) /\ Len(cache) \in Nat
  BY LenProperties DEF WorkKept
<1>2. CASE RB!Cached(k) = {}
  BY <1>1, <1>2 DEF RB!Without, WorkKept
<1>3. CASE RB!Cached(k) # {}
  <2>1. PICK i \in 1 .. Len(cache) : RB!Without(k) = RB!RemoveAt(cache, i)
    <3>1. RB!Cached(k) \subseteq 1 .. Len(cache)
      BY <1>1 DEF RB!Cached
    <3>2. (CHOOSE i \in RB!Cached(k) : TRUE) \in RB!Cached(k)
      BY <1>3
    <3> QED
      BY <1>3, <3>1, <3>2 DEF RB!Without
  <2> DEFINE u == SubSeq(cache, 1, i - 1)
             v == SubSeq(cache, i + 1, Len(cache))
             w == u \o v
  <2>2. RB!RemoveAt(cache, i) = w
    BY DEF RB!RemoveAt
  <2>3. u \in Seq(Kept) /\ Len(u) = i - 1 /\ \A n \in 1 .. Len(u) : u[n] = cache[n]
    <3>1. 1 \in Int /\ i - 1 \in Int /\ \A n \in 1 .. (i - 1) : cache[n] \in Kept
      BY <1>1, ElementOfSeq
    <3>2. /\ u \in Seq(Kept) /\ Len(u) = IF 1 <= i - 1 THEN (i - 1) - 1 + 1 ELSE 0
          /\ \A n \in 1 .. (i - 1) - 1 + 1 : u[n] = cache[1 + n - 1]
      BY <3>1, SubSeqProperties
    <3> HIDE DEF u
    <3>3. Len(u) = i - 1
      BY <3>2
    <3>4. ASSUME NEW n \in 1 .. Len(u) PROVE u[n] = cache[n]
      <4>1. n \in 1 .. (i - 1) - 1 + 1 /\ 1 + n - 1 = n
        BY <3>3
      <4> QED
        BY <3>2, <4>1
    <3> QED
      BY <3>2, <3>3, <3>4
  <2>4. v \in Seq(Kept) /\ Len(v) = Len(cache) - i /\ \A n \in 1 .. Len(v) : v[n] = cache[i + n]
    <3>1. i + 1 \in Int /\ Len(cache) \in Int /\ \A n \in i + 1 .. Len(cache) : cache[n] \in Kept
      BY <1>1, ElementOfSeq
    <3>2. /\ v \in Seq(Kept) /\ Len(v) = IF i + 1 <= Len(cache) THEN Len(cache) - (i + 1) + 1 ELSE 0
          /\ \A n \in 1 .. Len(cache) - (i + 1) + 1 : v[n] = cache[i + 1 + n - 1]
      BY <3>1, SubSeqProperties
    <3> HIDE DEF v
    <3>3. Len(v) = Len(cache) - i
      BY <1>1, <3>2
    <3>4. ASSUME NEW n \in 1 .. Len(v) PROVE v[n] = cache[i + n]
      <4>1. n \in 1 .. Len(cache) - (i + 1) + 1 /\ i + 1 + n - 1 = i + n
        BY <1>1, <3>3
      <4> QED
        BY <3>2, <4>1
    <3> QED
      BY <3>2, <3>3, <3>4
  <2> HIDE DEF u, v
  <2>5. w \in Seq(Kept) /\ Len(w) = Len(u) + Len(v) /\ \A n \in 1 .. Len(w) : w[n] = IF n <= Len(u) THEN u[n] ELSE v[n - Len(u)]
    <3>1. w \in Seq(Kept) /\ Len(w) = Len(u) + Len(v)
      BY <2>3, <2>4, ConcatProperties
    <3>2. \A n \in 1 .. Len(u) + Len(v) : w[n] = IF n <= Len(u) THEN u[n] ELSE v[n - Len(u)]
      BY <2>3, <2>4, ConcatProperties
    <3> QED
      BY <3>1, <3>2
  <2> HIDE DEF w
  <2>6. ASSUME NEW n \in 1 .. Len(w) PROVE EntryKept(jobs, w[n])
    <3>1. CASE n <= Len(u)
      <4>1. n \in 1 .. Len(u) /\ n \in 1 .. Len(cache) /\ w[n] = cache[n]
        BY <1>1, <2>3, <2>4, <2>5, <3>1
      <4> QED
        BY <4>1 DEF WorkKept
    <3>2. CASE ~(n <= Len(u))
      <4>1. n - Len(u) \in 1 .. Len(v) /\ i + (n - Len(u)) \in 1 .. Len(cache) /\ w[n] = cache[i + (n - Len(u))]
        BY <1>1, <2>3, <2>4, <2>5, <3>2
      <4> QED
        BY <4>1 DEF WorkKept
    <3> QED
      BY <3>1, <3>2
  <2> QED
    BY <2>1, <2>2, <2>5, <2>6
<1> QED
  BY <1>2, <1>3

(* A request more is of a job there is.                                    *)
LEMMA AskAdded ==
  ASSUME WorkKept, NEW a \in Asked, asks' = Append(asks, a), AskKept(jobs', a),
         \A n \in 1 .. Len(jobs) : n \in 1 .. Len(jobs') /\ jobs'[n] = jobs[n]
  PROVE  asks' \in Seq(Asked) /\ \A n \in 1 .. Len(asks') : AskKept(jobs', asks'[n])
<1>1. asks \in Seq(Asked) /\ Len(asks) \in Nat
  BY LenProperties DEF WorkKept
<1>2. /\ asks' \in Seq(Asked) /\ Len(asks') = Len(asks) + 1 /\ asks'[Len(asks) + 1] = a
      /\ \A n \in 1 .. Len(asks) : asks'[n] = asks[n]
  BY <1>1, AppendProperties
<1>3. ASSUME NEW n \in 1 .. Len(asks') PROVE AskKept(jobs', asks'[n])
  <2>1. n \in 1 .. Len(asks) \/ n = Len(asks) + 1
    BY <1>1, <1>2
  <2>2. CASE n \in 1 .. Len(asks)
    <3>1. AskKept(jobs, asks[n]) /\ asks'[n] = asks[n]
      BY <1>2, <2>2 DEF WorkKept
    <3> QED
      BY <3>1 DEF AskKept
  <2>3. CASE n = Len(asks) + 1
    BY <1>2, <2>3
  <2> QED
    BY <2>1, <2>2, <2>3
<1> QED
  BY <1>2, <1>3

(* POST /render of a picture that is cached.                               *)
LEMMA AsksAgainKeeps == ASSUME RenderKept, NEW k \in RB!Pictures, RB!AsksAgain(k) PROVE RenderKept'
<1>1. PICK i \in RB!Cached(k) : asks' = Append(asks, RB!Ask(k, cache[i].job, "picture"))
  BY DEF RB!AsksAgain
<1>2. UNCHANGED <<jobs, inflight, cache, dream, local, breaker>>
  BY DEF RB!AsksAgain
<1>3. WorkKept /\ cache \in Seq(Kept) /\ jobs \in Seq(Jobs) /\ Len(jobs) \in Nat
  BY LenProperties DEF RenderKept, WorkKept
<1>4. i \in 1 .. Len(cache) /\ cache[i].key = k
  BY <1>3, LenProperties DEF RB!Cached
<1>5. EntryKept(jobs, cache[i])
  BY <1>3, <1>4 DEF WorkKept
<1> DEFINE a == [key |-> k, job |-> cache[i].job, got |-> "picture"]
<1>6. a.key = k /\ a.job = cache[i].job /\ a.got = "picture" /\ asks' = Append(asks, a)
  BY <1>1 DEF RB!Ask
<1>7. a \in Asked
  BY <1>3, <1>5 DEF EntryKept, Asked, Ends
<1> HIDE DEF a
<1>8. AskKept(jobs', a)
  BY <1>2, <1>4, <1>5, <1>6 DEF EntryKept, AskKept
<1>9. asks' \in Seq(Asked) /\ \A n \in 1 .. Len(asks') : AskKept(jobs', asks'[n])
  BY <1>2, <1>3, <1>6, <1>7, <1>8, AskAdded
<1> QED
  BY <1>2, <1>9 DEF RenderKept, WorkKept, FlightKept, LanesKept, BreakerKept

(* Of one that is being rendered.                                          *)
LEMMA SharesKeeps == ASSUME RenderKept, NEW k \in RB!Pictures, RB!Shares(k) PROVE RenderKept'
<1>1. inflight[k] # 0 /\ asks' = Append(asks, RB!Ask(k, inflight[k], "nothing")) /\ cache' = RB!Without(k)
  BY DEF RB!Shares
<1>2. UNCHANGED <<jobs, inflight, dream, local, breaker>>
  BY DEF RB!Shares
<1>3. WorkKept /\ jobs \in Seq(Jobs) /\ Len(jobs) \in Nat
  BY LenProperties DEF RenderKept, WorkKept
<1>4. inflight[k] \in 1 .. Len(jobs) /\ jobs[inflight[k]].key = k /\ jobs[inflight[k]].end = "none"
  BY <1>1, <1>3 DEF WorkKept, FlightKept
<1> DEFINE a == [key |-> k, job |-> inflight[k], got |-> "nothing"]
<1>6. a.key = k /\ a.job = inflight[k] /\ a.got = "nothing" /\ asks' = Append(asks, a)
  BY <1>1 DEF RB!Ask
<1>7. a \in Asked
  BY <1>3, <1>4 DEF Asked
<1> HIDE DEF a
<1>8. AskKept(jobs', a)
  BY <1>2, <1>4, <1>6 DEF AskKept
<1>9. asks' \in Seq(Asked) /\ \A n \in 1 .. Len(asks') : AskKept(jobs', asks'[n])
  BY <1>2, <1>3, <1>6, <1>7, <1>8, AskAdded
<1>10. cache' \in Seq(Kept) /\ \A i \in 1 .. Len(cache') : EntryKept(jobs, cache'[i])
  BY <1>1, <1>3, WithoutKeeps
<1> QED
  BY <1>2, <1>9, <1>10 DEF RenderKept, WorkKept, FlightKept, LanesKept, BreakerKept

(* A job is done or refused: what is left is live and in its lane.         *)
LEMMA LanesMoved ==
  ASSUME LanesKept, NEW j \in 1 .. Len(jobs), Len(jobs) \in Nat, Len(jobs') = Len(jobs), jobs'[j].end # "none",
         \A i \in 1 .. Len(jobs) : i # j => jobs'[i] = jobs[i],
         LaneKept(dream', DreamMax, DreamQueue), LaneKept(local', LocalMax, LocalQueue),
         \A i : RB!In(dream', i) <=> RB!In(dream, i) /\ i # j,
         \A i : RB!In(local', i) <=> RB!In(local, i) /\ i # j
  PROVE  LanesKept'
BY DEF LanesKept

(* POST /render of a new one.                                              *)
LEMMA BeginsKeeps == ASSUME RenderKept, NEW k \in RB!Pictures, RB!Begins(k) PROVE RenderKept'
<1> DEFINE j == Len(jobs) + 1
           busy == IF RB!Allows THEN RB!Full(dream, DreamQueue) ELSE RB!Full(local, LocalQueue)
           job == [key |-> k, probe |-> RB!Probing, end |-> IF busy THEN "busy" ELSE "none"]
           a == [key |-> k, job |-> j, got |-> IF busy THEN "busy" ELSE "nothing"]
<1>1. /\ inflight[k] = 0 /\ cache' = RB!Without(k) /\ jobs' = Append(jobs, job)
      /\ breaker' = RB!Allowed /\ asks' = Append(asks, a)
      /\ inflight' = IF busy THEN inflight ELSE [inflight EXCEPT ![k] = j]
      /\ dream' = IF RB!Allows /\ ~busy THEN RB!Joins(dream, DreamMax, j) ELSE dream
      /\ local' = IF RB!Allows \/ busy THEN local ELSE RB!Joins(local, LocalMax, j)
  BY DEF RB!Begins, RB!Ask
<1>2. WorkKept /\ LanesKept /\ BreakerKept /\ jobs \in Seq(Jobs) /\ Len(jobs) \in Nat
  BY LenProperties DEF RenderKept, WorkKept
<1>3. /\ job \in Jobs /\ job.key = k /\ (busy => job.end = "busy") /\ (~busy => job.end = "none")
      /\ (RB!Probing => job.probe)
  BY DEF Jobs, Ends, RB!Probing
<1>4. /\ a \in Asked /\ a.key = k /\ a.job = j /\ (busy => a.got = "busy") /\ (~busy => a.got = "nothing")
  BY <1>2 DEF Asked, Ends
<1>5. busy <=> (RB!Allows /\ RB!Full(dream, DreamQueue)) \/ (~RB!Allows /\ RB!Full(local, LocalQueue))
  OBVIOUS
<1> HIDE DEF job, a, busy
<1>6. /\ jobs' \in Seq(Jobs) /\ Len(jobs') = Len(jobs) + 1 /\ jobs'[j] = job
      /\ \A n \in 1 .. Len(jobs) : n \in 1 .. Len(jobs') /\ jobs'[n] = jobs[n]
  <2>1. /\ jobs' \in Seq(Jobs) /\ Len(jobs') = Len(jobs) + 1 /\ jobs'[j] = job
        /\ \A n \in 1 .. Len(jobs) : jobs'[n] = jobs[n]
    BY <1>1, <1>2, <1>3, AppendProperties
  <2> QED
    BY <1>2, <2>1
<1>7. j \in 1 .. Len(jobs') /\ j \notin 1 .. Len(jobs) /\ j \in Nat /\ j # 0
      /\ \A i \in 1 .. Len(jobs') : i \in 1 .. Len(jobs) \/ i = j
  BY <1>2, <1>6
<1> HIDE DEF j
<1>8. AskKept(jobs', a)
  BY <1>3, <1>4, <1>6, <1>7 DEF AskKept
<1>9. asks' \in Seq(Asked) /\ \A n \in 1 .. Len(asks') : AskKept(jobs', asks'[n])
  BY <1>1, <1>2, <1>4, <1>6, <1>8, AskAdded
<1>10. cache' \in Seq(Kept) /\ \A i \in 1 .. Len(cache') : EntryKept(jobs', cache'[i])
  <2>1. cache' \in Seq(Kept) /\ \A i \in 1 .. Len(cache') : EntryKept(jobs, cache'[i])
    BY <1>1, <1>2, WithoutKeeps
  <2> QED
    BY <1>6, <2>1 DEF EntryKept
<1>11. FlightKept'
  <2>0. inflight \in [RB!Pictures -> Nat]
    BY <1>2 DEF WorkKept, FlightKept
  <2>1. CASE busy
    <3>1. inflight' = inflight /\ job.end # "none"
      BY <1>1, <1>3, <2>1
    <3>2. ASSUME NEW p \in RB!Pictures, inflight'[p] # 0
          PROVE  inflight'[p] \in 1 .. Len(jobs') /\ jobs'[inflight'[p]].key = p /\ jobs'[inflight'[p]].end = "none"
      BY <1>2, <1>6, <3>1, <3>2 DEF WorkKept, FlightKept
    <3>3. ASSUME NEW i \in 1 .. Len(jobs'), jobs'[i].end = "none" PROVE inflight'[jobs'[i].key] = i
      <4>1. i \in 1 .. Len(jobs)
        BY <1>6, <1>7, <3>1, <3>3
      <4> QED
        BY <1>2, <1>6, <3>1, <3>3, <4>1 DEF WorkKept, FlightKept
    <3> QED
      BY <2>0, <3>1, <3>2, <3>3 DEF FlightKept
  <2>2. CASE ~busy
    <3>1. /\ inflight' \in [RB!Pictures -> Nat] /\ inflight'[k] = j
          /\ \A p \in RB!Pictures : p # k => inflight'[p] = inflight[p]
      BY <1>1, <1>7, <2>0, <2>2
    <3>2. ASSUME NEW p \in RB!Pictures, inflight'[p] # 0
          PROVE  inflight'[p] \in 1 .. Len(jobs') /\ jobs'[inflight'[p]].key = p /\ jobs'[inflight'[p]].end = "none"
      <4>1. CASE p = k
        BY <1>3, <1>6, <1>7, <2>2, <3>1, <4>1
      <4>2. CASE p # k
        BY <1>2, <1>6, <3>1, <3>2, <4>2 DEF WorkKept, FlightKept
      <4> QED
        BY <4>1, <4>2
    <3>3. ASSUME NEW i \in 1 .. Len(jobs'), jobs'[i].end = "none" PROVE inflight'[jobs'[i].key] = i
      <4>1. CASE i = j
        BY <1>3, <1>6, <3>1, <4>1
      <4>2. CASE i \in 1 .. Len(jobs)
        <5>1. jobs'[i] = jobs[i] /\ inflight[jobs[i].key] = i /\ jobs[i] \in Jobs
          BY <1>2, <1>6, <3>3, <4>2, ElementOfSeq DEF WorkKept, FlightKept
        <5>2. jobs[i].key # k /\ jobs[i].key \in RB!Pictures
          BY <1>1, <4>2, <5>1 DEF Jobs
        <5> QED
          BY <3>1, <5>1, <5>2
      <4> QED
        BY <1>7, <4>1, <4>2
    <3> QED
      BY <3>1, <3>2, <3>3 DEF FlightKept
  <2> QED
    BY <2>1, <2>2
<1>12. /\ LaneKept(dream', DreamMax, DreamQueue) /\ LaneKept(local', LocalMax, LocalQueue)
       /\ \A i : RB!In(dream', i) <=> RB!In(dream, i) \/ (i = j /\ RB!Allows /\ ~busy)
       /\ \A i : RB!In(local', i) <=> RB!In(local, i) \/ (i = j /\ ~RB!Allows /\ ~busy)
  <2>1. LaneKept(dream, DreamMax, DreamQueue) /\ LaneKept(local, LocalMax, LocalQueue)
        /\ ~RB!In(dream, j) /\ ~RB!In(local, j)
    BY <1>2, <1>7 DEF LanesKept
  <2>2. CASE busy
    BY <1>1, <2>1, <2>2
  <2>3. CASE ~busy /\ RB!Allows
    <3>1. dream' = RB!Joins(dream, DreamMax, j) /\ local' = local /\ ~RB!Full(dream, DreamQueue)
      BY <1>1, <1>5, <2>3
    <3>2. LaneKept(dream', DreamMax, DreamQueue) /\ \A i : RB!In(dream', i) <=> RB!In(dream, i) \/ i = j
      BY <1>7, <2>1, <3>1, JoinsKept, ServicesAssumption
    <3> QED
      BY <2>1, <2>3, <3>1, <3>2
  <2>4. CASE ~busy /\ ~RB!Allows
    <3>1. local' = RB!Joins(local, LocalMax, j) /\ dream' = dream /\ ~RB!Full(local, LocalQueue)
      BY <1>1, <1>5, <2>4
    <3>2. LaneKept(local', LocalMax, LocalQueue) /\ \A i : RB!In(local', i) <=> RB!In(local, i) \/ i = j
      BY <1>7, <2>1, <3>1, JoinsKept, ServicesAssumption
    <3> QED
      BY <2>1, <2>4, <3>1, <3>2
  <2> QED
    BY <2>2, <2>3, <2>4
<1>13. LanesKept'
  <2>1. ASSUME NEW i, RB!In(dream', i) \/ RB!In(local', i) PROVE i \in 1 .. Len(jobs') /\ jobs'[i].end = "none"
    <3>1. CASE i = j
      <4>1. ~busy
        BY <1>2, <1>7, <1>12, <2>1, <3>1 DEF LanesKept
      <4> QED
        BY <1>3, <1>6, <1>7, <3>1, <4>1
    <3>2. CASE i # j
      BY <1>2, <1>6, <1>12, <2>1, <3>2 DEF LanesKept
    <3> QED
      BY <3>1, <3>2
  <2>2. ASSUME NEW i \in 1 .. Len(jobs'), jobs'[i].end = "none" PROVE RB!In(dream', i) <=> ~RB!In(local', i)
    <3>1. CASE i = j
      <4>1. ~busy /\ ~RB!In(dream, j) /\ ~RB!In(local, j)
        BY <1>2, <1>3, <1>6, <1>7, <2>2, <3>1 DEF LanesKept
      <4> QED
        BY <1>12, <3>1, <4>1
    <3>2. CASE i # j
      BY <1>2, <1>6, <1>7, <1>12, <2>2, <3>2 DEF LanesKept
    <3> QED
      BY <3>1, <3>2
  <2>3. ASSUME NEW i PROVE ~(RB!In(dream', i) /\ RB!In(local', i))
    BY <1>2, <1>7, <1>12 DEF LanesKept
  <2> QED
    BY <1>12, <2>1, <2>2, <2>3 DEF LanesKept
<1>14. BreakerKept'
  <2>1. breaker' \in [state : {"closed", "open", "half-open"}, fails : Nat, cooled : BOOLEAN]
    BY <1>1, <1>2 DEF BreakerKept, RB!Allowed
  <2>2. ASSUME breaker'.state = "half-open"
        PROVE  \E i \in 1 .. Len(jobs') : jobs'[i].probe /\ (RB!In(dream', i) \/ jobs'[i].end \in {"refused", "busy"})
    <3>1. CASE RB!Probing
      <4>1. RB!Allows /\ job.probe
        BY <1>3, <3>1 DEF RB!Allows
      <4>2. RB!In(dream', j) \/ jobs'[j].end = "busy"
        BY <1>3, <1>6, <1>12, <4>1
      <4> QED
        BY <1>6, <1>7, <4>1, <4>2
    <3>2. CASE ~RB!Probing
      <4>1. breaker.state = "half-open"
        BY <1>1, <2>2, <3>2 DEF RB!Allowed
      <4>2. PICK i \in 1 .. Len(jobs) : jobs[i].probe /\ (RB!In(dream, i) \/ jobs[i].end \in {"refused", "busy"})
        BY <1>2, <4>1 DEF BreakerKept
      <4> QED
        BY <1>6, <1>12, <4>2
    <3> QED
      BY <3>1, <3>2
  <2> QED
    BY <2>1, <2>2 DEF BreakerKept
<1> QED
  BY <1>6, <1>9, <1>10, <1>11, <1>13, <1>14 DEF RenderKept, WorkKept

(* A job in the remote worker's lane is a live one and in no other lane.   *)
LEMMA InDream ==
  ASSUME LanesKept, NEW j, j \in dream.active
  PROVE  RB!In(dream, j) /\ ~RB!In(local, j) /\ j \in 1 .. Len(jobs) /\ jobs[j].end = "none"
<1>1. RB!In(dream, j)
  BY DEF RB!In
<1> QED
  BY <1>1 DEF LanesKept

(* And one in the local lane.                                              *)
LEMMA InLocal ==
  ASSUME LanesKept, NEW j, j \in local.active
  PROVE  RB!In(local, j) /\ ~RB!In(dream, j) /\ j \in 1 .. Len(jobs) /\ jobs[j].end = "none"
<1>1. RB!In(local, j)
  BY DEF RB!In
<1> QED
  BY <1>1 DEF LanesKept

(* A job of the remote worker's ends, whatever its end.                    *)
LEMMA DreamEnds ==
  ASSUME WorkKept, LanesKept, NEW j, j \in dream.active, NEW how \in Ends, RB!Settles(j, how),
         dream' = RB!Leaves(dream, DreamMax, j), local' = local
  PROVE  /\ WorkKept' /\ LanesKept' /\ Len(jobs') = Len(jobs) /\ j \in 1 .. Len(jobs) /\ jobs'[j].end = how
         /\ \A i \in 1 .. Len(jobs) : jobs'[i].probe = jobs[i].probe /\ (i # j => jobs'[i] = jobs[i])
         /\ \A i : RB!In(dream', i) <=> RB!In(dream, i) /\ i # j
<1>1. ~RB!In(local, j) /\ j \in 1 .. Len(jobs) /\ jobs[j].end = "none" /\ Len(jobs) \in Nat
  BY InDream, LenProperties DEF WorkKept
<1>2. /\ WorkKept' /\ Len(jobs') = Len(jobs) /\ jobs'[j].end = how
      /\ \A i \in 1 .. Len(jobs) : jobs'[i].probe = jobs[i].probe /\ (i # j => jobs'[i] = jobs[i])
  BY <1>1, SettlesKeeps
<1>3. LaneKept(dream, DreamMax, DreamQueue) /\ LaneKept(local', LocalMax, LocalQueue)
  BY DEF LanesKept
<1>4. LaneKept(dream', DreamMax, DreamQueue) /\ \A i : RB!In(dream', i) <=> RB!In(dream, i) /\ i # j
  BY <1>3, LeavesKept, ServicesAssumption
<1>5. \A i : RB!In(local', i) <=> RB!In(local, i) /\ i # j
  BY <1>1
<1>6. jobs'[j].end # "none"
  BY <1>2 DEF Ends
<1>7. LanesKept'
  BY <1>1, <1>2, <1>3, <1>4, <1>5, <1>6, LanesMoved
<1> QED
  BY <1>1, <1>2, <1>4, <1>7

(* The remote worker renders it.                                           *)
LEMMA DreamRendersKeeps == ASSUME RenderKept, NEW j, RB!DreamRenders(j) PROVE RenderKept'
<1>1. /\ j \in dream.active /\ dream' = RB!Leaves(dream, DreamMax, j) /\ breaker' = RB!Succeeded
      /\ RB!Settles(j, "picture") /\ local' = local
  BY DEF RB!DreamRenders
<1>2. WorkKept /\ LanesKept /\ BreakerKept /\ "picture" \in Ends
  BY DEF RenderKept, Ends
<1>3. WorkKept' /\ LanesKept'
  BY <1>1, <1>2, DreamEnds
<1>4. BreakerKept'
  BY <1>1, <1>2 DEF BreakerKept, RB!Succeeded
<1> QED
  BY <1>3, <1>4 DEF RenderKept

(* It rejects it: a probe that is refused stays one that was.              *)
LEMMA DreamRejectsKeeps == ASSUME RenderKept, NEW j, RB!DreamRejects(j) PROVE RenderKept'
<1>1. /\ j \in dream.active /\ dream' = RB!Leaves(dream, DreamMax, j) /\ breaker' = breaker
      /\ RB!Settles(j, "refused") /\ local' = local
  BY DEF RB!DreamRejects
<1>2. WorkKept /\ LanesKept /\ BreakerKept /\ "refused" \in Ends
  BY DEF RenderKept, Ends
<1>3. /\ WorkKept' /\ LanesKept' /\ Len(jobs') = Len(jobs) /\ j \in 1 .. Len(jobs) /\ jobs'[j].end = "refused"
      /\ \A i \in 1 .. Len(jobs) : jobs'[i].probe = jobs[i].probe /\ (i # j => jobs'[i] = jobs[i])
      /\ \A i : RB!In(dream', i) <=> RB!In(dream, i) /\ i # j
  BY <1>1, <1>2, DreamEnds
<1>4. ASSUME breaker.state = "half-open"
      PROVE  \E i \in 1 .. Len(jobs') : jobs'[i].probe /\ (RB!In(dream', i) \/ jobs'[i].end \in {"refused", "busy"})
  <2>1. PICK i \in 1 .. Len(jobs) : jobs[i].probe /\ (RB!In(dream, i) \/ jobs[i].end \in {"refused", "busy"})
    BY <1>2, <1>4 DEF BreakerKept
  <2>2. i \in 1 .. Len(jobs') /\ jobs'[i].probe /\ (RB!In(dream', i) \/ jobs'[i].end \in {"refused", "busy"})
    BY <1>3, <2>1
  <2> QED
    BY <2>2
<1>5. BreakerKept'
  BY <1>1, <1>2, <1>4 DEF BreakerKept
<1> QED
  BY <1>3, <1>5 DEF RenderKept

(* It fails: the local lane takes it, or is full; a breaker that was half- *)
(* open is open again.                                                     *)
LEMMA DreamFailsKeeps == ASSUME RenderKept, NEW j, RB!DreamFails(j) PROVE RenderKept'
<1>1. /\ j \in dream.active /\ dream' = RB!Leaves(dream, DreamMax, j) /\ breaker' = RB!Failed
      /\ \/ RB!Settles(j, "busy") /\ local' = local
         \/ ~RB!Full(local, LocalQueue) /\ local' = RB!Joins(local, LocalMax, j) /\ UNCHANGED <<jobs, asks, inflight, cache>>
  BY DEF RB!DreamFails
<1>2. WorkKept /\ LanesKept /\ BreakerKept /\ "busy" \in Ends
  BY DEF RenderKept, Ends
<1>3. WorkKept' /\ LanesKept'
  <2>1. CASE RB!Settles(j, "busy") /\ local' = local
    BY <1>1, <1>2, <2>1, DreamEnds
  <2>2. CASE ~RB!Full(local, LocalQueue) /\ local' = RB!Joins(local, LocalMax, j) /\ UNCHANGED <<jobs, asks, inflight, cache>>
    <3>1. RB!In(dream, j) /\ ~RB!In(local, j) /\ j \in 1 .. Len(jobs) /\ jobs[j].end = "none" /\ j \in Nat
      BY <1>1, <1>2, InDream
    <3>2. LaneKept(dream, DreamMax, DreamQueue) /\ LaneKept(local, LocalMax, LocalQueue)
      BY <1>2 DEF LanesKept
    <3>3. LaneKept(dream', DreamMax, DreamQueue) /\ \A i : RB!In(dream', i) <=> RB!In(dream, i) /\ i # j
      BY <1>1, <3>2, LeavesKept, ServicesAssumption
    <3>4. LaneKept(local', LocalMax, LocalQueue) /\ \A i : RB!In(local', i) <=> RB!In(local, i) \/ i = j
      BY <2>2, <3>1, <3>2, JoinsKept, ServicesAssumption
    <3>5. LanesKept'
      BY <1>2, <2>2, <3>1, <3>3, <3>4 DEF LanesKept
    <3> QED
      BY <1>2, <2>2, <3>5 DEF WorkKept, FlightKept
  <2> QED
    BY <1>1, <2>1, <2>2
<1>4. BreakerKept'
  <2>1. breaker \in [state : {"closed", "open", "half-open"}, fails : Nat, cooled : BOOLEAN]
    BY <1>2 DEF BreakerKept
  <2>2. breaker' \in [state : {"closed", "open", "half-open"}, fails : Nat, cooled : BOOLEAN] /\ breaker'.state # "half-open"
    BY <1>1, <2>1, ServicesAssumption DEF RB!Failed
  <2> QED
    BY <2>2 DEF BreakerKept
<1> QED
  BY <1>3, <1>4 DEF RenderKept

(* The browser's.                                                          *)
LEMMA LocalEndsKeeps == ASSUME RenderKept, NEW j, RB!LocalEnds(j) PROVE RenderKept'
<1>1. /\ j \in local.active /\ local' = RB!Leaves(local, LocalMax, j) /\ dream' = dream /\ breaker' = breaker
      /\ \E how \in {"picture", "failed"} : RB!Settles(j, how)
  BY DEF RB!LocalEnds
<1>2. WorkKept /\ LanesKept /\ BreakerKept
  BY DEF RenderKept
<1>3. PICK how \in {"picture", "failed"} : RB!Settles(j, how)
  BY <1>1
<1>4. ~RB!In(dream, j) /\ j \in 1 .. Len(jobs) /\ jobs[j].end = "none" /\ Len(jobs) \in Nat /\ how \in Ends
  BY <1>1, <1>2, InLocal, LenProperties DEF WorkKept, Ends
<1>5. /\ WorkKept' /\ Len(jobs') = Len(jobs) /\ jobs'[j].end = how
      /\ \A i \in 1 .. Len(jobs) : jobs'[i].probe = jobs[i].probe /\ (i # j => jobs'[i] = jobs[i])
  BY <1>2, <1>3, <1>4, SettlesKeeps
<1>6. LaneKept(local, LocalMax, LocalQueue) /\ LaneKept(dream', DreamMax, DreamQueue)
  BY <1>1, <1>2 DEF LanesKept
<1>7. LaneKept(local', LocalMax, LocalQueue) /\ \A i : RB!In(local', i) <=> RB!In(local, i) /\ i # j
  BY <1>1, <1>6, LeavesKept, ServicesAssumption
<1>8. \A i : RB!In(dream', i) <=> RB!In(dream, i) /\ i # j
  BY <1>1, <1>4
<1>9. jobs'[j].end # "none"
  BY <1>5
<1>10. LanesKept'
  BY <1>2, <1>4, <1>5, <1>6, <1>7, <1>8, <1>9, LanesMoved
<1>11. ASSUME breaker.state = "half-open"
       PROVE  \E i \in 1 .. Len(jobs') : jobs'[i].probe /\ (RB!In(dream', i) \/ jobs'[i].end \in {"refused", "busy"})
  <2>1. PICK i \in 1 .. Len(jobs) : jobs[i].probe /\ (RB!In(dream, i) \/ jobs[i].end \in {"refused", "busy"})
    BY <1>2, <1>11 DEF BreakerKept
  <2>2. i # j
    BY <1>4, <2>1
  <2>3. i \in 1 .. Len(jobs') /\ jobs'[i].probe /\ (RB!In(dream', i) \/ jobs'[i].end \in {"refused", "busy"})
    BY <1>5, <1>8, <2>1, <2>2
  <2> QED
    BY <2>3
<1>12. BreakerKept'
  BY <1>1, <1>2, <1>11 DEF BreakerKept
<1> QED
  BY <1>5, <1>10, <1>12 DEF RenderKept

(* The clock's steps.                                                      *)
LEMMA ClockKeeps == ASSUME RenderKept, (\E i \in 1 .. Entries : RB!Expires(i)) \/ RB!Cools PROVE RenderKept'
<1>1. WorkKept /\ LanesKept /\ BreakerKept
  BY DEF RenderKept
<1>2. ASSUME NEW i \in 1 .. Entries, RB!Expires(i) PROVE RenderKept'
  <2>1. UNCHANGED <<asks, jobs, inflight, dream, local, breaker>>
    BY <1>2 DEF RB!Expires
  <2>2. i \in DOMAIN cache /\ cache' = [cache EXCEPT ![i].fresh = FALSE]
    BY <1>2 DEF RB!Expires
  <2>3. cache \in Seq(Kept) /\ Len(cache) \in Nat /\ DOMAIN cache = 1 .. Len(cache) /\ cache \in [1 .. Len(cache) -> Kept]
    BY <1>1, LenProperties DEF WorkKept
  <2>4. cache[i] \in Kept /\ [cache[i] EXCEPT !.fresh = FALSE] \in Kept
    BY <2>2, <2>3 DEF Kept
  <2>5. cache' \in [1 .. Len(cache) -> Kept]
    BY <2>2, <2>3, <2>4
  <2>6. cache' \in Seq(Kept) /\ Len(cache') = Len(cache)
    BY <2>3, <2>5, IsASeq, LenProperties
  <2>7. ASSUME NEW n \in 1 .. Len(cache') PROVE EntryKept(jobs', cache'[n])
    <3>1. cache'[n].job = cache[n].job /\ cache'[n].key = cache[n].key
      BY <2>2, <2>3, <2>6, ElementOfSeq DEF Kept
    <3>2. EntryKept(jobs, cache[n])
      BY <1>1, <2>6 DEF WorkKept
    <3> QED
      BY <2>1, <3>1, <3>2 DEF EntryKept
  <2> QED
    BY <1>1, <2>1, <2>6, <2>7 DEF RenderKept, WorkKept, FlightKept, LanesKept, BreakerKept
<1>3. CASE RB!Cools
  <2>1. UNCHANGED <<asks, jobs, inflight, cache, dream, local>>
    BY <1>3 DEF RB!Cools
  <2>2. breaker.state = "open" /\ breaker' = [breaker EXCEPT !.cooled = TRUE]
    BY <1>3 DEF RB!Cools
  <2>3. BreakerKept'
    BY <1>1, <2>2 DEF BreakerKept
  <2> QED
    BY <1>1, <2>1, <2>3 DEF RenderKept, WorkKept, FlightKept, LanesKept
<1> QED
  BY <1>2, <1>3

(* At rest, and what only the process and the browser do.                  *)
LEMMA RenderRest ==
  ASSUME RenderKept, UNCHANGED <<asks, jobs, inflight, cache, dream, local, breaker>>
  PROVE  RenderKept'
BY DEF RenderKept, WorkKept, FlightKept, LanesKept, BreakerKept

(* A step of the bridge.                                                   *)
LEMMA RenderStep == ASSUME RenderKept, RB!Next PROVE RenderKept'
<1>1. CASE \E k \in RB!Pictures : RB!AsksAgain(k) \/ RB!Shares(k) \/ RB!Begins(k)
  BY <1>1, AsksAgainKeeps, SharesKeeps, BeginsKeeps
<1>2. CASE \E j \in DOMAIN jobs : RB!DreamRenders(j) \/ RB!DreamRejects(j) \/ RB!DreamFails(j) \/ RB!LocalEnds(j)
  BY <1>2, DreamRendersKeeps, DreamRejectsKeeps, DreamFailsKeeps, LocalEndsKeeps
<1>3. CASE RB!BrowserGoes \/ RB!Drains \/ RB!Exits
  BY <1>3, RenderRest DEF RB!BrowserGoes, RB!Drains, RB!Exits
<1>4. CASE (\E i \in 1 .. Entries : RB!Expires(i)) \/ RB!Cools
  BY <1>4, ClockKeeps
<1> QED
  BY <1>1, <1>2, <1>3, <1>4 DEF RB!Next

(* Nobody is in a lane at first.                                           *)
LEMMA RenderStart == ASSUME RB!Init PROVE RenderKept
<1>1. asks = <<>> /\ jobs = <<>> /\ cache = <<>> /\ inflight = [k \in RB!Pictures |-> 0]
      /\ dream = RB!NoLane /\ local = RB!NoLane /\ breaker = [state |-> "closed", fails |-> 0, cooled |-> FALSE]
  BY DEF RB!Init
<1>2. /\ dream = [active |-> {}, queue |-> <<>>] /\ local = [active |-> {}, queue |-> <<>>]
  BY <1>1 DEF RB!NoLane
<1>3. Len(jobs) = 0 /\ Len(asks) = 0 /\ Len(cache) = 0 /\ jobs \in Seq(Jobs) /\ asks \in Seq(Asked) /\ cache \in Seq(Kept)
  BY <1>1, EmptySeq
<1>4. WorkKept
  BY <1>1, <1>3 DEF WorkKept, FlightKept
<1>5. /\ dream \in Lanes /\ local \in Lanes /\ dream.active = {} /\ local.active = {}
      /\ dream.queue = <<>> /\ local.queue = <<>> /\ Len(dream.queue) = 0 /\ Len(local.queue) = 0
  BY <1>2, EmptySeq DEF Lanes
<1>6. IsFiniteSet({}) /\ Cardinality({}) = 0
  BY FS_EmptySet
<1>7. LaneKept(dream, DreamMax, DreamQueue) /\ LaneKept(local, LocalMax, LocalQueue)
  BY <1>5, <1>6, ServicesAssumption DEF LaneKept, Apart
<1>8. \A j : ~RB!In(dream, j) /\ ~RB!In(local, j)
  BY <1>5, InIs
<1>9. LanesKept
  BY <1>3, <1>7, <1>8 DEF LanesKept
<1>10. BreakerKept
  BY <1>1 DEF BreakerKept
<1> QED
  BY <1>4, <1>9, <1>10 DEF RenderKept

(* What is kept gives each one his own picture, and everyone his slot.     *)
LEMMA RenderIsSound == ASSUME RenderKept PROVE RB!RenderSound
<1>1. WorkKept /\ LanesKept /\ BreakerKept
  BY DEF RenderKept
<1>2. /\ jobs \in Seq(Jobs) /\ asks \in Seq(Asked) /\ DOMAIN jobs = 1 .. Len(jobs) /\ DOMAIN asks = 1 .. Len(asks)
  BY <1>1, LenProperties DEF WorkKept
<1>3. RB!NobodyForgotten
  BY <1>1, <1>2 DEF RB!NobodyForgotten, RB!Live, WorkKept, AskKept, FlightKept, LanesKept
<1>4. RB!OwnPicture
  BY <1>1, <1>2 DEF RB!OwnPicture, WorkKept, AskKept
<1>5. ASSUME NEW lane, NEW most, NEW room, LaneKept(lane, most, room) PROVE RB!Lane(lane, most, room)
  <2>1. lane.queue \in Seq(Nat) /\ DOMAIN lane.queue = 1 .. Len(lane.queue)
    BY <1>5, LenProperties DEF LaneKept, Apart, Lanes
  <2>2. RB!IsInjective(lane.queue)
    BY <1>5, <2>1 DEF RB!IsInjective, LaneKept, Apart
  <2> QED
    BY <1>5, <2>2, SameSize DEF RB!Lane, LaneKept
<1>6. RB!LanesMove
  BY <1>1, <1>5 DEF RB!LanesMove, LanesKept
<1>7. RB!HalfOpenIsProbed
  BY <1>1, <1>2 DEF RB!HalfOpenIsProbed, RB!ProbeIn, BreakerKept
<1> QED
  BY <1>3, <1>4, <1>6, <1>7 DEF RB!RenderSound

-----------------------------------------------------------------------------
(* The server of a Signal account: its socket, what it holds of the keys   *)
(* it saw, and what reaches the host.                                      *)
SocketKept ==
  /\ socks \in [SG!Socks -> {"none", "opening", "open", "closing", "shut"}]
  /\ current \in Nat /\ (retry => current = 0)
  /\ phase = "asking" => (\A n \in SG!Socks : socks[n] = "none") /\ ~retry /\ current = 0 /\ ~uuid
  /\ SG!OneSocket

(* One socket is live, the one in use, and none while one is retried.      *)
LEMMA SocketStep == ASSUME SocketKept, SG!Next PROVE SocketKept'
<1>0. SG!Socks = 1 .. MaxSocks /\ MaxSocks \in Nat /\ MaxSocks # 0
  BY ServicesAssumption DEF SG!Socks
<1>1. CASE SG!Connects
  <2>1. PICK n \in SG!Socks : SG!Next1(n) /\ current' = n /\ socks' = [socks EXCEPT ![n] = "opening"]
    BY <1>1 DEF SG!Connects
  <2>2. retry /\ ~retry' /\ UNCHANGED <<phase, uuid>>
    BY <1>1 DEF SG!Connects, SG!Account
  <2>3. phase # "asking" /\ current = 0 /\ n # 0 /\ n \in Nat
    BY <1>0, <2>2 DEF SocketKept
  <2>4. \A m \in SG!Socks : socks[m] \notin {"opening", "open"}
    BY <1>0, <2>3 DEF SocketKept, SG!OneSocket, SG!Live
  <2> QED
    BY <2>1, <2>2, <2>3, <2>4 DEF SocketKept, SG!OneSocket, SG!Live
<1>2. CASE SG!GivesUp
  <2>1. current # 0 /\ socks[current] = "opening" /\ current' = 0 /\ retry' /\ socks' = [socks EXCEPT ![current] = "closing"]
    BY <1>2 DEF SG!GivesUp
  <2>2. UNCHANGED <<phase, uuid>>
    BY <1>2 DEF SG!GivesUp, SG!Account
  <2>3. phase # "asking"
    BY <2>1 DEF SocketKept
  <2>4. \A m \in SG!Socks : socks'[m] \notin {"opening", "open"}
    BY <2>1 DEF SocketKept, SG!OneSocket, SG!Live
  <2>5. socks' \in [SG!Socks -> {"none", "opening", "open", "closing", "shut"}]
    BY <2>1 DEF SocketKept
  <2> QED
    BY <2>1, <2>2, <2>3, <2>4, <2>5 DEF SocketKept, SG!OneSocket, SG!Live
<1>3. ASSUME NEW n \in SG!Socks, SG!Opens(n) \/ SG!Drops(n) \/ SG!Closes(n) PROVE SocketKept'
  <2>1. UNCHANGED <<phase, uuid>>
    BY <1>3 DEF SG!Opens, SG!Drops, SG!Closes, SG!Account
  <2>2. CASE SG!Opens(n)
    <3>1. socks[n] = "opening" /\ socks' = [socks EXCEPT ![n] = "open"] /\ UNCHANGED <<current, retry>>
      BY <2>2 DEF SG!Opens
    <3>2. phase # "asking"
      BY <3>1 DEF SocketKept
    <3> QED
      BY <2>1, <3>1, <3>2 DEF SocketKept, SG!OneSocket, SG!Live
  <2>3. CASE SG!Drops(n)
    <3>1. SG!Live(n) /\ socks' = [socks EXCEPT ![n] = "closing"] /\ UNCHANGED <<current, retry>>
      BY <2>3 DEF SG!Drops
    <3>2. phase # "asking"
      BY <3>1 DEF SocketKept, SG!Live
    <3> QED
      BY <2>1, <3>1, <3>2 DEF SocketKept, SG!OneSocket, SG!Live
  <2>4. CASE SG!Closes(n)
    <3>1. socks[n] = "closing" /\ socks' = [socks EXCEPT ![n] = "shut"]
      BY <2>4 DEF SG!Closes
    <3>2. phase # "asking"
      BY <3>1 DEF SocketKept
    <3>3. CASE n = current
      <4>1. current' = 0 /\ retry'
        BY <2>4, <3>3 DEF SG!Closes, SG!Ours
      <4>2. \A m \in SG!Socks : socks'[m] \notin {"opening", "open"}
        BY <3>1, <3>3 DEF SocketKept, SG!OneSocket, SG!Live
      <4>3. socks' \in [SG!Socks -> {"none", "opening", "open", "closing", "shut"}]
        BY <3>1 DEF SocketKept
      <4> QED
        BY <2>1, <3>2, <4>1, <4>2, <4>3 DEF SocketKept, SG!OneSocket, SG!Live
    <3>4. CASE n # current
      <4>1. UNCHANGED <<current, retry>>
        BY <2>4, <3>4 DEF SG!Closes, SG!Ours
      <4> QED
        BY <2>1, <3>1, <3>2, <4>1 DEF SocketKept, SG!OneSocket, SG!Live
    <3> QED
      BY <3>3, <3>4
  <2> QED
    BY <1>3, <2>2, <2>3, <2>4
<1>4. CASE SG!Learns
  <2>1. phase = "asking" /\ phase' = "grace" /\ current' = 1 /\ socks' = [socks EXCEPT ![1] = "opening"] /\ retry' = retry
    BY <1>4 DEF SG!Learns
  <2>2. (\A n \in SG!Socks : socks[n] = "none") /\ ~retry /\ 1 \in SG!Socks
    BY <1>0, <2>1 DEF SocketKept
  <2> QED
    BY <2>1, <2>2 DEF SocketKept, SG!OneSocket, SG!Live
<1>5. CASE SG!GraceEnds \/ SG!Lists
  <2>1. phase # "asking" /\ phase' # "asking" /\ UNCHANGED SG!Line
    BY <1>5 DEF SG!GraceEnds, SG!Lists
  <2> QED
    BY <2>1 DEF SocketKept, SG!OneSocket, SG!Live, SG!Line
<1>6. ASSUME UNCHANGED SG!Line, UNCHANGED SG!Account PROVE SocketKept'
  BY <1>6 DEF SocketKept, SG!OneSocket, SG!Live, SG!Line, SG!Account
<1>7. CASE \/ \E e \in SG!Envelopes : SG!Writes(e)
           \/ \E i \in DOMAIN sent : SG!HandsAgain(i)
           \/ \E x \in SG!Texts : SG!KeeperWrites(x)
           \/ SG!KeeperMoves
  BY <1>6, <1>7 DEF SG!Writes, SG!HandsAgain, SG!KeeperWrites, SG!KeeperMoves
<1>8. CASE SG!Begins \/ SG!Told \/ SG!Fetched
  BY <1>6, <1>8 DEF SG!Begins, SG!Told, SG!Fetched
<1>9. CASE SG!Grants \/ SG!Narrows \/ SG!OpensOrCloses
  BY <1>6, <1>9 DEF SG!Grants, SG!Narrows, SG!OpensOrCloses
<1> QED
  BY <1>1, <1>2, <1>3, <1>4, <1>5, <1>7, <1>8, <1>9 DEF SG!Next

-----------------------------------------------------------------------------
(* The keys held are the last of those that passed for new, SeenCap of     *)
(* them at most, each once.                                                *)
LastOnes(s, a) ==
  /\ s \in Seq(Nat) /\ a \in Seq(Nat) /\ Len(s) <= SeenCap /\ Len(s) <= Len(a)
  /\ Len(s) = SeenCap \/ Len(s) = Len(a)
  /\ \A i \in 1 .. Len(s) : s[i] = a[Len(a) - Len(s) + i]
  /\ \A i, k \in 1 .. Len(s) : s[i] = s[k] => i = k
FarApart(a) == \A i, j \in 1 .. Len(a) :
  i < j /\ a[i] = a[j] => Cardinality({a[k] : k \in i + 1 .. j - 1}) >= SeenCap
SeenKept == LastOnes(seen, accepted) /\ FarApart(accepted)

(* b is a with x behind it.                                                *)
Longer(b, a, x) == Len(b) = Len(a) + 1 /\ b[Len(a) + 1] = x /\ \A i \in 1 .. Len(a) : b[i] = a[i]

(* A key that is not held may be a new one or one let go: then SeenCap     *)
(* others came since.                                                      *)
LEMMA ApartStill ==
  ASSUME NEW s, NEW a, LastOnes(s, a), FarApart(a), NEW x \in Nat, \A i \in 1 .. Len(s) : s[i] # x,
         NEW b, Longer(b, a, x)
  PROVE  FarApart(b)
<1> DEFINE n == Len(a)
           m == Len(s)
<1>1. n \in Nat /\ m \in Nat /\ SeenCap \in Nat
  BY LenProperties, ServicesAssumption DEF LastOnes
<1>2. Len(b) = n + 1 /\ b[n + 1] = x /\ \A i \in 1 .. n : b[i] = a[i]
  BY DEF Longer
<1>3. /\ m <= SeenCap /\ m <= n /\ (m = SeenCap \/ m = n) /\ \A i \in 1 .. m : s[i] = a[n - m + i]
      /\ \A i, k \in 1 .. m : s[i] = s[k] => i = k
  BY DEF LastOnes
<1>4. \A i \in 1 .. m : s[i] # x
  OBVIOUS
<1>5. \A i, j \in 1 .. n : i < j /\ a[i] = a[j] => Cardinality({a[k] : k \in i + 1 .. j - 1}) >= SeenCap
  BY DEF FarApart
<1> HIDE DEF n, m
<1> SUFFICES ASSUME NEW i \in 1 .. n + 1, NEW j \in 1 .. n + 1, i < j, b[i] = b[j]
             PROVE  Cardinality({b[k] : k \in i + 1 .. j - 1}) >= SeenCap
  BY <1>2 DEF FarApart
<1>6. i \in 1 .. n /\ b[i] = a[i] /\ i \in Nat /\ j \in Nat
  BY <1>1, <1>2
<1>7. CASE j \in 1 .. n
  <2>1. a[i] = a[j]
    BY <1>2, <1>6, <1>7
  <2>2. ASSUME NEW k \in i + 1 .. j - 1 PROVE b[k] = a[k]
    <3>1. k \in 1 .. n
      BY <1>1, <1>6, <1>7
    <3> QED
      BY <1>2, <3>1
  <2>3. {b[k] : k \in i + 1 .. j - 1} = {a[k] : k \in i + 1 .. j - 1}
    BY <2>2
  <2> QED
    BY <1>5, <1>6, <1>7, <2>1, <2>3
<1>8. CASE j = n + 1
  <2> DEFINE between == {b[k] : k \in i + 1 .. j - 1}
             held == {s[k] : k \in 1 .. m}
  <2>1. a[i] = x
    BY <1>2, <1>6, <1>8
  <2>2. i <= n - m
    <3> SUFFICES ASSUME i > n - m PROVE FALSE
      BY <1>1, <1>6
    <3>1. i - (n - m) \in 1 .. m /\ n - m + (i - (n - m)) = i
      BY <1>1, <1>3, <1>6
    <3>2. s[i - (n - m)] = a[i]
      BY <1>3, <3>1
    <3> QED
      BY <1>4, <2>1, <3>1, <3>2
  <2>3. m = SeenCap
    BY <1>1, <1>3, <1>6, <2>2
  <2>4. ASSUME NEW k \in 1 .. m PROVE s[k] \in between
    <3>1. n - m + k \in i + 1 .. j - 1 /\ n - m + k \in 1 .. n
      BY <1>1, <1>3, <1>6, <1>8, <2>2
    <3>2. b[n - m + k] = s[k]
      BY <1>2, <1>3, <3>1
    <3> QED
      BY <3>1, <3>2
  <2>5. IsFiniteSet(1 .. m) /\ Cardinality(1 .. m) = m
    <3>1. 1 \in Int /\ m \in Int
      BY <1>1
    <3>2. IsFiniteSet(1 .. m) /\ Cardinality(1 .. m) = IF 1 > m THEN 0 ELSE m - 1 + 1
      BY <3>1, FS_Interval
    <3> QED
      BY <1>1, <3>2
  <2>6. Cardinality(held) = m
    <3> DEFINE f == [k \in 1 .. m |-> s[k]]
    <3>1. f \in [1 .. m -> held]
      OBVIOUS
    <3>2. ASSUME NEW y \in held PROVE \E k \in 1 .. m : f[k] = y
      OBVIOUS
    <3>3. \A k, p \in 1 .. m : f[k] = f[p] => k = p
      BY <1>3
    <3> HIDE DEF f
    <3>4. f \in Injection(1 .. m, held)
      BY <3>1, <3>3, Fun_IsInj
    <3>5. f \in Surjection(1 .. m, held)
      BY <3>1, <3>2, Fun_IsSurj
    <3>6. f \in Bijection(1 .. m, held)
      BY <3>4, <3>5 DEF Bijection
    <3> HIDE DEF held
    <3>7. ExistsBijection(1 .. m, held)
      BY <3>6 DEF ExistsBijection
    <3> QED
      BY <2>5, <3>7, FS_Bijection
  <2>7. IsFiniteSet(between)
    <3>1. IsFiniteSet(i + 1 .. j - 1)
      BY <1>6, FS_Interval
    <3> DEFINE S == i + 1 .. j - 1
               f == [k \in S |-> b[k]]
    <3>2. f \in [S -> between]
      OBVIOUS
    <3>3. ASSUME NEW y \in between PROVE \E k \in S : f[k] = y
      OBVIOUS
    <3> HIDE DEF f
    <3>4. f \in Surjection(S, between)
      BY <3>2, <3>3, Fun_IsSurj
    <3> HIDE DEF between
    <3> QED
      BY <3>1, <3>4, FS_Surjection
  <2>8. held \subseteq between
    BY <2>4
  <2> HIDE DEF held, between
  <2>9. Cardinality(held) <= Cardinality(between) /\ Cardinality(between) \in Nat
    BY <2>7, <2>8, FS_Subset, FS_CardinalityType
  <2>10. Cardinality(between) >= SeenCap
    BY <1>1, <2>3, <2>6, <2>9
  <2> QED
    BY <2>10 DEF between
<1> QED
  BY <1>1, <1>7, <1>8

(* One more is held, and the oldest makes room for it.                     *)
LEMMA LastStill ==
  ASSUME NEW s, NEW a, LastOnes(s, a), NEW x \in Nat, \A i \in 1 .. Len(s) : s[i] # x,
         NEW w \in Seq(Nat), Longer(w, s, x), NEW b \in Seq(Nat), Longer(b, a, x)
  PROVE  LastOnes(IF Len(w) > SeenCap THEN Tail(w) ELSE w, b)
<1> DEFINE n == Len(a)
           m == Len(s)
<1>1. n \in Nat /\ m \in Nat /\ SeenCap \in Nat
  BY LenProperties, ServicesAssumption DEF LastOnes
<1>2. Len(b) = n + 1 /\ b[n + 1] = x /\ \A i \in 1 .. n : b[i] = a[i]
  BY DEF Longer
<1>3. Len(w) = m + 1 /\ w[m + 1] = x /\ \A i \in 1 .. m : w[i] = s[i]
  BY DEF Longer
<1>4. /\ m <= SeenCap /\ m <= n /\ (m = SeenCap \/ m = n) /\ \A i \in 1 .. m : s[i] = a[n - m + i]
      /\ (\A i, k \in 1 .. m : s[i] = s[k] => i = k) /\ \A i \in 1 .. m : s[i] # x
  BY DEF LastOnes
<1> HIDE DEF n, m
<1>5. \A i \in 1 .. m + 1 : i \in 1 .. m \/ i = m + 1
  BY <1>1
<1>6. \A i, k \in 1 .. m + 1 : w[i] = w[k] => i = k
  BY <1>3, <1>4, <1>5
<1>7. ASSUME NEW i \in 1 .. m + 1 PROVE w[i] = b[n - m + i]
  <2>1. CASE i \in 1 .. m
    <3>1. n - m + i \in 1 .. n
      BY <1>1, <1>4, <2>1
    <3> QED
      BY <1>2, <1>3, <1>4, <2>1, <3>1
  <2>2. CASE i = m + 1
    <3>1. n - m + i = n + 1
      BY <1>1, <2>2
    <3> QED
      BY <1>2, <1>3, <2>2, <3>1
  <2> QED
    BY <1>5, <2>1, <2>2
<1>8. CASE ~(Len(w) > SeenCap)
  <2>1. m = n
    BY <1>1, <1>3, <1>4, <1>8
  <2>2. Len(w) <= SeenCap /\ Len(w) = Len(b)
    BY <1>1, <1>2, <1>3, <1>8, <2>1
  <2>3. \A i \in 1 .. Len(w) : w[i] = b[Len(b) - Len(w) + i]
    <3>1. Len(b) - Len(w) = n - m
      BY <1>1, <1>2, <1>3
    <3> QED
      BY <1>3, <1>7, <3>1
  <2>4. LastOnes(w, b)
    BY <1>1, <1>2, <1>3, <1>6, <2>2, <2>3 DEF LastOnes
  <2> QED
    BY <1>8, <2>4
<1>9. CASE Len(w) > SeenCap
  <2> DEFINE v == Tail(w)
  <2>1. m = SeenCap
    BY <1>1, <1>3, <1>4, <1>9
  <2>2. w # <<>>
    BY <1>1, <1>3, EmptySeq
  <2>3. v \in Seq(Nat) /\ Len(v) = Len(w) - 1 /\ \A i \in 1 .. Len(v) : v[i] = w[i + 1]
    BY <2>2, HeadTailProperties
  <2> HIDE DEF v
  <2>4. Len(v) = m /\ Len(v) <= SeenCap /\ Len(v) <= Len(b) /\ (Len(v) = SeenCap \/ Len(v) = Len(b))
    BY <1>1, <1>2, <1>3, <1>4, <2>1, <2>3
  <2>5. ASSUME NEW i \in 1 .. Len(v) PROVE v[i] = b[Len(b) - Len(v) + i]
    <3>1. i + 1 \in 1 .. m + 1 /\ n - m + (i + 1) = Len(b) - Len(v) + i
      BY <1>1, <1>2, <2>4
    <3> QED
      BY <1>7, <2>3, <3>1
  <2>6. ASSUME NEW i \in 1 .. Len(v), NEW k \in 1 .. Len(v), v[i] = v[k] PROVE i = k
    <3>1. w[i + 1] = w[k + 1]
      BY <2>3, <2>6
    <3>2. i + 1 \in 1 .. m + 1 /\ k + 1 \in 1 .. m + 1
      BY <1>1, <2>4
    <3>3. i + 1 = k + 1
      BY <1>6, <3>1, <3>2
    <3> QED
      BY <3>3
  <2>7. LastOnes(v, b)
    BY <2>3, <2>4, <2>5, <2>6 DEF LastOnes
  <2> QED
    BY <1>9, <2>7 DEF v
<1> QED
  BY <1>8, <1>9

(* What is known of the keys when one envelope after another is taken up.  *)
LEMMA SeenStep ==
  ASSUME SeenKept, NEW i \in Nat,
         seen' = IF ~(i \notin SG!Range(seen)) THEN seen
                 ELSE IF Len(Append(seen, i)) > SeenCap THEN Tail(Append(seen, i)) ELSE Append(seen, i),
         accepted' = IF i \notin SG!Range(seen) THEN Append(accepted, i) ELSE accepted
  PROVE  SeenKept'
<1>1. seen \in Seq(Nat) /\ accepted \in Seq(Nat) /\ LastOnes(seen, accepted) /\ FarApart(accepted)
  BY DEF SeenKept, LastOnes
<1>2. CASE ~(i \notin SG!Range(seen))
  BY <1>1, <1>2 DEF SeenKept
<1>3. CASE i \notin SG!Range(seen)
  <2> DEFINE w == Append(seen, i)
             b == Append(accepted, i)
  <2>1. \A n \in 1 .. Len(seen) : seen[n] # i
    BY <1>1, <1>3, LenProperties DEF SG!Range
  <2>2. w \in Seq(Nat) /\ Longer(w, seen, i)
    BY <1>1, AppendProperties DEF Longer
  <2>3. b \in Seq(Nat) /\ Longer(b, accepted, i)
    BY <1>1, AppendProperties DEF Longer
  <2>4. seen' = (IF Len(w) > SeenCap THEN Tail(w) ELSE w) /\ accepted' = b
    BY <1>3
  <2> HIDE DEF w, b
  <2>5. LastOnes(IF Len(w) > SeenCap THEN Tail(w) ELSE w, b)
    BY <1>1, <2>1, <2>2, <2>3, LastStill
  <2>6. FarApart(b)
    BY <1>1, <2>1, <2>3, ApartStill
  <2> QED
    BY <2>4, <2>5, <2>6 DEF SeenKept
<1> QED
  BY <1>2, <1>3

-----------------------------------------------------------------------------
(* An envelope may reach the host, by what the privacy file said of it;    *)
(* and its channel is one the host was told of, or refused to be.          *)
Heeds(e, named) == (e.mark = "mention" /\ named) \/ e.mark = "own"
Fit(e, c, named, under) ==
  e.kind = "message" /\ e.chat = "group" =>
    /\ c.allowed
    /\ c.mode = "opt-out" => e.mark # "dot" /\ under # "listed" /\ (under = "none" => Heeds(e, named))
    /\ c.mode = "opt-in" => under = "listed" \/ e.mark = "dot" \/ Heeds(e, named)
Met(chat, heard) == \E how \in {"told", "refused"} : <<chat, how>> \in heard
GivenKept(g, s, c, named, heard) ==
  g.env \in 1 .. Len(s) /\ Fit(s[g.env], c, named, g.under) /\ Met(s[g.env].chat, heard)

Grounds == SG!Texts \cup {"none"}
Files == [there : BOOLEAN, text : SG!Texts, read : BOOLEAN]
Givens == [env : Nat, under : Grounds]
Steps == [at : {"none", "telling", "fetching"}, under : Grounds]

(* What was read of the file is the last good reading until the file is    *)
(* another; the first of the queue is what a step is about, and one that   *)
(* is fetched has been found fit.                                          *)
ReadingKept ==
  privacy \in Files /\ lists \in Grounds /\ (privacy.read /\ privacy.text # "broken" => lists = privacy.text)
QueueKept ==
  /\ sent \in Seq(SG!Envelopes) /\ queue \in Seq(Nat)
  /\ \A n \in 1 .. Len(queue) : queue[n] \in 1 .. Len(sent)
FirstKept ==
  /\ step \in Steps
  /\ step.at # "none" => Len(queue) # 0 /\ sent[queue[1]].chat \in chans
  /\ step.at = "fetching" => Fit(sent[queue[1]], conf, uuid, step.under)
HostKept ==
  /\ given \in Seq(Givens) /\ \A k \in 1 .. Len(given) : GivenKept(given[k], sent, conf, uuid, tellings)
  /\ \A c \in chans : Met(c, tellings)
AccountKept == ReadingKept /\ QueueKept /\ FirstKept /\ HostKept

(* The first envelope is done with, given to the host or not.              *)
LEMMA DoneKeeps ==
  ASSUME AccountKept, Len(queue) # 0, SG!Done, ReadingKept', UNCHANGED <<sent, conf, uuid, chans, tellings>>,
         \/ given' = given
         \/ \E under \in Grounds : /\ given' = Append(given, [env |-> queue[1], under |-> under])
                                   /\ Fit(sent[queue[1]], conf, uuid, under) /\ sent[queue[1]].chat \in chans
  PROVE  AccountKept'
<1>1. queue' = Tail(queue) /\ step' = [at |-> "none", under |-> "none"]
  BY DEF SG!Done, SG!Idle
<1>2. /\ queue \in Seq(Nat) /\ queue # <<>> /\ sent \in Seq(SG!Envelopes) /\ Len(queue) \in Nat /\ Len(sent) \in Nat
      /\ given \in Seq(Givens) /\ \A n \in 1 .. Len(queue) : queue[n] \in 1 .. Len(sent)
  BY LenProperties, EmptySeq DEF AccountKept, QueueKept, HostKept
<1>3. QueueKept'
  <2>1. queue' \in Seq(Nat) /\ Len(queue') = Len(queue) - 1 /\ \A n \in 1 .. Len(queue') : queue'[n] = queue[n + 1]
    BY <1>1, <1>2, HeadTailProperties
  <2>2. \A n \in 1 .. Len(queue') : n + 1 \in 1 .. Len(queue)
    BY <1>2, <2>1
  <2> QED
    BY <1>2, <2>1, <2>2 DEF QueueKept
<1>4. FirstKept'
  <2>1. "none" \in Grounds
    BY DEF Grounds
  <2> QED
    BY <1>1, <2>1 DEF FirstKept, Steps
<1>5. HostKept'
  <2>1. CASE given' = given
    BY <2>1 DEF AccountKept, HostKept
  <2>2. CASE \E under \in Grounds : /\ given' = Append(given, [env |-> queue[1], under |-> under])
                                    /\ Fit(sent[queue[1]], conf, uuid, under) /\ sent[queue[1]].chat \in chans
    <3>1. PICK under \in Grounds : /\ given' = Append(given, [env |-> queue[1], under |-> under])
                                   /\ Fit(sent[queue[1]], conf, uuid, under) /\ sent[queue[1]].chat \in chans
      BY <2>2
    <3> DEFINE g == [env |-> queue[1], under |-> under]
    <3>2. queue[1] \in 1 .. Len(sent) /\ queue[1] \in Nat
      BY <1>2
    <3>3. g \in Givens /\ g.env = queue[1] /\ g.under = under /\ given' = Append(given, g)
      BY <3>1, <3>2 DEF Givens
    <3> HIDE DEF g
    <3>4. Met(sent[queue[1]].chat, tellings)
      BY <3>1 DEF AccountKept, HostKept
    <3>5. GivenKept(g, sent, conf, uuid, tellings)
      BY <3>1, <3>2, <3>3, <3>4 DEF GivenKept
    <3>6. /\ given' \in Seq(Givens) /\ Len(given') = Len(given) + 1 /\ given'[Len(given) + 1] = g /\ Len(given) \in Nat
          /\ \A k \in 1 .. Len(given) : given'[k] = given[k]
      BY <1>2, <3>3, AppendProperties, LenProperties
    <3>7. ASSUME NEW k \in 1 .. Len(given') PROVE GivenKept(given'[k], sent, conf, uuid, tellings)
      <4>1. k \in 1 .. Len(given) \/ k = Len(given) + 1
        BY <3>6
      <4> QED
        BY <3>5, <3>6, <4>1 DEF AccountKept, HostKept
    <3> QED
      BY <3>6, <3>7 DEF AccountKept, HostKept
  <2> QED
    BY <2>1, <2>2
<1> QED
  BY <1>3, <1>4, <1>5 DEF AccountKept

(* A reading of the file leaves what it says as the last good one.         *)
LEMMA RereadKeeps ==
  ASSUME ReadingKept, lists' = SG!Reread, privacy' = [privacy EXCEPT !.read = @ \/ SG!Reads]
  PROVE  ReadingKept' /\ lists' = SG!Says
<1>1. /\ privacy' \in Files /\ privacy'.text = privacy.text
      /\ (privacy'.read <=> privacy.read \/ SG!Reads)
  BY DEF ReadingKept, Files
<1>2. privacy.there \in BOOLEAN /\ privacy.read \in BOOLEAN /\ privacy.text \in Grounds
  BY DEF ReadingKept, Files, Grounds
<1>3. lists' = SG!Says
  <2>1. CASE SG!Reads /\ privacy.text # "broken"
    BY <2>1 DEF SG!Reread, SG!Says, SG!Reads
  <2>2. CASE ~(SG!Reads /\ privacy.text # "broken")
    <3>1. lists' = lists
      BY <2>2 DEF SG!Reread
    <3>2. CASE privacy.there /\ privacy.text # "broken"
      <4>1. privacy.read /\ SG!Says = privacy.text
        BY <2>2, <3>2 DEF SG!Reads, SG!Says
      <4> QED
        BY <3>1, <3>2, <4>1 DEF ReadingKept
    <3>3. CASE ~(privacy.there /\ privacy.text # "broken")
      BY <3>1, <3>3 DEF SG!Says
    <3> QED
      BY <3>2, <3>3
  <2> QED
    BY <2>1, <2>2
<1>4. lists' \in Grounds
  BY <1>2, <1>3 DEF SG!Says, ReadingKept
<1>5. privacy'.read /\ privacy'.text # "broken" => lists' = privacy'.text
  <2>1. CASE SG!Reads
    BY <1>1, <2>1 DEF SG!Reread
  <2>2. CASE ~SG!Reads
    BY <1>1, <2>2 DEF SG!Reread, ReadingKept
  <2> QED
    BY <2>1, <2>2
<1> QED
  BY <1>1, <1>3, <1>4, <1>5 DEF ReadingKept

(* The verdict on the first envelope.                                      *)
LEMMA JudgesKeeps ==
  ASSUME AccountKept, Len(queue) # 0, sent[queue[1]].chat \in chans, SG!Judges(queue[1]),
         UNCHANGED <<sent, conf, uuid, chans, tellings>>
  PROVE  AccountKept'
<1> DEFINE e == sent[queue[1]]
<1>1. "none" \in Grounds /\ ReadingKept
  BY DEF Grounds, AccountKept
<1>2. CASE e.kind = "about"
  <2>1. ReadingKept'
    BY <1>1, <1>2 DEF SG!Judges, SG!Privacy, ReadingKept
  <2>2. SG!Done /\ (given' = given \/ given' = Append(given, [env |-> queue[1], under |-> "none"]))
    BY <1>2 DEF SG!Judges, SG!Give, SG!Dropped
  <2>3. Fit(e, conf, uuid, "none")
    BY <1>2 DEF Fit
  <2> QED
    BY <1>1, <2>1, <2>2, <2>3, DoneKeeps
<1>3. CASE e.kind # "about"
  <2>1. IF e.chat = "dm" \/ ~conf.allowed THEN UNCHANGED <<privacy, lists>>
        ELSE lists' = SG!Reread /\ privacy' = [privacy EXCEPT !.read = @ \/ SG!Reads]
    BY <1>3 DEF SG!Judges, SG!Privacy
  <2>2. \/ SG!Admit(e, lists') /\ step' = [at |-> "fetching", under |-> SG!Says] /\ UNCHANGED <<queue, given>>
        \/ SG!Done /\ UNCHANGED given
    BY <1>3 DEF SG!Judges, SG!Dropped
  <2>3. ReadingKept' /\ (~(e.chat = "dm" \/ ~conf.allowed) => lists' = SG!Says)
    <3>1. CASE e.chat = "dm" \/ ~conf.allowed
      BY <1>1, <2>1, <3>1 DEF ReadingKept
    <3>2. CASE ~(e.chat = "dm" \/ ~conf.allowed)
      BY <1>1, <2>1, <3>2, RereadKeeps
    <3> QED
      BY <3>1, <3>2
  <2>4. CASE SG!Done /\ UNCHANGED given
    BY <2>3, <2>4, DoneKeeps
  <2>5. CASE SG!Admit(e, lists') /\ step' = [at |-> "fetching", under |-> SG!Says] /\ UNCHANGED <<queue, given>>
    <3>1. SG!Says \in Grounds
      BY <1>1 DEF SG!Says, ReadingKept, Files, Grounds
    <3>2. Fit(e, conf, uuid, SG!Says)
      <4>1. CASE e.chat = "dm"
        BY <4>1 DEF Fit
      <4>2. CASE e.chat # "dm"
        <5>1. conf.allowed
          BY <2>5, <4>2 DEF SG!Admit
        <5>2. lists' = SG!Says
          BY <2>3, <4>2, <5>1
        <5>3. SG!Admit(e, SG!Says)
          BY <2>5, <5>2
        <5> HIDE DEF e
        <5>4. CASE conf.mode = "opt-out"
          <6>1. e.mark # "dot" /\ SG!Says # "listed" /\ (SG!Says = "none" => Heeds(e, uuid))
            BY <4>2, <5>3, <5>4 DEF SG!Admit, SG!Mentions, Heeds
          <6> QED
            BY <5>1, <5>4, <6>1 DEF Fit
        <5>5. CASE conf.mode # "opt-out"
          <6>1. SG!Says = "listed" \/ e.mark = "dot" \/ Heeds(e, uuid)
            BY <4>2, <5>3, <5>5 DEF SG!Admit, SG!Mentions, Heeds
          <6> QED
            BY <5>1, <5>5, <6>1 DEF Fit
        <5> QED
          BY <5>4, <5>5
      <4> QED
        BY <4>1, <4>2
    <3> HIDE DEF e
    <3>3. step' \in Steps /\ step'.at = "fetching" /\ step'.under = SG!Says
      BY <2>5, <3>1 DEF Steps
    <3>4. FirstKept'
      BY <2>5, <3>2, <3>3 DEF FirstKept, e
    <3> QED
      BY <2>3, <2>5, <3>4 DEF AccountKept, QueueKept, HostKept
  <2> QED
    BY <2>2, <2>4, <2>5
<1> QED
  BY <1>2, <1>3

(* The host is told of a channel, or refuses to be.                        *)
LEMMA TellKeeps ==
  ASSUME HostKept, NEW c, chans' = chans \cup {c}, SG!Tell(c), UNCHANGED <<given, sent, conf, uuid>>
  PROVE  HostKept'
<1>1. PICK how \in {"told", "refused"} : tellings' = tellings \cup {<<c, how>>}
  BY DEF SG!Tell
<1>2. ASSUME NEW d, Met(d, tellings) \/ d = c PROVE Met(d, tellings')
  BY <1>1, <1>2 DEF Met
<1>3. given \in Seq(Givens) /\ (\A k \in 1 .. Len(given) : GivenKept(given[k], sent, conf, uuid, tellings))
      /\ \A d \in chans : Met(d, tellings)
  BY DEF HostKept
<1>4. ASSUME NEW k \in 1 .. Len(given) PROVE GivenKept(given[k], sent, conf, uuid, tellings')
  BY <1>2, <1>3 DEF GivenKept
<1> QED
  BY <1>2, <1>3, <1>4 DEF HostKept

(* One more is handed on, as new or once more.                             *)
LEMMA QueuesKeep ==
  ASSUME AccountKept, NEW i \in 1 .. Len(sent'), queue' = Append(queue, i), sent' \in Seq(SG!Envelopes),
         Len(sent) <= Len(sent'), \A n \in 1 .. Len(sent) : sent'[n] = sent[n],
         UNCHANGED <<step, conf, uuid, chans, tellings, privacy, lists, given>>
  PROVE  AccountKept'
<1>1. queue \in Seq(Nat) /\ Len(queue) \in Nat /\ sent \in Seq(SG!Envelopes) /\ Len(sent) \in Nat /\ Len(sent') \in Nat
      /\ \A n \in 1 .. Len(queue) : queue[n] \in 1 .. Len(sent)
  BY LenProperties DEF AccountKept, QueueKept
<1>2. /\ queue' \in Seq(Nat) /\ Len(queue') = Len(queue) + 1 /\ queue'[Len(queue) + 1] = i
      /\ \A n \in 1 .. Len(queue) : queue'[n] = queue[n]
  BY <1>1, AppendProperties
<1>3. QueueKept'
  <2>1. ASSUME NEW n \in 1 .. Len(queue') PROVE queue'[n] \in 1 .. Len(sent')
    <3>1. n \in 1 .. Len(queue) \/ n = Len(queue) + 1
      BY <1>1, <1>2
    <3>2. CASE n \in 1 .. Len(queue)
      <4>1. queue'[n] \in 1 .. Len(sent)
        BY <1>1, <1>2, <3>2
      <4> QED
        BY <1>1, <4>1
    <3> QED
      BY <1>2, <3>1, <3>2
  <2> QED
    BY <1>2, <2>1 DEF QueueKept
<1>4. FirstKept'
  <2>1. ASSUME step.at # "none" PROVE Len(queue') # 0 /\ queue'[1] = queue[1] /\ sent'[queue'[1]] = sent[queue[1]]
    <3>1. Len(queue) # 0
      BY <2>1 DEF AccountKept, FirstKept
    <3>2. 1 \in 1 .. Len(queue)
      BY <1>1, <3>1
    <3> QED
      BY <1>1, <1>2, <3>2
  <2> QED
    BY <2>1 DEF AccountKept, FirstKept
<1>5. HostKept'
  <2>1. ASSUME NEW k \in 1 .. Len(given) PROVE GivenKept(given[k], sent', conf, uuid, tellings)
    <3>1. GivenKept(given[k], sent, conf, uuid, tellings) /\ given[k].env \in 1 .. Len(sent)
      BY DEF AccountKept, HostKept, GivenKept
    <3>2. given[k].env \in 1 .. Len(sent')
      BY <1>1, <3>1
    <3> QED
      BY <3>1, <3>2 DEF GivenKept
  <2> QED
    BY <2>1 DEF AccountKept, HostKept
<1>6. ReadingKept'
  BY DEF AccountKept, ReadingKept
<1> QED
  BY <1>3, <1>4, <1>5, <1>6 DEF AccountKept

(* handleEnvelope: an envelope is taken up.                                *)
LEMMA BeginsKeepsAccount == ASSUME AccountKept, SG!Begins PROVE AccountKept'
<1>1. queue # <<>> /\ step.at = "none"
  BY DEF SG!Begins
<1>2. /\ queue \in Seq(Nat) /\ Len(queue) \in Nat /\ Len(queue) # 0 /\ Head(queue) = queue[1]
  BY <1>1, LenProperties, EmptySeq, HeadTailProperties DEF AccountKept, QueueKept
<1>3. UNCHANGED <<sent, conf, uuid>>
  BY DEF SG!Begins, SG!Account
<1> DEFINE c == sent[Head(queue)].chat
<1>4. \/ SG!Dropped /\ UNCHANGED <<chans, tellings, privacy, lists>>
      \/ /\ chans' = chans \cup {c} /\ SG!Tell(c) /\ step' = [SG!Idle EXCEPT !.at = "telling"]
         /\ UNCHANGED <<queue, given, privacy, lists>>
      \/ c \in chans /\ SG!Judges(Head(queue)) /\ UNCHANGED <<chans, tellings>>
  BY DEF SG!Begins, SG!Privacy
<1>5. CASE SG!Dropped /\ UNCHANGED <<chans, tellings, privacy, lists>>
  <2>1. ReadingKept'
    BY <1>5 DEF AccountKept, ReadingKept
  <2>2. SG!Done /\ given' = given
    BY <1>5 DEF SG!Dropped
  <2> QED
    BY <1>2, <1>3, <1>5, <2>1, <2>2, DoneKeeps
<1>6. CASE /\ chans' = chans \cup {c} /\ SG!Tell(c) /\ step' = [SG!Idle EXCEPT !.at = "telling"]
           /\ UNCHANGED <<queue, given, privacy, lists>>
  <2>1. HostKept'
    BY <1>3, <1>6, TellKeeps DEF AccountKept
  <2>2. step' = [at |-> "telling", under |-> "none"] /\ "none" \in Grounds
    BY <1>6 DEF SG!Idle, Grounds
  <2>3. FirstKept'
    <3>1. step' \in Steps /\ step'.at = "telling"
      BY <2>2 DEF Steps
    <3>2. Len(queue') # 0 /\ sent'[queue'[1]].chat \in chans'
      BY <1>2, <1>3, <1>6
    <3> QED
      BY <3>1, <3>2 DEF FirstKept
  <2> QED
    BY <1>3, <1>6, <2>1, <2>3 DEF AccountKept, ReadingKept, QueueKept
<1>7. CASE c \in chans /\ SG!Judges(Head(queue)) /\ UNCHANGED <<chans, tellings>>
  BY <1>2, <1>3, <1>7, JudgesKeeps
<1> QED
  BY <1>4, <1>5, <1>6, <1>7

(* Its attachments are there.                                              *)
LEMMA FetchedKeeps == ASSUME AccountKept, SG!Fetched PROVE AccountKept'
<1>1. step.at = "fetching" /\ UNCHANGED <<sent, conf, uuid, chans, tellings, privacy, lists>>
  BY DEF SG!Fetched, SG!Account, SG!Channels, SG!Privacy
<1>2. Len(queue) # 0 /\ sent[queue[1]].chat \in chans /\ Fit(sent[queue[1]], conf, uuid, step.under) /\ step.under \in Grounds
  BY <1>1 DEF AccountKept, FirstKept, Steps
<1>3. Head(queue) = queue[1]
  BY <1>2, EmptySeq, HeadTailProperties DEF AccountKept, QueueKept
<1>4. SG!Done /\ (given' = given \/ given' = Append(given, [env |-> queue[1], under |-> step.under]))
  BY <1>3 DEF SG!Fetched, SG!Dropped, SG!Give
<1>5. ReadingKept'
  BY <1>1 DEF AccountKept, ReadingKept
<1> QED
  BY <1>1, <1>2, <1>4, <1>5, DoneKeeps

(* It learns its own uuid before anything is sent to it.                   *)
LEMMA LearnsKeeps == ASSUME AccountKept, SocketKept, SG!Learns PROVE AccountKept'
<1>1. UNCHANGED <<sent, conf, queue, step, given, chans, tellings, privacy, lists>> /\ phase = "asking"
  BY DEF SG!Learns, SG!Channels, SG!Privacy, SG!Work
<1>2. ~uuid
  BY <1>1 DEF SocketKept
<1>3. ASSUME NEW e, NEW under, Fit(e, conf, uuid, under) PROVE Fit(e, conf, uuid', under)
  BY <1>2, <1>3 DEF Fit, Heeds
<1>4. ASSUME NEW g, GivenKept(g, sent, conf, uuid, tellings) PROVE GivenKept(g, sent, conf, uuid', tellings)
  BY <1>3, <1>4 DEF GivenKept
<1>5. HostKept'
  BY <1>1, <1>4 DEF AccountKept, HostKept
<1>6. FirstKept'
  BY <1>1, <1>3 DEF AccountKept, FirstKept
<1> QED
  BY <1>1, <1>5, <1>6 DEF AccountKept, ReadingKept, QueueKept

(* A step of the server.                                                   *)
LEMMA AccountStep == ASSUME AccountKept, SocketKept, SG!Next PROVE AccountKept'
<1>0. sent \in Seq(SG!Envelopes) /\ DOMAIN sent = 1 .. Len(sent) /\ Len(sent) \in Nat
  BY LenProperties DEF AccountKept, QueueKept
<1>1. ASSUME UNCHANGED <<sent, conf, uuid, chans, tellings, queue, step, given, privacy, lists>> PROVE AccountKept'
  BY <1>1 DEF AccountKept, ReadingKept, QueueKept, FirstKept, HostKept
<1>2. CASE SG!Connects \/ SG!GivesUp \/ \E n \in SG!Socks : SG!Opens(n) \/ SG!Drops(n) \/ SG!Closes(n)
  BY <1>1, <1>2 DEF SG!Connects, SG!GivesUp, SG!Opens, SG!Drops, SG!Closes, SG!Account, SG!Channels, SG!Privacy, SG!Work
<1>3. ASSUME NEW e \in SG!Envelopes, SG!Writes(e) PROVE AccountKept'
  <2>1. /\ sent' = Append(sent, e) /\ queue' = Append(queue, Len(sent) + 1)
        /\ UNCHANGED <<step, conf, uuid, chans, tellings, privacy, lists, given>>
    BY <1>3 DEF SG!Writes, SG!Account, SG!Channels, SG!Privacy
  <2>2. sent' \in Seq(SG!Envelopes) /\ Len(sent') = Len(sent) + 1 /\ \A n \in 1 .. Len(sent) : sent'[n] = sent[n]
    BY <1>0, <2>1, AppendProperties
  <2>3. Len(sent) + 1 \in 1 .. Len(sent') /\ Len(sent) <= Len(sent')
    BY <1>0, <2>2
  <2> QED
    BY <2>1, <2>2, <2>3, QueuesKeep
<1>4. ASSUME NEW i \in DOMAIN sent, SG!HandsAgain(i) PROVE AccountKept'
  <2>1. queue' = Append(queue, i) /\ UNCHANGED <<sent, step, conf, uuid, chans, tellings, privacy, lists, given>>
    BY <1>4 DEF SG!HandsAgain, SG!Account, SG!Channels, SG!Privacy
  <2>2. i \in 1 .. Len(sent') /\ sent' \in Seq(SG!Envelopes) /\ Len(sent) <= Len(sent')
    BY <1>0, <1>4, <2>1
  <2> QED
    BY <2>1, <2>2, QueuesKeep
<1>5. ASSUME NEW x \in SG!Texts, SG!KeeperWrites(x) PROVE AccountKept'
  <2>1. UNCHANGED <<sent, conf, uuid, chans, tellings, queue, step, given, lists>> /\ privacy' = [there |-> TRUE, text |-> x, read |-> FALSE]
    BY <1>5 DEF SG!KeeperWrites, SG!Account, SG!Channels, SG!Work
  <2>2. ReadingKept'
    BY <2>1 DEF AccountKept, ReadingKept, Files
  <2> QED
    BY <2>1, <2>2 DEF AccountKept, QueueKept, FirstKept, HostKept
<1>6. CASE SG!KeeperMoves
  <2>1. UNCHANGED <<sent, conf, uuid, chans, tellings, queue, step, given, lists>> /\ privacy' = [privacy EXCEPT !.there = ~@]
    BY <1>6 DEF SG!KeeperMoves, SG!Account, SG!Channels, SG!Work
  <2>2. privacy' \in Files /\ privacy'.text = privacy.text /\ privacy'.read = privacy.read
    BY <2>1 DEF AccountKept, ReadingKept, Files
  <2>3. ReadingKept'
    BY <2>1, <2>2 DEF AccountKept, ReadingKept
  <2> QED
    BY <2>1, <2>3 DEF AccountKept, QueueKept, FirstKept, HostKept
<1>7. CASE SG!Told
  <2>1. step.at = "telling" /\ SG!Judges(Head(queue)) /\ UNCHANGED <<sent, conf, uuid, chans, tellings>>
    BY <1>7 DEF SG!Told, SG!Account, SG!Channels
  <2>2. Len(queue) # 0 /\ sent[queue[1]].chat \in chans
    BY <2>1 DEF AccountKept, FirstKept
  <2>3. Head(queue) = queue[1]
    BY <2>2, EmptySeq, HeadTailProperties DEF AccountKept, QueueKept
  <2> QED
    BY <2>1, <2>2, <2>3, JudgesKeeps
<1>8. CASE SG!GraceEnds \/ SG!Grants \/ SG!Narrows \/ SG!OpensOrCloses
  BY <1>1, <1>8 DEF SG!GraceEnds, SG!Grants, SG!Narrows, SG!OpensOrCloses, SG!Account, SG!Channels, SG!Privacy, SG!Work
<1>9. CASE SG!Lists
  <2>1. UNCHANGED <<sent, conf, uuid, queue, step, given, privacy, lists>>
    BY <1>9 DEF SG!Lists, SG!Privacy, SG!Work
  <2>2. CASE chans' = chans \cup {"group"} /\ SG!Tell("group")
    <3>1. HostKept'
      BY <2>1, <2>2, TellKeeps DEF AccountKept
    <3> QED
      BY <2>1, <2>2, <3>1 DEF AccountKept, ReadingKept, QueueKept, FirstKept
  <2>3. CASE UNCHANGED <<chans, tellings>>
    BY <1>1, <2>1, <2>3
  <2> QED
    BY <1>9, <2>2, <2>3 DEF SG!Lists
<1> QED
  BY <1>2, <1>3, <1>4, <1>5, <1>6, <1>7, <1>8, <1>9, BeginsKeepsAccount, FetchedKeeps, LearnsKeeps DEF SG!Next

(* Nothing but taking up an envelope changes what is held of the keys.     *)
LEMMA SeenNext == ASSUME AccountKept, SeenKept, SG!Next PROVE SeenKept'
<1>1. CASE UNCHANGED <<seen, accepted>>
  BY <1>1 DEF SeenKept
<1>2. CASE SG!Begins
  <2>1. queue # <<>> /\ queue \in Seq(Nat)
    BY <1>2 DEF SG!Begins, AccountKept, QueueKept
  <2>2. Head(queue) \in Nat
    BY <2>1, HeadTailProperties
  <2> DEFINE i == Head(queue)
  <2>3. /\ seen' = IF ~(i \notin SG!Range(seen)) THEN seen
                   ELSE IF Len(Append(seen, i)) > SeenCap THEN Tail(Append(seen, i)) ELSE Append(seen, i)
        /\ accepted' = IF i \notin SG!Range(seen) THEN Append(accepted, i) ELSE accepted
    BY <1>2 DEF SG!Begins
  <2> HIDE DEF i
  <2>4. i \in Nat
    BY <2>2 DEF i
  <2> QED
    BY <2>3, <2>4, SeenStep
<1>3. SG!Begins \/ UNCHANGED <<seen, accepted>>
  BY DEF SG!Next, SG!Connects, SG!GivesUp, SG!Opens, SG!Drops, SG!Closes, SG!Writes, SG!HandsAgain, SG!KeeperWrites,
         SG!KeeperMoves, SG!Told, SG!Fetched, SG!Learns, SG!GraceEnds, SG!Lists, SG!Grants, SG!Narrows,
         SG!OpensOrCloses, SG!Work
<1> QED
  BY <1>1, <1>2, <1>3

SignalKept == SocketKept /\ SeenKept /\ AccountKept
(* At rest.                                                                *)
LEMMA SignalRest == ASSUME SignalKept, UNCHANGED signalVars PROVE SignalKept'
<1>1. SocketKept'
  BY DEF SignalKept, signalVars, SocketKept, SG!OneSocket, SG!Live
<1>2. SeenKept'
  BY DEF SignalKept, signalVars, SeenKept
<1>3. AccountKept'
  BY DEF SignalKept, signalVars, AccountKept, ReadingKept, QueueKept, FirstKept, HostKept
<1> QED
  BY <1>1, <1>2, <1>3 DEF SignalKept

(* At first nothing was sent, held or read.                                *)
LEMMA SignalStart == ASSUME SG!Init PROVE SignalKept
<1>1. /\ sent = <<>> /\ socks = [n \in SG!Socks |-> "none"] /\ current = 0 /\ retry = FALSE
      /\ queue = <<>> /\ step = SG!Idle /\ seen = <<>> /\ accepted = <<>> /\ phase = "asking" /\ uuid = FALSE
      /\ chans = {} /\ tellings = {} /\ lists = "none" /\ given = <<>>
      /\ privacy \in [there : BOOLEAN, text : SG!Texts, read : {FALSE}]
  BY DEF SG!Init
<1>2. /\ Len(seen) = 0 /\ Len(accepted) = 0 /\ Len(queue) = 0 /\ Len(given) = 0
      /\ seen \in Seq(Nat) /\ accepted \in Seq(Nat) /\ queue \in Seq(Nat) /\ given \in Seq(Givens) /\ sent \in Seq(SG!Envelopes)
  BY <1>1, EmptySeq
<1>3. SocketKept
  BY <1>1 DEF SocketKept, SG!OneSocket, SG!Live
<1>4. SeenKept
  BY <1>2, ServicesAssumption DEF SeenKept, LastOnes, FarApart
<1>5. privacy \in Files /\ ~privacy.read /\ step = [at |-> "none", under |-> "none"] /\ "none" \in Grounds
  BY <1>1 DEF Files, SG!Idle, Grounds
<1>6. AccountKept
  BY <1>1, <1>2, <1>5 DEF AccountKept, ReadingKept, QueueKept, FirstKept, HostKept, Steps
<1> QED
  BY <1>3, <1>4, <1>6 DEF SignalKept

(* What is kept is what the server promises.                               *)
LEMMA SignalIsSound == ASSUME SignalKept PROVE SG!Sound
<1>1. SG!OneSocket
  BY DEF SignalKept, SocketKept
<1>2. SG!HeardOnce
  <2>1. \A S : SG!Cardinality(S) = Cardinality(S)
    BY DEF SG!Cardinality, Cardinality
  <2>2. DOMAIN accepted = 1 .. Len(accepted)
    BY LenProperties DEF SignalKept, SeenKept, LastOnes
  <2> QED
    BY <2>1, <2>2 DEF SG!HeardOnce, SignalKept, SeenKept, FarApart
<1>3. DOMAIN given = 1 .. Len(given) /\ \A k \in 1 .. Len(given) : GivenKept(given[k], sent, conf, uuid, tellings)
  BY LenProperties DEF SignalKept, AccountKept, HostKept
<1>4. SG!Private
  BY <1>3 DEF SG!Private, SG!Mentions, GivenKept, Fit, Heeds
<1>5. SG!KnownFirst
  BY <1>3 DEF SG!KnownFirst, GivenKept, Met
<1> QED
  BY <1>1, <1>2, <1>4, <1>5 DEF SG!Sound

-----------------------------------------------------------------------------
ServersKept == SignalKept /\ RenderKept /\ McpKept

(* One part steps, the others rest.                                        *)
LEMMA ServersStep == ASSUME ServersKept, MCNext PROVE ServersKept'
<1>1. CASE UNCHANGED signalVars /\ UNCHANGED renderVars /\ UNCHANGED mcpVars
  <2>1. SignalKept'
    BY <1>1, SignalRest DEF ServersKept
  <2>2. RenderKept'
    BY <1>1, RenderRest DEF ServersKept, renderVars
  <2>3. McpKept'
    BY <1>1, McpRest DEF ServersKept
  <2> QED
    BY <2>1, <2>2, <2>3 DEF ServersKept
<1>2. CASE SG!Next /\ UNCHANGED renderVars /\ UNCHANGED mcpVars
  <2>1. SignalKept'
    BY <1>2, SocketStep, SeenNext, AccountStep DEF ServersKept, SignalKept
  <2>2. RenderKept'
    BY <1>2, RenderRest DEF ServersKept, renderVars
  <2>3. McpKept'
    BY <1>2, McpRest DEF ServersKept
  <2> QED
    BY <2>1, <2>2, <2>3 DEF ServersKept
<1>3. CASE RB!Next /\ UNCHANGED signalVars /\ UNCHANGED mcpVars
  <2>1. SignalKept'
    BY <1>3, SignalRest DEF ServersKept
  <2>2. RenderKept'
    BY <1>3, RenderStep DEF ServersKept
  <2>3. McpKept'
    BY <1>3, McpRest DEF ServersKept
  <2> QED
    BY <2>1, <2>2, <2>3 DEF ServersKept
<1>4. CASE MS!Next /\ UNCHANGED signalVars /\ UNCHANGED renderVars
  <2>1. SignalKept'
    BY <1>4, SignalRest DEF ServersKept
  <2>2. RenderKept'
    BY <1>4, RenderRest DEF ServersKept, renderVars
  <2>3. McpKept'
    BY <1>4, McpStep, ServicesAssumption DEF ServersKept
  <2> QED
    BY <2>1, <2>2, <2>3 DEF ServersKept
<1>5. \/ UNCHANGED signalVars /\ UNCHANGED renderVars /\ UNCHANGED mcpVars
      \/ SG!Next /\ UNCHANGED renderVars /\ UNCHANGED mcpVars
      \/ RB!Next /\ UNCHANGED signalVars /\ UNCHANGED mcpVars
      \/ MS!Next /\ UNCHANGED signalVars /\ UNCHANGED renderVars
  BY DEF MCNext, serviceVars, toolVars
<1> QED
  BY <1>1, <1>2, <1>3, <1>4, <1>5

(* Who is served is served rightly, whatever the sizes: the Signal         *)
(* account's server keeps one socket, hands on an envelope again only when *)
(* SeenCap others came between, and a group's message only by the privacy  *)
(* file; the render bridge forgets nobody and leaves no slot free before a *)
(* queue; a call over MCP is told what became of it.  (mcpl-signal's       *)
(* server.mjs, inkfield-bridge's service-core.js, the mcpl endpoint.)      *)
THEOREM ServersAreSound == MCSpec => []ServersSound
<1>1. MCInit => ServersKept
  BY SignalStart, RenderStart, McpStart DEF MCInit, ServersKept
<1>2. ServersKept /\ [MCNext]_<<part, vars, serviceVars>> => ServersKept'
  <2> SUFFICES ASSUME ServersKept, [MCNext]_<<part, vars, serviceVars>> PROVE ServersKept'
    OBVIOUS
  <2>1. CASE MCNext
    BY <2>1, ServersStep
  <2>2. CASE UNCHANGED <<part, vars, serviceVars>>
    <3>1. SignalKept'
      BY <2>2, SignalRest DEF ServersKept, serviceVars
    <3>2. RenderKept'
      BY <2>2, RenderRest DEF ServersKept, serviceVars, renderVars
    <3>3. McpKept'
      BY <2>2, McpRest DEF ServersKept, serviceVars, toolVars
    <3> QED
      BY <3>1, <3>2, <3>3 DEF ServersKept
  <2> QED
    BY <2>1, <2>2
<1>3. ServersKept => ServersSound
  BY SignalIsSound, RenderIsSound, McpIsSound DEF ServersKept, ServersSound
<1> QED
  BY <1>1, <1>2, <1>3, PTL DEF MCSpec
=============================================================================
