------------------------- MODULE WalkerTurnsProofs -------------------------
(***************************************************************************)
(* What WalkerTurns guarantees for any rooms and bounds: its types; that a *)
(* turn the house holds open will be heard of; and, with the fleet's cap   *)
(* of one, that the turns that hold a slot are the ones an interrupt stops.*)
(***************************************************************************)
EXTENDS WalkerTurns, SequenceTheorems, FiniteSetTheorems, TLAPS

-----------------------------------------------------------------------------
(* Sequences read as the sets of what is in them.                          *)

(* What is in a sequence stands somewhere in it.                           *)
LEMMA InSequence ==
  ASSUME NEW S, NEW s \in Seq(S), NEW x
  PROVE  x \in ToSet(s) <=> \E i \in 1 .. Len(s) : s[i] = x
<1>1. DOMAIN s = 1 .. Len(s)
  BY LenProperties
<1> QED
  BY <1>1 DEF ToSet

(* One more element.                                                       *)
LEMMA Appended ==
  ASSUME NEW S, NEW s \in Seq(S), NEW x \in S
  PROVE  /\ Append(s, x) \in Seq(S) /\ Len(s) \in Nat /\ Len(Append(s, x)) = Len(s) + 1
         /\ \A i \in 1 .. Len(s) : Append(s, x)[i] = s[i]
         /\ Append(s, x)[Len(s) + 1] = x
         /\ ToSet(Append(s, x)) = ToSet(s) \cup {x}
         /\ IsInjective(s) /\ x \notin ToSet(s) => IsInjective(Append(s, x))
<1> DEFINE u == Append(s, x)
<1>1. /\ u \in Seq(S) /\ Len(s) \in Nat /\ Len(u) = Len(s) + 1
      /\ \A i \in 1 .. Len(s) : u[i] = s[i]
      /\ u[Len(s) + 1] = x
  BY AppendProperties, LenProperties
<1>2. DOMAIN s = 1 .. Len(s) /\ DOMAIN u = 1 .. Len(u)
  BY <1>1, LenProperties
<1> HIDE DEF u
<1>3. ToSet(u) = ToSet(s) \cup {x}
  <2>1. \A i \in 1 .. Len(u) : i \in 1 .. Len(s) \/ i = Len(s) + 1
    BY <1>1
  <2>2. \A y : y \in ToSet(u) <=> \E i \in 1 .. Len(u) : u[i] = y
    BY <1>2 DEF ToSet
  <2>3. \A y : y \in ToSet(s) <=> \E i \in 1 .. Len(s) : s[i] = y
    BY <1>2 DEF ToSet
  <2>4. \A y : y \in ToSet(u) => y \in ToSet(s) \cup {x}
    BY <1>1, <2>1, <2>2, <2>3
  <2>5. \A y : y \in ToSet(s) \cup {x} => y \in ToSet(u)
    BY <1>1, <2>2, <2>3
  <2> QED
    BY <2>4, <2>5
<1>4. IsInjective(s) /\ x \notin ToSet(s) => IsInjective(u)
  BY <1>1, <1>2 DEF IsInjective, ToSet
<1> QED
  BY <1>1, <1>3, <1>4 DEF u

(* The first element, and the rest.                                        *)
LEMMA HeadAndTail ==
  ASSUME NEW S, NEW s \in Seq(S), s # <<>>
  PROVE  /\ Tail(s) \in Seq(S) /\ Head(s) \in S /\ Head(s) = s[1] /\ 1 \in 1 .. Len(s)
         /\ Len(s) \in Nat /\ Len(Tail(s)) = Len(s) - 1
         /\ \A i \in 1 .. Len(Tail(s)) : i + 1 \in 1 .. Len(s) /\ Tail(s)[i] = s[i + 1]
         /\ ToSet(s) = ToSet(Tail(s)) \cup {Head(s)}
         /\ IsInjective(s) => IsInjective(Tail(s)) /\ Head(s) \notin ToSet(Tail(s))
<1> DEFINE u == Tail(s)
<1>1. /\ u \in Seq(S) /\ Len(s) \in Nat /\ Len(u) = Len(s) - 1 /\ Len(s) # 0
      /\ \A i \in 1 .. Len(u) : u[i] = s[i + 1]
      /\ Head(s) = s[1] /\ Head(s) \in S
  BY HeadTailProperties, EmptySeq, LenProperties
<1>2. DOMAIN s = 1 .. Len(s) /\ DOMAIN u = 1 .. Len(u)
  BY <1>1, LenProperties
<1> HIDE DEF u
<1>3. \A i \in 1 .. Len(s) : i = 1 \/ (i - 1 \in 1 .. Len(u) /\ u[i - 1] = s[i])
  <2> SUFFICES ASSUME NEW i \in 1 .. Len(s), i # 1
               PROVE  i - 1 \in 1 .. Len(u) /\ u[i - 1] = s[i]
    OBVIOUS
  <2>1. i - 1 \in 1 .. Len(u)
    BY <1>1
  <2>2. u[i - 1] = s[(i - 1) + 1] /\ (i - 1) + 1 = i
    BY <1>1, <2>1
  <2> QED
    BY <2>1, <2>2
<1>4. ToSet(s) = ToSet(u) \cup {Head(s)}
  <2>1. \A y : y \in ToSet(u) <=> \E i \in 1 .. Len(u) : u[i] = y
    BY <1>2 DEF ToSet
  <2>2. \A y : y \in ToSet(s) <=> \E i \in 1 .. Len(s) : s[i] = y
    BY <1>2 DEF ToSet
  <2>3. \A y : y \in ToSet(s) => y \in ToSet(u) \cup {Head(s)}
    BY <1>1, <1>3, <2>1, <2>2
  <2>4. \A y : y \in ToSet(u) \cup {Head(s)} => y \in ToSet(s)
    BY <1>1, <2>1, <2>2
  <2> QED
    BY <2>3, <2>4
<1>5. IsInjective(s) => IsInjective(u) /\ Head(s) \notin ToSet(u)
  BY <1>1, <1>2 DEF IsInjective, ToSet
<1>6. 1 \in 1 .. Len(s) /\ \A i \in 1 .. Len(u) : i + 1 \in 1 .. Len(s)
  BY <1>1
<1> QED
  BY <1>1, <1>4, <1>5, <1>6 DEF u

(* One element taken out of the middle.                                    *)
LEMMA TakenOut ==
  ASSUME NEW S, NEW s \in Seq(S), NEW k \in 1 .. Len(s), IsInjective(s)
  PROVE  /\ RemoveAt(s, k) \in Seq(S)
         /\ ToSet(RemoveAt(s, k)) = ToSet(s) \ {s[k]}
         /\ IsInjective(RemoveAt(s, k))
<1> DEFINE a == SubSeq(s, 1, k - 1)
           b == SubSeq(s, k + 1, Len(s))
           u == a \o b
<1>1. Len(s) \in Nat /\ DOMAIN s = 1 .. Len(s) /\ \A i \in 1 .. Len(s) : s[i] \in S
  BY LenProperties
<1>2. a \in Seq(S) /\ Len(a) = k - 1 /\ \A i \in 1 .. k - 1 : a[i] = s[i]
  BY <1>1, SubSeqProperties
<1>3. b \in Seq(S) /\ Len(b) = Len(s) - k /\ \A i \in 1 .. Len(s) - k : b[i] = s[k + i]
  <2>1. \A i \in k + 1 .. Len(s) : s[i] \in S
    BY <1>1
  <2>2. k + 1 \in Int /\ Len(s) \in Int
    BY <1>1
  <2>3. /\ b \in Seq(S) /\ Len(b) = IF k + 1 <= Len(s) THEN Len(s) - (k + 1) + 1 ELSE 0
        /\ \A i \in 1 .. Len(s) - (k + 1) + 1 : b[i] = s[(k + 1) + i - 1]
    BY <2>1, <2>2, SubSeqProperties
  <2> HIDE DEF b
  <2>4. Len(b) = Len(s) - k
    <3>1. CASE k + 1 <= Len(s)
      BY <1>1, <2>3, <3>1
    <3>2. CASE k = Len(s)
      BY <1>1, <2>3, <3>2
    <3>3. Len(s) \in Nat /\ k \in Nat /\ k <= Len(s)
      BY <1>1
    <3>4. k + 1 <= Len(s) \/ k = Len(s)
      BY <3>3
    <3> QED
      BY <3>1, <3>2, <3>4
  <2>5. \A i \in 1 .. Len(s) - k : i \in 1 .. Len(s) - (k + 1) + 1 /\ (k + 1) + i - 1 = k + i
    BY <1>1
  <2> QED
    BY <2>3, <2>4, <2>5
<1> HIDE DEF a, b
<1>4. u \in Seq(S) /\ Len(u) = Len(s) - 1
  <2>1. u \in Seq(S) /\ Len(u) = Len(a) + Len(b)
    BY <1>2, <1>3, ConcatProperties
  <2> QED
    BY <1>1, <1>2, <1>3, <2>1
<1>5. \A i \in 1 .. Len(s) - 1 : u[i] = IF i <= k - 1 THEN a[i] ELSE b[i - (k - 1)]
  BY <1>1, <1>2, <1>3, ConcatProperties
<1> HIDE DEF u
<1>6. DOMAIN u = 1 .. Len(s) - 1
  BY <1>4, LenProperties
<1>7. \A i \in 1 .. Len(s) - 1 : u[i] = IF i < k THEN s[i] ELSE s[i + 1]
  <2> SUFFICES ASSUME NEW i \in 1 .. Len(s) - 1
               PROVE  u[i] = IF i < k THEN s[i] ELSE s[i + 1]
    OBVIOUS
  <2>1. CASE i < k
    BY <1>1, <1>2, <1>5, <2>1
  <2>2. CASE i >= k
    <3>1. i - (k - 1) \in 1 .. Len(s) - k /\ k + (i - (k - 1)) = i + 1 /\ u[i] = b[i - (k - 1)]
      BY <1>1, <1>5, <2>2
    <3>2. b[i - (k - 1)] = s[k + (i - (k - 1))]
      BY <1>3, <3>1
    <3> QED
      BY <1>1, <2>2, <3>1, <3>2
  <2> QED
    BY <1>1, <2>1, <2>2
<1>8. IsInjective(u)
  <2> SUFFICES ASSUME NEW i \in 1 .. Len(s) - 1, NEW j \in 1 .. Len(s) - 1, u[i] = u[j]
               PROVE  i = j
    BY <1>6 DEF IsInjective
  <2> DEFINE Old(n) == IF n < k THEN n ELSE n + 1
  <2>1. Old(i) \in 1 .. Len(s) /\ Old(j) \in 1 .. Len(s) /\ (Old(i) = Old(j) => i = j)
    BY <1>1
  <2>2. u[i] = s[Old(i)] /\ u[j] = s[Old(j)]
    BY <1>7
  <2> HIDE DEF Old
  <2> QED
    BY <1>1, <2>1, <2>2 DEF IsInjective
<1>9. ToSet(u) = ToSet(s) \ {s[k]}
  <2>1. \A y : y \in ToSet(u) <=> \E i \in 1 .. Len(s) - 1 : u[i] = y
    BY <1>6 DEF ToSet
  <2>2. \A y : y \in ToSet(s) <=> \E i \in 1 .. Len(s) : s[i] = y
    BY <1>1 DEF ToSet
  <2>3. ASSUME NEW y, y \in ToSet(u)
        PROVE  y \in ToSet(s) /\ y # s[k]
    <3>1. PICK i \in 1 .. Len(s) - 1 : u[i] = y
      BY <2>1, <2>3
    <3>2. \E j \in 1 .. Len(s) : j # k /\ s[j] = y
      BY <1>1, <1>7, <3>1
    <3> QED
      BY <1>1, <2>2, <3>2 DEF IsInjective
  <2>4. ASSUME NEW y, y \in ToSet(s), y # s[k]
        PROVE  y \in ToSet(u)
    <3>1. PICK j \in 1 .. Len(s) : s[j] = y
      BY <2>2, <2>4
    <3>2. \E i \in 1 .. Len(s) - 1 : u[i] = y
      <4>1. CASE j < k
        BY <1>1, <1>7, <3>1, <4>1
      <4>2. CASE j > k
        <5>1. j - 1 \in 1 .. Len(s) - 1 /\ u[j - 1] = s[j]
          BY <1>1, <1>7, <4>2
        <5> QED
          BY <3>1, <5>1
      <4> QED
        BY <2>4, <3>1, <4>1, <4>2
    <3> QED
      BY <2>1, <3>2
  <2> QED
    BY <2>3, <2>4
<1>10. RemoveAt(s, k) = u
  BY DEF RemoveAt, u, a, b
<1> QED
  BY <1>4, <1>8, <1>9, <1>10

(* A non-empty set of numbers has a least one.                             *)
LEMMA Least ==
  ASSUME NEW T, T \subseteq Nat, T # {}
  PROVE  \E n \in T : \A m \in T : n <= m
<1>1. IsWellFoundedOn(OpToRel(<, Nat), Nat)
  BY NatLessThanWellFounded
<1>2. PICK n \in T : \A m \in T : ~(<<m, n>> \in OpToRel(<, Nat))
  BY <1>1, WFMin
<1>3. \A m \in T : m < n => <<m, n>> \in OpToRel(<, Nat)
  BY DEF OpToRel
<1>4. \A m \in T : ~(m < n)
  BY <1>2, <1>3, Zenon
<1> QED
  BY <1>4

-----------------------------------------------------------------------------
(* The walker's own tables.                                                *)

(* The queue holds the turns that are queued, each once; a turn with a     *)
(* slot runs; one that has not run yet was not told to stop and is not     *)
(* what its room's cancel function stops.                                  *)
WalkerSound ==
  /\ runs \in [Turns -> Run]
  /\ cancels \in [Rooms -> 0 .. MaxTurns]
  /\ queue \in Seq(Turns) /\ IsInjective(queue)
  /\ ToSet(queue) = {t \in Turns : runs[t].at = "queued"}
  /\ \A t \in Turns : runs[t].at \in {"unseen", "queued"} => ~runs[t].held /\ ~runs[t].byHouse
  /\ \A t \in Turns : runs[t].held => Running(t)
  /\ \A r \in Rooms : cancels[r] # NoTurn => runs[cancels[r]].at \notin {"unseen", "queued"}

(* Which turns the walker has heard of.                                    *)
SameHeardOf == \A t \in Turns : runs'[t].at = "unseen" <=> runs[t].at = "unseen"

(* A turn that starts or is unseen is a run.                               *)
LEMMA StartedIsRun ==
  ASSUME NEW t
  PROVE  /\ Started(t) \in Run /\ Unseen \in Run
         /\ Started(t).at = "streaming" /\ Started(t).held
         /\ ~Started(t).byHouse /\ ~Started(t).cancelled
  BY DEF Started, Unseen, Run

(* One that is cancelled is as far as it was.                              *)
LEMMA CancelledIsRun ==
  ASSUME NEW run \in Run, NEW house \in BOOLEAN
  PROVE  /\ Cancelled(run, house) \in Run
         /\ Cancelled(run, house).at = run.at /\ Cancelled(run, house).held = run.held
         /\ Cancelled(run, house).byHouse = (run.byHouse \/ house)
         /\ Cancelled(run, house).cancelled
  BY DEF Cancelled, Run

(* One run replaced.                                                       *)
LEMMA RunReplaced ==
  ASSUME runs \in [Turns -> Run], NEW t \in Turns, NEW new \in Run,
         runs' = [runs EXCEPT ![t] = new]
  PROVE  /\ runs' \in [Turns -> Run] /\ runs'[t] = new
         /\ \A u \in Turns : u # t => runs'[u] = runs[u]
  OBVIOUS

(* A run that comes further is as it was else.                             *)
LEMMA FurtherIsRun ==
  ASSUME NEW run \in Run, NEW at \in {"unseen", "queued", "streaming", "calling", "ended"}
  PROVE  /\ [run EXCEPT !.at = at] \in Run /\ [run EXCEPT !.at = at].at = at
         /\ [run EXCEPT !.at = at].held = run.held
         /\ [run EXCEPT !.at = at].byHouse = run.byHouse
         /\ [run EXCEPT !.at = at].cancelled = run.cancelled
  BY DEF Run

(* So is one whose slot is let go.                                         *)
LEMMA LetGoIsRun ==
  ASSUME NEW run \in Run
  PROVE  /\ [run EXCEPT !.held = FALSE] \in Run /\ [run EXCEPT !.held = FALSE].at = run.at
         /\ ~[run EXCEPT !.held = FALSE].held
         /\ [run EXCEPT !.held = FALSE].byHouse = run.byHouse
  BY DEF Run

(* The head of the queue is a queued turn, and the only one that leaves.   *)
LEMMA HeadIsQueued ==
  ASSUME WalkerSound, queue # <<>>
  PROVE  /\ Head(queue) \in Turns /\ runs[Head(queue)].at = "queued"
         /\ Tail(queue) \in Seq(Turns) /\ IsInjective(Tail(queue))
         /\ ToSet(Tail(queue)) = {t \in Turns : runs[t].at = "queued" /\ t # Head(queue)}
<1>1. /\ Head(queue) \in Turns /\ Tail(queue) \in Seq(Turns) /\ IsInjective(Tail(queue))
      /\ ToSet(queue) = ToSet(Tail(queue)) \cup {Head(queue)}
      /\ Head(queue) \notin ToSet(Tail(queue))
  BY HeadAndTail DEF WalkerSound
<1> QED
  BY <1>1 DEF WalkerSound

(* Turns whose runs change without being queued, or heard of, or started.  *)
LEMMA RunsChange ==
  ASSUME WalkerSound, runs' \in [Turns -> Run],
         \A t \in Turns : /\ runs'[t].at \in {"unseen", "queued"} => runs'[t] = runs[t]
                          /\ runs[t].at \in {"unseen", "queued"} => runs'[t] = runs[t]
                          /\ runs'[t].held => Running(t)',
         UNCHANGED <<cancels, queue>>
  PROVE  WalkerSound' /\ SameHeardOf
<1>1. \A t \in Turns : runs'[t].at \in {"unseen", "queued"} => ~runs'[t].held /\ ~runs'[t].byHouse
  BY DEF WalkerSound
<1>2. {t \in Turns : runs'[t].at = "queued"} = {t \in Turns : runs[t].at = "queued"}
  OBVIOUS
<1>3. \A r \in Rooms : cancels'[r] # NoTurn => runs'[cancels'[r]].at \notin {"unseen", "queued"}
  BY DEF WalkerSound, Turns, NoTurn
<1>4. SameHeardOf
  BY DEF SameHeardOf
<1> QED
  BY <1>1, <1>2, <1>3, <1>4 DEF WalkerSound, Running

(* A turn that is let in: queued past the cap, else started.               *)
LEMMA AdmitsSound ==
  ASSUME WalkerSound, NEW t \in Turns, runs[t].at = "unseen", room[t] \in Rooms, Admits(t)
  PROVE  /\ WalkerSound'
         /\ \A u \in Turns : u # t => runs'[u] = runs[u]
         /\ \/ AtCap /\ runs'[t] = [runs[t] EXCEPT !.at = "queued"] /\ UNCHANGED cancels
            \/ ~AtCap /\ runs'[t] = Started(t) /\ cancels' = [cancels EXCEPT ![room[t]] = t]
<1>1. \A u \in Turns : u # t => runs'[u] = runs[u]
  BY DEF Admits, WalkerSound
<1>2. CASE AtCap
  <2>1. /\ queue' = Append(queue, t) /\ UNCHANGED cancels
        /\ runs' = [runs EXCEPT ![t].at = "queued"]
    BY <1>2 DEF Admits
  <2>2. /\ runs'[t] = [runs[t] EXCEPT !.at = "queued"] /\ runs' \in [Turns -> Run]
        /\ runs'[t].at = "queued" /\ ~runs'[t].held /\ ~runs'[t].byHouse
    <3> DEFINE new == [runs[t] EXCEPT !.at = "queued"]
    <3>1. runs[t] \in Run /\ ~runs[t].held /\ ~runs[t].byHouse
      BY DEF WalkerSound
    <3>2. new \in Run /\ new.at = "queued" /\ ~new.held /\ ~new.byHouse
      BY <3>1, FurtherIsRun
    <3>3. runs' = [runs EXCEPT ![t] = new]
      BY <2>1
    <3> HIDE DEF new
    <3>4. runs' \in [Turns -> Run] /\ runs'[t] = new
      BY <3>2, <3>3, RunReplaced DEF WalkerSound
    <3> QED
      BY <3>2, <3>4 DEF new
  <2>4. t \notin ToSet(queue)
    BY DEF WalkerSound
  <2>5. queue' \in Seq(Turns) /\ IsInjective(queue') /\ ToSet(queue') = ToSet(queue) \cup {t}
    BY <2>1, <2>4, Appended DEF WalkerSound
  <2>6. ToSet(queue') = {u \in Turns : runs'[u].at = "queued"}
    BY <1>1, <2>2, <2>5 DEF WalkerSound
  <2>7. \A r \in Rooms : cancels'[r] # NoTurn => cancels'[r] \in Turns /\ cancels'[r] # t
    BY <2>1 DEF WalkerSound, NoTurn, Turns
  <2>8. \A u \in Turns : runs'[u].at \in {"unseen", "queued"} => ~runs'[u].held /\ ~runs'[u].byHouse
    BY <1>1, <2>2 DEF WalkerSound
  <2>9. \A u \in Turns : runs'[u].held => Running(u)'
    BY <1>1, <2>2 DEF WalkerSound, Running
  <2>10. \A r \in Rooms : cancels'[r] # NoTurn => runs'[cancels'[r]].at \notin {"unseen", "queued"}
    BY <1>1, <2>1, <2>7 DEF WalkerSound
  <2> QED
    BY <1>1, <1>2, <2>1, <2>2, <2>5, <2>6, <2>8, <2>9, <2>10 DEF WalkerSound
<1>3. CASE ~AtCap
  <2>1. /\ cancels' = [cancels EXCEPT ![room[t]] = t] /\ UNCHANGED queue
        /\ runs' = [runs EXCEPT ![t] = Started(t)]
    BY <1>3 DEF Admits
  <2>2. runs' \in [Turns -> Run] /\ runs'[t] = Started(t) /\ runs'[t].at = "streaming"
    BY <2>1, StartedIsRun DEF WalkerSound
  <2>3. {u \in Turns : runs'[u].at = "queued"} = {u \in Turns : runs[u].at = "queued"}
    BY <1>1, <2>2
  <2>4. cancels' \in [Rooms -> 0 .. MaxTurns]
    BY <2>1 DEF WalkerSound, Turns
  <2>5. \A r \in Rooms : cancels'[r] = t \/ cancels'[r] = cancels[r]
    BY <2>1 DEF WalkerSound
  <2>6. \A r \in Rooms : cancels'[r] # NoTurn => runs'[cancels'[r]].at \notin {"unseen", "queued"}
    BY <1>1, <2>2, <2>5 DEF WalkerSound, NoTurn, Turns
  <2>7. \A u \in Turns : runs'[u].at \in {"unseen", "queued"} => ~runs'[u].held /\ ~runs'[u].byHouse
    BY <1>1, <2>2 DEF WalkerSound
  <2>8. \A u \in Turns : runs'[u].held => Running(u)'
    BY <1>1, <2>2 DEF WalkerSound, Running
  <2> QED
    BY <1>1, <1>3, <2>1, <2>2, <2>3, <2>4, <2>6, <2>7, <2>8 DEF WalkerSound
<1> QED
  BY <1>2, <1>3

(* An interrupt: the room's turn is cancelled, or a queued one goes.       *)
LEMMA InterruptsSound ==
  ASSUME WalkerSound, NEW r \in Rooms, Interrupts(r)
  PROVE  /\ WalkerSound' /\ SameHeardOf /\ UNCHANGED cancels
         /\ \A t \in Turns :
              \/ runs'[t] = runs[t]
              \/ t = cancels[r] /\ runs'[t] = Cancelled(runs[t], TRUE)
              \/ runs[t].at = "queued" /\ room[t] = r /\ runs'[t] = [runs[t] EXCEPT !.at = "ended"]
<1>1. CASE /\ Stopped(r) # {}
           /\ runs' = [t \in Turns |-> IF t \in Stopped(r) THEN Cancelled(runs[t], TRUE) ELSE runs[t]]
           /\ UNCHANGED <<cancels, queue>>
  <2>1. \A t \in Stopped(r) : t = cancels[r] /\ cancels[r] # NoTurn
    BY DEF Stopped, InFlight
  <2>2. \A t \in Turns : \/ runs'[t] = runs[t]
                         \/ t = cancels[r] /\ cancels[r] # NoTurn /\ runs'[t] = Cancelled(runs[t], TRUE)
    BY <1>1, <2>1
  <2>3. \A t \in Turns : runs[t] \in Run
    BY DEF WalkerSound
  <2>4. \A t \in Turns : /\ Cancelled(runs[t], TRUE) \in Run /\ Cancelled(runs[t], TRUE).at = runs[t].at
                         /\ Cancelled(runs[t], TRUE).held = runs[t].held
    BY <2>3, CancelledIsRun
  <2>5. runs' \in [Turns -> Run]
    BY <1>1, <2>3, <2>4
  <2>6. cancels[r] # NoTurn => runs[cancels[r]].at \notin {"unseen", "queued"}
    BY DEF WalkerSound
  <2>7. \A t \in Turns : /\ runs'[t].at \in {"unseen", "queued"} => runs'[t] = runs[t]
                         /\ runs[t].at \in {"unseen", "queued"} => runs'[t] = runs[t]
                         /\ runs'[t].held => Running(t)'
    BY <2>2, <2>4, <2>6 DEF WalkerSound, Running
  <2>8. WalkerSound' /\ SameHeardOf
    BY <1>1, <2>5, <2>7, RunsChange
  <2> QED
    BY <1>1, <2>2, <2>8
<1>2. CASE /\ Stopped(r) = {} /\ QueuedIn(r) # {}
           /\ LET i == CHOOSE i \in QueuedIn(r) : \A j \in QueuedIn(r) : i <= j
              IN  /\ queue' = WithoutQueued(i)
                  /\ runs' = [runs EXCEPT ![queue[i]].at = "ended"]
           /\ UNCHANGED cancels
  <2> DEFINE i == CHOOSE i \in QueuedIn(r) : \A j \in QueuedIn(r) : i <= j
             t == queue[i]
  <2>1. QueuedIn(r) \subseteq Nat
    BY LenProperties DEF QueuedIn, WalkerSound
  <2>2. i \in QueuedIn(r)
    BY <1>2, <2>1, Least
  <2>3. i \in 1 .. Len(queue) /\ room[t] = r
    BY <2>2 DEF QueuedIn
  <2>4. /\ queue' = RemoveAt(queue, i) /\ UNCHANGED cancels
        /\ runs' = [runs EXCEPT ![t].at = "ended"]
    BY <1>2 DEF WithoutQueued
  <2> HIDE DEF i
  <2>5. t \in Turns /\ t \in ToSet(queue)
    BY <2>3, InSequence, ElementOfSeq DEF WalkerSound
  <2>6. runs[t].at = "queued"
    BY <2>5 DEF WalkerSound
  <2>7. /\ queue' \in Seq(Turns) /\ IsInjective(queue') /\ ToSet(queue') = ToSet(queue) \ {t}
    BY <2>3, <2>4, TakenOut DEF WalkerSound
  <2> HIDE DEF t
  <2>8. /\ runs' \in [Turns -> Run] /\ runs'[t] = [runs[t] EXCEPT !.at = "ended"]
        /\ runs'[t].at = "ended" /\ runs'[t].held = runs[t].held
        /\ \A u \in Turns : u # t => runs'[u] = runs[u]
    BY <2>4, <2>5 DEF WalkerSound, Run
  <2>9. ToSet(queue') = {u \in Turns : runs'[u].at = "queued"}
    BY <2>7, <2>8 DEF WalkerSound
  <2>10. \A u \in Turns : runs'[u].at \in {"unseen", "queued"} => ~runs'[u].held /\ ~runs'[u].byHouse
    BY <2>8 DEF WalkerSound
  <2>11. \A u \in Turns : runs'[u].held => Running(u)'
    BY <2>5, <2>6, <2>8 DEF WalkerSound, Running
  <2>12. \A q \in Rooms : cancels'[q] # NoTurn => runs'[cancels'[q]].at \notin {"unseen", "queued"}
    BY <2>4, <2>8 DEF WalkerSound, NoTurn, Turns
  <2>13. WalkerSound'
    BY <2>4, <2>7, <2>8, <2>9, <2>10, <2>11, <2>12 DEF WalkerSound
  <2>14. SameHeardOf
    BY <2>6, <2>8 DEF SameHeardOf
  <2> QED
    BY <2>3, <2>4, <2>6, <2>8, <2>13, <2>14 DEF t
<1>3. CASE UNCHANGED <<runs, cancels, queue>>
  <2>1. WalkerSound' /\ SameHeardOf
    BY <1>3 DEF WalkerSound, SameHeardOf, Running
  <2> QED
    BY <1>3, <2>1
<1> QED
  BY <1>1, <1>2, <1>3 DEF Interrupts

(* A result: a turn that waits for one goes on.                            *)
LEMMA SettlesSound ==
  ASSUME WalkerSound, NEW t \in Turns, Settles(t)
  PROVE  /\ WalkerSound' /\ SameHeardOf /\ UNCHANGED cancels
         /\ \A u \in Turns : \/ runs'[u] = runs[u]
                             \/ runs[u].at = "calling" /\ runs'[u] = [runs[u] EXCEPT !.at = "streaming"]
<1>1. CASE runs[t].at = "calling"
  <2>1. /\ runs' = [runs EXCEPT ![t].at = "streaming"] /\ UNCHANGED <<cancels, queue>>
    BY <1>1 DEF Settles
  <2>2. /\ runs' \in [Turns -> Run] /\ runs'[t] = [runs[t] EXCEPT !.at = "streaming"]
        /\ runs'[t].at = "streaming"
        /\ \A u \in Turns : u # t => runs'[u] = runs[u]
    <3>1. runs[t] \in Run
      BY DEF WalkerSound
    <3> DEFINE new == [runs[t] EXCEPT !.at = "streaming"]
    <3>2. new \in Run /\ new.at = "streaming"
      BY <3>1, FurtherIsRun
    <3>3. runs' = [runs EXCEPT ![t] = new]
      BY <2>1
    <3> HIDE DEF new
    <3>4. /\ runs' \in [Turns -> Run] /\ runs'[t] = new
          /\ \A u \in Turns : u # t => runs'[u] = runs[u]
      BY <3>2, <3>3, RunReplaced DEF WalkerSound
    <3> QED
      BY <3>2, <3>4 DEF new
  <2>3. \A u \in Turns : /\ runs'[u].at \in {"unseen", "queued"} => runs'[u] = runs[u]
                         /\ runs[u].at \in {"unseen", "queued"} => runs'[u] = runs[u]
                         /\ runs'[u].held => Running(u)'
    BY <1>1, <2>2 DEF WalkerSound, Running
  <2>4. WalkerSound' /\ SameHeardOf
    BY <2>1, <2>2, <2>3, RunsChange
  <2> QED
    BY <1>1, <2>1, <2>2, <2>4
<1>2. CASE runs[t].at # "calling"
  <2>1. UNCHANGED <<runs, cancels, queue>>
    BY <1>2 DEF Settles
  <2>2. WalkerSound' /\ SameHeardOf
    BY <2>1 DEF WalkerSound, SameHeardOf, Running
  <2> QED
    BY <2>1, <2>2
<1> QED
  BY <1>1, <1>2

(* What startTurn's last step does to the tables: the turn lets its slot   *)
(* go, another may be cancelled by its deadline, the first queued starts.  *)
LEMMA SlotLetGo ==
  ASSUME WalkerSound, NEW t \in Turns, runs[t].at \notin {"unseen", "queued"},
         runs' \in [Turns -> Run], runs'[t].at \notin {"unseen", "queued"}, ~runs'[t].held,
         \A u \in Turns : u # t =>
           \/ runs'[u] = runs[u] /\ ~(queue # <<>> /\ u = Head(queue))
           \/ queue # <<>> /\ u = Head(queue) /\ runs'[u] = Started(u)
           \/ /\ runs[u].at \notin {"unseen", "queued"}
              /\ runs'[u].at = runs[u].at /\ runs'[u].held = runs[u].held,
         cancels' = Freed(t),
         queue' = IF queue = <<>> THEN <<>> ELSE Tail(queue)
  PROVE  WalkerSound' /\ SameHeardOf
<1>1. /\ queue' \in Seq(Turns) /\ IsInjective(queue')
      /\ ToSet(queue') = {u \in Turns : runs[u].at = "queued" /\ ~(queue # <<>> /\ u = Head(queue))}
  <2>1. CASE queue = <<>>
    BY <2>1 DEF WalkerSound
  <2>2. CASE queue # <<>>
    BY <2>2, HeadIsQueued
  <2> QED
    BY <2>1, <2>2
<1>2. \A u \in Turns : queue # <<>> /\ u = Head(queue) => runs[u].at = "queued" /\ u # t
  BY HeadIsQueued
<1>3. \A u \in Turns : Started(u).at = "streaming" /\ Started(u).held /\ ~Started(u).byHouse
  BY StartedIsRun
<1>4. ToSet(queue') = {u \in Turns : runs'[u].at = "queued"}
  BY <1>1, <1>2, <1>3
<1>5. \A u \in Turns : runs'[u].at \in {"unseen", "queued"} => ~runs'[u].held /\ ~runs'[u].byHouse
  BY <1>2, <1>3 DEF WalkerSound
<1>6. \A u \in Turns : runs'[u].held => Running(u)'
  BY <1>2, <1>3 DEF WalkerSound, Running
<1>7. \A u \in Turns : /\ runs[u].at \notin {"unseen", "queued"} => runs'[u].at \notin {"unseen", "queued"}
                       /\ queue # <<>> /\ u = Head(queue) => runs'[u].at \notin {"unseen", "queued"}
  BY <1>2, <1>3
<1>8. queue # <<>> => Head(queue) \in Turns
  BY HeadIsQueued
<1>9. /\ cancels' \in [Rooms -> 0 .. MaxTurns]
      /\ \A r \in Rooms : cancels'[r] # NoTurn => runs'[cancels'[r]].at \notin {"unseen", "queued"}
  <2>1. \A r \in Rooms : \/ queue # <<>> /\ cancels'[r] = Head(queue)
                         \/ cancels'[r] = NoTurn
                         \/ cancels'[r] = cancels[r]
    BY DEF Freed
  <2>2. \A r \in Rooms : cancels[r] # NoTurn =>
          cancels[r] \in Turns /\ runs[cancels[r]].at \notin {"unseen", "queued"}
    BY DEF WalkerSound, NoTurn, Turns
  <2>3. \A r \in Rooms : cancels'[r] # NoTurn => runs'[cancels'[r]].at \notin {"unseen", "queued"}
    BY <1>7, <1>8, <2>1, <2>2
  <2>4. cancels' = [r \in Rooms |-> Freed(t)[r]]
    BY DEF Freed
  <2>5. \A r \in Rooms : cancels'[r] \in 0 .. MaxTurns
    BY <1>8, <2>1, WalkerAssumption DEF WalkerSound, NoTurn, Turns
  <2> QED
    BY <2>3, <2>4, <2>5
<1>10. SameHeardOf
  BY <1>2, <1>3 DEF SameHeardOf
<1> QED
  BY <1>1, <1>4, <1>5, <1>6, <1>9, <1>10 DEF WalkerSound

(* The first of the queue starts.                                          *)
StartedNext(u) ==
  queue # <<>> /\ u = Head(queue) /\ runs[u].at = "queued" /\ runs'[u] = Started(u)

(* A turn ends, or its deadline passes and its slot is let go.             *)
LEMMA FreesSlotSound ==
  ASSUME WalkerSound, NEW t \in Turns, NEW run \in Run, runs[t].at \notin {"unseen", "queued"},
         run.at \notin {"unseen", "queued"}, FreesSlot(t, run)
  PROVE  /\ WalkerSound' /\ SameHeardOf /\ runs'[t] = [run EXCEPT !.held = FALSE]
         /\ \A u \in Turns : u # t =>
              \/ runs'[u] = runs[u] /\ ~(queue # <<>> /\ u = Head(queue))
              \/ queue # <<>> /\ u = Head(queue) /\ runs'[u] = Started(u) /\ runs[u].at = "queued"
<1> DEFINE new == [run EXCEPT !.held = FALSE]
<1>1. new \in Run /\ new.at = run.at /\ ~new.held
  BY LetGoIsRun
<1>2. runs' = [u \in Turns |-> IF u = t THEN new
                              ELSE IF queue # <<>> /\ Head(queue) = u THEN Started(u) ELSE runs[u]]
  BY DEF FreesSlot
<1> HIDE DEF new
<1>3. runs' \in [Turns -> Run]
  BY <1>1, <1>2, StartedIsRun DEF WalkerSound
<1>4. runs'[t] = new
  BY <1>2
<1>5. \A u \in Turns : u # t =>
        \/ runs'[u] = runs[u] /\ ~(queue # <<>> /\ u = Head(queue))
        \/ queue # <<>> /\ u = Head(queue) /\ runs'[u] = Started(u) /\ runs[u].at = "queued"
  BY <1>2, HeadIsQueued
<1>6. WalkerSound' /\ SameHeardOf
  BY <1>1, <1>3, <1>4, <1>5, SlotLetGo DEF FreesSlot
<1> QED
  BY <1>4, <1>5, <1>6 DEF new

(* runTurn returns: the turn has ended, its slot is let go if it had one.  *)
LEMMA EndsSound ==
  ASSUME WalkerSound, NEW t \in Turns, Running(t), Ends(t)
  PROVE  /\ WalkerSound' /\ SameHeardOf
         /\ runs'[t].at = "ended" /\ ~runs'[t].held /\ runs'[t].byHouse = runs[t].byHouse
         /\ \A u \in Turns : u # t =>
              \/ runs'[u] = runs[u]
              \/ StartedNext(u)
         /\ \/ runs[t].held /\ cancels' = Freed(t)
            \/ ~runs[t].held /\ UNCHANGED cancels /\ \A u \in Turns : u # t => runs'[u] = runs[u]
<1> DEFINE run == [runs[t] EXCEPT !.at = "ended"]
<1>1. /\ run \in Run /\ run.at = "ended" /\ run.held = runs[t].held /\ run.byHouse = runs[t].byHouse
      /\ runs[t] \in Run
  BY FurtherIsRun DEF WalkerSound
<1>2. /\ run.held => FreesSlot(t, run)
      /\ ~run.held => runs' = [runs EXCEPT ![t] = run] /\ UNCHANGED <<cancels, queue>>
  BY DEF Ends
<1> HIDE DEF run
<1>3. runs[t].at \notin {"unseen", "queued"}
  BY DEF Running
<1>4. CASE run.held
  <2>1. /\ WalkerSound' /\ SameHeardOf /\ runs'[t] = [run EXCEPT !.held = FALSE]
        /\ \A u \in Turns : u # t =>
              \/ runs'[u] = runs[u] /\ ~(queue # <<>> /\ u = Head(queue))
              \/ queue # <<>> /\ u = Head(queue) /\ runs'[u] = Started(u) /\ runs[u].at = "queued"
    BY <1>1, <1>2, <1>3, <1>4, FreesSlotSound
  <2>2. cancels' = Freed(t)
    BY <1>2, <1>4 DEF FreesSlot
  <2>3. runs'[t].at = "ended" /\ ~runs'[t].held /\ runs'[t].byHouse = runs[t].byHouse
    BY <1>1, <2>1, LetGoIsRun
  <2> QED
    BY <1>1, <1>4, <2>1, <2>2, <2>3 DEF StartedNext
<1>5. CASE ~run.held
  <2>1. runs' \in [Turns -> Run] /\ runs'[t] = run /\ \A u \in Turns : u # t => runs'[u] = runs[u]
    BY <1>1, <1>2, <1>5, RunReplaced DEF WalkerSound
  <2>2. \A u \in Turns : /\ runs'[u].at \in {"unseen", "queued"} => runs'[u] = runs[u]
                         /\ runs[u].at \in {"unseen", "queued"} => runs'[u] = runs[u]
                         /\ runs'[u].held => Running(u)'
    BY <1>1, <1>3, <1>5, <2>1 DEF WalkerSound, Running
  <2>3. WalkerSound' /\ SameHeardOf
    BY <1>2, <1>5, <2>1, <2>2, RunsChange
  <2> QED
    BY <1>1, <1>2, <1>5, <2>1, <2>3
<1> QED
  BY <1>4, <1>5

(* A local model's deadline: as one that lets its slot go, and it or the   *)
(* turn its room's cancel function is of is cancelled.                     *)
LEMMA DeadlineSound ==
  ASSUME WalkerSound, NEW t \in Turns, room[t] \in Rooms, DeadlinePasses(t)
  PROVE  /\ WalkerSound' /\ SameHeardOf /\ cancels' = Freed(t)
         /\ runs'[t].at = runs[t].at /\ ~runs'[t].held
         /\ cancels[room[t]] = t =>
              \A u \in Turns : u # t =>
                \/ runs'[u] = runs[u]
                \/ StartedNext(u)
<1> DEFINE mine == cancels[room[t]]
           expired == IF mine = t THEN Cancelled(runs[t], TRUE) ELSE runs[t]
<1>1. runs[t].held /\ Running(t) /\ runs[t] \in Run
  BY DEF DeadlinePasses, WalkerSound
<1>2. runs[t].at \notin {"unseen", "queued"}
  BY <1>1 DEF Running
<1>3. expired \in Run /\ expired.at = runs[t].at
  BY <1>1, CancelledIsRun
<1>4. CASE mine \in {t, NoTurn}
  <2>1. FreesSlot(t, expired)
    BY <1>4 DEF DeadlinePasses
  <2> HIDE DEF expired
  <2>2. /\ WalkerSound' /\ SameHeardOf /\ runs'[t] = [expired EXCEPT !.held = FALSE]
        /\ \A u \in Turns : u # t =>
              \/ runs'[u] = runs[u] /\ ~(queue # <<>> /\ u = Head(queue))
              \/ queue # <<>> /\ u = Head(queue) /\ runs'[u] = Started(u) /\ runs[u].at = "queued"
    BY <1>2, <1>3, <2>1, FreesSlotSound
  <2>3. runs'[t].at = runs[t].at /\ ~runs'[t].held
    BY <1>3, <2>2, LetGoIsRun
  <2>4. cancels' = Freed(t)
    BY <2>1 DEF FreesSlot
  <2> QED
    BY <2>2, <2>3, <2>4 DEF StartedNext
<1>5. CASE mine \notin {t, NoTurn}
  <2> DEFINE new == [runs[t] EXCEPT !.held = FALSE]
  <2>1. /\ cancels' = Freed(t)
        /\ queue' = IF queue = <<>> THEN <<>> ELSE Tail(queue)
        /\ runs' = [u \in Turns |->
             IF u = t THEN new
             ELSE IF u = mine THEN Cancelled(runs[u], TRUE)
             ELSE IF queue # <<>> /\ Head(queue) = u THEN Started(u) ELSE runs[u]]
    BY <1>5 DEF DeadlinePasses
  <2>2. new \in Run /\ new.at = runs[t].at /\ ~new.held
    BY <1>1, LetGoIsRun
  <2>3. \A u \in Turns : /\ Cancelled(runs[u], TRUE) \in Run /\ Cancelled(runs[u], TRUE).at = runs[u].at
                         /\ Cancelled(runs[u], TRUE).held = runs[u].held
    BY CancelledIsRun DEF WalkerSound
  <2>4. runs[mine].at \notin {"unseen", "queued"}
    BY <1>5 DEF WalkerSound
  <2>5. runs'[t] = new
    BY <2>1
  <2> HIDE DEF new, mine, expired
  <2>6. \A u \in Turns : u # t =>
          \/ u = mine /\ runs'[u] = Cancelled(runs[u], TRUE)
          \/ u # mine /\ queue # <<>> /\ u = Head(queue) /\ runs'[u] = Started(u)
          \/ u # mine /\ ~(queue # <<>> /\ u = Head(queue)) /\ runs'[u] = runs[u]
    BY <2>1
  <2>7. runs' = [u \in Turns |-> runs'[u]]
    BY <2>1
  <2>8. runs' \in [Turns -> Run]
    <3>1. \A u \in Turns : runs[u] \in Run /\ Started(u) \in Run
      BY StartedIsRun DEF WalkerSound
    <3>2. \A u \in Turns : runs'[u] \in Run
      BY <2>2, <2>3, <2>5, <2>6, <3>1
    <3> QED
      BY <2>7, <3>2
  <2>9. \A u \in Turns : u # t =>
           \/ runs'[u] = runs[u] /\ ~(queue # <<>> /\ u = Head(queue))
           \/ queue # <<>> /\ u = Head(queue) /\ runs'[u] = Started(u)
           \/ /\ runs[u].at \notin {"unseen", "queued"}
              /\ runs'[u].at = runs[u].at /\ runs'[u].held = runs[u].held
    BY <2>3, <2>4, <2>6
  <2>10. WalkerSound' /\ SameHeardOf
    <3>1. runs'[t].at \notin {"unseen", "queued"} /\ ~runs'[t].held
      BY <1>2, <2>2, <2>5
    <3>2. cancels' = Freed(t) /\ queue' = IF queue = <<>> THEN <<>> ELSE Tail(queue)
      BY <2>1
    <3> QED
      BY <1>2, <2>8, <2>9, <3>1, <3>2, SlotLetGo
  <2> QED
    BY <1>5, <2>1, <2>2, <2>5, <2>10 DEF mine
<1> QED
  BY <1>4, <1>5

-----------------------------------------------------------------------------
(* The house, and what is on its way between the two.                      *)

HouseSays == ({"turn.begin", "tool.result"} \X Turns) \cup ({"interrupt"} \X Rooms)
WalkerSays == {"tool.exec", "end"} \X Turns

Begun == 1 .. Len(room)

(* What is said names turns that were begun; a turn.begin is said once and *)
(* of a turn the walker has not heard of; a room's open turn is its own,   *)
(* and so is what its cancel function stops.                               *)
HouseSound ==
  /\ open \in [Rooms -> 0 .. MaxTurns] /\ executing \subseteq Begun
  /\ room \in Seq(Rooms) /\ Len(room) <= MaxTurns
  /\ toWalker \in Seq(HouseSays) /\ toHouse \in Seq(WalkerSays)
  /\ stops \in Nat
  /\ \A i \in 1 .. Len(toWalker) : toWalker[i][1] = "turn.begin" =>
       toWalker[i][2] \in Begun /\ runs[toWalker[i][2]].at = "unseen"
  /\ \A i, j \in 1 .. Len(toWalker) :
       toWalker[i][1] = "turn.begin" /\ toWalker[j] = toWalker[i] => i = j
  /\ \A i \in 1 .. Len(toHouse) : toHouse[i][2] \in Begun
  /\ \A t \in Turns : runs[t].at # "unseen" => t \in Begun
  /\ \A r \in Rooms : open[r] # NoTurn => open[r] \in Begun /\ room[open[r]] = r
  /\ \A r \in Rooms : cancels[r] # NoTurn => room[cancels[r]] = r

(* An interrupt that is on its way is of an earlier turn than the room's.  *)
InterruptsAreOld ==
  \A r \in Rooms, i \in 1 .. Len(toWalker) : toWalker[i] = <<"interrupt", r>> /\ open[r] # NoTurn =>
    \E j \in 1 .. Len(toWalker) : j > i /\ toWalker[j] = <<"turn.begin", open[r]>>

Sound == WalkerSound /\ HouseSound

(* A turn that was begun is a turn, and is in a room.                      *)
LEMMA BegunTurns ==
  ASSUME HouseSound
  PROVE  /\ Len(room) \in Nat /\ Begun \subseteq Turns
         /\ \A t \in Begun : t # NoTurn /\ room[t] \in Rooms
  BY LenProperties, ElementOfSeq, WalkerAssumption DEF HouseSound, Begun, Turns, NoTurn

(* What is on its way to the walker, by its kind.                          *)
LEMMA Kinds ==
  ASSUME NEW m \in HouseSays
  PROVE  /\ m[1] = "turn.begin" => m[2] \in Turns /\ m = <<"turn.begin", m[2]>>
         /\ m[1] = "tool.result" => m[2] \in Turns /\ m = <<"tool.result", m[2]>>
         /\ m[1] = "interrupt" => m[2] \in Rooms /\ m = <<"interrupt", m[2]>>
         /\ m[1] \in {"turn.begin", "tool.result", "interrupt"}
  BY DEF HouseSays

(* And to the house.                                                       *)
LEMMA HouseKinds ==
  ASSUME NEW m \in WalkerSays
  PROVE  m[1] \in {"tool.exec", "end"} /\ m[2] \in Turns /\ m = << m[1], m[2] >>
  BY DEF WalkerSays

(* A message of the walker's: to the house, of a turn that was begun.      *)
LEMMA HouseTold ==
  ASSUME HouseSound, NEW type \in {"tool.exec", "end"}, NEW t \in Turns, t \in Begun
  PROVE  /\ Append(toHouse, << type, t >>) \in Seq(WalkerSays)
         /\ \A i \in 1 .. Len(Append(toHouse, << type, t >>)) :
              Append(toHouse, << type, t >>)[i][2] \in Begun
         /\ ToSet(Append(toHouse, << type, t >>)) = ToSet(toHouse) \cup {<< type, t >>}
<1> DEFINE m == << type, t >>
           u == Append(toHouse, m)
<1>1. m \in WalkerSays /\ m[2] = t
  BY DEF WalkerSays
<1> HIDE DEF m
<1>2. /\ u \in Seq(WalkerSays) /\ Len(toHouse) \in Nat /\ Len(u) = Len(toHouse) + 1
      /\ \A i \in 1 .. Len(toHouse) : u[i] = toHouse[i]
      /\ u[Len(toHouse) + 1] = m
      /\ ToSet(u) = ToSet(toHouse) \cup {m}
  BY <1>1, Appended DEF HouseSound
<1> HIDE DEF u
<1>3. \A i \in 1 .. Len(u) : i \in 1 .. Len(toHouse) \/ i = Len(toHouse) + 1
  BY <1>2
<1>4. \A i \in 1 .. Len(u) : u[i][2] \in Begun
  BY <1>1, <1>2, <1>3 DEF HouseSound
<1> QED
  BY <1>2, <1>4 DEF u, m

(* A step of the walker that reads nothing and may tell the house.         *)
LEMMA WalkerActs ==
  ASSUME HouseSound, SameHeardOf, UNCHANGED <<houseState, toWalker>>,
         \A r \in Rooms : cancels'[r] # NoTurn => room[cancels'[r]] = r,
         \/ UNCHANGED toHouse
         \/ \E type \in {"tool.exec", "end"}, t \in Turns :
              t \in Begun /\ toHouse' = Append(toHouse, << type, t >>)
  PROVE  HouseSound' /\ ToSet(toHouse) \subseteq ToSet(toHouse')
<1>1. /\ toHouse' \in Seq(WalkerSays) /\ ToSet(toHouse) \subseteq ToSet(toHouse')
      /\ \A i \in 1 .. Len(toHouse') : toHouse'[i][2] \in Begun
  <2>1. CASE UNCHANGED toHouse
    BY <2>1 DEF HouseSound
  <2>2. ASSUME NEW type \in {"tool.exec", "end"}, NEW t \in Turns,
               t \in Begun, toHouse' = Append(toHouse, << type, t >>)
        PROVE  /\ toHouse' \in Seq(WalkerSays) /\ ToSet(toHouse) \subseteq ToSet(toHouse')
               /\ \A i \in 1 .. Len(toHouse') : toHouse'[i][2] \in Begun
    BY <2>2, HouseTold
  <2> QED
    BY <2>1, <2>2
<1>2. \A i \in 1 .. Len(toWalker) : toWalker[i][1] = "turn.begin" =>
        toWalker[i][2] \in Begun /\ runs'[toWalker[i][2]].at = "unseen"
  BY BegunTurns DEF HouseSound, SameHeardOf
<1>3. \A t \in Turns : runs'[t].at # "unseen" => t \in Begun
  BY DEF HouseSound, SameHeardOf
<1>4. UNCHANGED <<open, executing, room, stops, toWalker>> /\ Begun' = Begun
  BY DEF houseState, Begun
<1> QED
  BY <1>1, <1>2, <1>3, <1>4 DEF HouseSound

-----------------------------------------------------------------------------
(* Cancel functions stay their rooms'.                                     *)

(* After a slot was let go.                                                *)
LEMMA FreedIsOwn ==
  ASSUME HouseSound, NEW t, cancels' = Freed(t)
  PROVE  \A r \in Rooms : cancels'[r] # NoTurn => room[cancels'[r]] = r
  BY DEF HouseSound, Freed

(* A run that makes one more call.                                         *)
LEMMA CallingIsRun ==
  ASSUME NEW run \in Run, NEW n \in Nat
  PROVE  /\ [run EXCEPT !.at = "calling", !.calls = n] \in Run
         /\ [run EXCEPT !.at = "calling", !.calls = n].at = "calling"
         /\ [run EXCEPT !.at = "calling", !.calls = n].held = run.held
         /\ [run EXCEPT !.at = "calling", !.calls = n].byHouse = run.byHouse
  BY DEF Run

(* The walker's own steps keep both sound.                                 *)
LEMMA CallsKeeps ==
  ASSUME Sound, NEW t \in Turns, Calls(t)
  PROVE  /\ Sound' /\ UNCHANGED cancels /\ ToSet(toHouse) \subseteq ToSet(toHouse')
         /\ \A u \in Turns : runs'[u].byHouse = runs[u].byHouse /\ runs'[u].held = runs[u].held
                             /\ (Running(u) <=> Running(u)') /\ (runs[u].at = "queued" => runs'[u].at = "queued")
<1> DEFINE new == [runs[t] EXCEPT !.at = "calling", !.calls = runs[t].calls + 1]
<1>1. runs[t] \in Run /\ runs[t].at = "streaming" /\ runs[t].calls + 1 \in Nat
  BY DEF Calls, Sound, WalkerSound, Run
<1>2. new \in Run /\ new.at = "calling" /\ new.held = runs[t].held /\ new.byHouse = runs[t].byHouse
  BY <1>1, CallingIsRun
<1>3. runs' = [runs EXCEPT ![t] = new] /\ UNCHANGED <<houseState, toWalker, cancels, queue>>
  BY DEF Calls
<1> HIDE DEF new
<1>4. runs' \in [Turns -> Run] /\ runs'[t] = new /\ \A u \in Turns : u # t => runs'[u] = runs[u]
  BY <1>2, <1>3, RunReplaced DEF Sound, WalkerSound
<1>5. \A u \in Turns : /\ runs'[u].at \in {"unseen", "queued"} => runs'[u] = runs[u]
                       /\ runs[u].at \in {"unseen", "queued"} => runs'[u] = runs[u]
                       /\ runs'[u].held => Running(u)'
  BY <1>1, <1>2, <1>4 DEF Sound, WalkerSound, Running
<1>6. WalkerSound' /\ SameHeardOf
  BY <1>3, <1>4, <1>5, RunsChange DEF Sound
<1>7. t \in Begun /\ toHouse' = Append(toHouse, << "tool.exec", t >>)
  BY <1>1 DEF Sound, HouseSound, Calls
<1>8. \A r \in Rooms : cancels'[r] # NoTurn => room[cancels'[r]] = r
  BY <1>3 DEF Sound, HouseSound
<1>9. HouseSound' /\ ToSet(toHouse) \subseteq ToSet(toHouse')
  BY <1>3, <1>6, <1>7, <1>8, WalkerActs DEF Sound
<1> QED
  BY <1>1, <1>2, <1>3, <1>4, <1>6, <1>9 DEF Sound, Running

(* A watchdog that goes off.                                               *)
LEMMA WatchdogKeeps ==
  ASSUME Sound, NEW t \in Turns, Watchdog(t)
  PROVE  /\ Sound' /\ UNCHANGED <<cancels, toHouse>>
         /\ \A u \in Turns : runs'[u].byHouse = runs[u].byHouse /\ runs'[u].held = runs[u].held
                             /\ (Running(u) <=> Running(u)') /\ (runs[u].at = "queued" => runs'[u].at = "queued")
<1> DEFINE new == Cancelled(runs[t], FALSE)
<1>1. runs[t] \in Run /\ Running(t) /\ runs[t].byHouse \in BOOLEAN
  BY DEF Watchdog, Sound, WalkerSound, Run
<1>2. new \in Run /\ new.at = runs[t].at /\ new.held = runs[t].held /\ new.byHouse = runs[t].byHouse
  BY <1>1, CancelledIsRun
<1>3. runs' = [runs EXCEPT ![t] = new] /\ UNCHANGED <<houseState, toWalker, toHouse, cancels, queue>>
  BY DEF Watchdog
<1> HIDE DEF new
<1>4. runs' \in [Turns -> Run] /\ runs'[t] = new /\ \A u \in Turns : u # t => runs'[u] = runs[u]
  BY <1>2, <1>3, RunReplaced DEF Sound, WalkerSound
<1>5. \A u \in Turns : /\ runs'[u].at \in {"unseen", "queued"} => runs'[u] = runs[u]
                       /\ runs[u].at \in {"unseen", "queued"} => runs'[u] = runs[u]
                       /\ runs'[u].held => Running(u)'
  BY <1>1, <1>2, <1>4 DEF Sound, WalkerSound, Running
<1>6. WalkerSound' /\ SameHeardOf
  BY <1>3, <1>4, <1>5, RunsChange DEF Sound
<1>7. \A r \in Rooms : cancels'[r] # NoTurn => room[cancels'[r]] = r
  BY <1>3 DEF Sound, HouseSound
<1>8. HouseSound'
  BY <1>3, <1>6, <1>7, WalkerActs DEF Sound
<1> QED
  BY <1>1, <1>2, <1>3, <1>4, <1>6, <1>8 DEF Sound, Running

(* A turn that ends, well or not.                                          *)
LEMMA EndingKeeps ==
  ASSUME Sound, NEW t \in Turns, Finishes(t) \/ Aborts(t)
  PROVE  /\ Sound' /\ ToSet(toHouse) \subseteq ToSet(toHouse')
         /\ t \in Begun /\ Running(t) /\ ~runs'[t].held /\ runs'[t].at = "ended"
         /\ ~runs[t].byHouse \/ Finishes(t) => <<"end", t>> \in ToSet(toHouse')
         /\ \A u \in Turns : u # t => runs'[u] = runs[u] \/ StartedNext(u)
         /\ \/ runs[t].held /\ cancels' = Freed(t)
            \/ ~runs[t].held /\ UNCHANGED cancels /\ \A u \in Turns : u # t => runs'[u] = runs[u]
<1>1. Running(t) /\ Ends(t) /\ UNCHANGED <<houseState, toWalker>>
  BY DEF Finishes, Aborts, Running
<1>2. /\ WalkerSound' /\ SameHeardOf
      /\ runs'[t].at = "ended" /\ ~runs'[t].held
      /\ \A u \in Turns : u # t => runs'[u] = runs[u] \/ StartedNext(u)
      /\ \/ runs[t].held /\ cancels' = Freed(t)
         \/ ~runs[t].held /\ UNCHANGED cancels /\ \A u \in Turns : u # t => runs'[u] = runs[u]
  BY <1>1, EndsSound DEF Sound
<1>3. t \in Begun
  BY <1>1 DEF Running, Sound, HouseSound
<1>4. \A r \in Rooms : cancels'[r] # NoTurn => room[cancels'[r]] = r
  BY <1>2, FreedIsOwn DEF Sound, HouseSound
<1>5. UNCHANGED toHouse \/ toHouse' = Append(toHouse, << "end", t >>)
  BY DEF Finishes, Aborts
<1>6. ~runs[t].byHouse \/ Finishes(t) => toHouse' = Append(toHouse, << "end", t >>)
  BY DEF Finishes, Aborts, TellsHouse
<1>7. HouseSound' /\ ToSet(toHouse) \subseteq ToSet(toHouse')
  BY <1>1, <1>2, <1>3, <1>4, <1>5, WalkerActs DEF Sound
<1>8. ~runs[t].byHouse \/ Finishes(t) => <<"end", t>> \in ToSet(toHouse')
  BY <1>3, <1>6, HouseTold DEF Sound
<1> QED
  BY <1>1, <1>2, <1>3, <1>7, <1>8 DEF Sound

(* A local model's deadline.                                               *)
LEMMA DeadlineKeeps ==
  ASSUME Sound, NEW t \in Turns, DeadlinePasses(t)
  PROVE  /\ Sound' /\ ToSet(toHouse) \subseteq ToSet(toHouse')
         /\ t \in Begun /\ ~runs'[t].held /\ cancels' = Freed(t) /\ runs[t].held
         /\ <<"end", t>> \in ToSet(toHouse')
         /\ cancels[room[t]] = t =>
              \A u \in Turns : u # t => runs'[u] = runs[u] \/ StartedNext(u)
<1>1. runs[t].held /\ UNCHANGED <<houseState, toWalker>> /\ toHouse' = Append(toHouse, << "end", t >>)
  BY DEF DeadlinePasses
<1>2. t \in Begun /\ room[t] \in Rooms
  BY <1>1, BegunTurns DEF Sound, WalkerSound, HouseSound, Running
<1>3. /\ WalkerSound' /\ SameHeardOf /\ cancels' = Freed(t)
      /\ runs'[t].at = runs[t].at /\ ~runs'[t].held
      /\ cancels[room[t]] = t =>
           \A u \in Turns : u # t => runs'[u] = runs[u] \/ StartedNext(u)
  BY <1>2, DeadlineSound DEF Sound
<1>4. \A r \in Rooms : cancels'[r] # NoTurn => room[cancels'[r]] = r
  BY <1>3, FreedIsOwn DEF Sound
<1>5. HouseSound' /\ ToSet(toHouse) \subseteq ToSet(toHouse')
  BY <1>1, <1>2, <1>3, <1>4, WalkerActs DEF Sound
<1>6. <<"end", t>> \in ToSet(toHouse')
  BY <1>1, <1>2, HouseTold DEF Sound
<1> QED
  BY <1>1, <1>2, <1>3, <1>5, <1>6 DEF Sound

-----------------------------------------------------------------------------
(* The house's steps, and what the walker reads.                           *)

(* Something more is said to the walker that begins no turn.               *)
LEMMA WalkerTold ==
  ASSUME HouseSound, NEW m \in HouseSays, m[1] # "turn.begin", toWalker' = Append(toWalker, m)
  PROVE  /\ toWalker' \in Seq(HouseSays)
         /\ Len(toWalker) \in Nat /\ Len(toWalker') = Len(toWalker) + 1
         /\ \A i \in 1 .. Len(toWalker) : i \in 1 .. Len(toWalker') /\ toWalker'[i] = toWalker[i]
         /\ toWalker'[Len(toWalker) + 1] = m
         /\ \A i \in 1 .. Len(toWalker') : i \in 1 .. Len(toWalker) \/ toWalker'[i] = m
         /\ \A i \in 1 .. Len(toWalker') : toWalker'[i][1] = "turn.begin" =>
              i \in 1 .. Len(toWalker) /\ toWalker'[i] = toWalker[i]
         /\ ToSet(toWalker) \subseteq ToSet(toWalker')
<1>1. /\ toWalker' \in Seq(HouseSays) /\ Len(toWalker) \in Nat /\ Len(toWalker') = Len(toWalker) + 1
      /\ \A i \in 1 .. Len(toWalker) : toWalker'[i] = toWalker[i]
      /\ toWalker'[Len(toWalker) + 1] = m
      /\ ToSet(toWalker') = ToSet(toWalker) \cup {m}
  BY Appended DEF HouseSound
<1>2. \A i \in 1 .. Len(toWalker') : i \in 1 .. Len(toWalker) \/ i = Len(toWalker) + 1
  BY <1>1
<1>3. \A i \in 1 .. Len(toWalker) : i \in 1 .. Len(toWalker')
  BY <1>1
<1> QED
  BY <1>1, <1>2, <1>3

(* The house begins a turn.                                                *)
LEMMA BeginsKeeps ==
  ASSUME Sound, NEW r \in Rooms, HouseBegins(r)
  PROVE  /\ Sound' /\ UNCHANGED <<runs, cancels, queue, toHouse>>
         /\ ToSet(toWalker) \subseteq ToSet(toWalker')
         /\ \A q \in Rooms : q # r => open'[q] = open[q]
         /\ <<"turn.begin", open'[r]>> \in ToSet(toWalker')
         /\ InterruptsAreOld => InterruptsAreOld'
<1> DEFINE n == Len(room) + 1
           m == <<"turn.begin", n>>
           k == Len(toWalker)
<1>0. HouseSound /\ WalkerSound
  BY DEF Sound
<1>1. /\ room' = Append(room, r) /\ open' = [open EXCEPT ![r] = n]
      /\ toWalker' = Append(toWalker, m) /\ Len(room) < MaxTurns
      /\ UNCHANGED <<executing, toHouse, runs, cancels, queue, stops>>
  BY DEF HouseBegins
<1>2. /\ room' \in Seq(Rooms) /\ Len(room) \in Nat /\ Len(room') = n
      /\ \A i \in Begun : room'[i] = room[i]
      /\ room'[n] = r
  BY <1>0, <1>1, Appended DEF HouseSound, Begun
<1>3. n \in Turns /\ n # NoTurn /\ n \notin Begun /\ n \in Begun' /\ Begun \subseteq Begun' /\ n <= MaxTurns
  BY <1>1, <1>2, WalkerAssumption DEF Turns, NoTurn, Begun
<1>4. m \in HouseSays /\ m[1] = "turn.begin" /\ m[2] = n
  BY <1>3 DEF HouseSays
<1>5. m = <<"turn.begin", n>>
  OBVIOUS
<1> HIDE DEF m, n
<1>6. /\ toWalker' \in Seq(HouseSays) /\ k \in Nat /\ Len(toWalker') = k + 1
      /\ \A i \in 1 .. k : toWalker'[i] = toWalker[i]
      /\ toWalker'[k + 1] = m
      /\ ToSet(toWalker') = ToSet(toWalker) \cup {m}
  BY <1>0, <1>1, <1>4, Appended DEF HouseSound
<1> HIDE DEF k
<1>7. \A i \in 1 .. Len(toWalker') : i \in 1 .. k \/ i = k + 1
  BY <1>6
<1>8. \A i \in 1 .. k : toWalker[i][1] = "turn.begin" =>
        toWalker[i][2] \in Begun /\ runs[toWalker[i][2]].at = "unseen" /\ toWalker[i] # m
  BY <1>0, <1>3, <1>4 DEF HouseSound, k
<1>8a. \A i, j \in 1 .. k : toWalker[i][1] = "turn.begin" /\ toWalker[j] = toWalker[i] => i = j
  BY <1>0 DEF HouseSound, k
<1>9. runs[n].at = "unseen"
  BY <1>0, <1>3 DEF HouseSound
<1>10. \A i \in 1 .. Len(toWalker') : toWalker'[i][1] = "turn.begin" =>
         toWalker'[i][2] \in Begun' /\ runs'[toWalker'[i][2]].at = "unseen"
  BY <1>1, <1>3, <1>4, <1>6, <1>7, <1>8, <1>9
<1>11. \A i, j \in 1 .. Len(toWalker') :
         toWalker'[i][1] = "turn.begin" /\ toWalker'[j] = toWalker'[i] => i = j
  <2> SUFFICES ASSUME NEW i \in 1 .. Len(toWalker'), NEW j \in 1 .. Len(toWalker'),
                      toWalker'[i][1] = "turn.begin", toWalker'[j] = toWalker'[i]
               PROVE  i = j
    OBVIOUS
  <2>1. CASE i \in 1 .. k /\ j \in 1 .. k
    <3>1. toWalker[i][1] = "turn.begin" /\ toWalker[j] = toWalker[i]
      BY <1>6, <2>1
    <3> QED
      BY <1>8a, <2>1, <3>1
  <2>2. CASE i = k + 1 \/ j = k + 1
    BY <1>4, <1>6, <1>7, <1>8, <2>2
  <2> QED
    BY <1>7, <2>1, <2>2
<1>12. \A q \in Rooms : open'[q] = IF q = r THEN n ELSE open[q]
  BY <1>0, <1>1 DEF HouseSound
<1>13. open' \in [Rooms -> 0 .. MaxTurns] /\ executing' \subseteq Begun'
  <2>1. n \in 0 .. MaxTurns
    BY <1>3 DEF Turns
  <2> QED
    BY <1>0, <1>1, <1>3, <2>1 DEF HouseSound
<1>14. \A q \in Rooms : open'[q] # NoTurn => open'[q] \in Begun' /\ room'[open'[q]] = q
  BY <1>0, <1>2, <1>3, <1>12 DEF HouseSound
<1>15. \A q \in Rooms : cancels'[q] # NoTurn => room'[cancels'[q]] = q
  <2> SUFFICES ASSUME NEW q \in Rooms, cancels[q] # NoTurn PROVE room'[cancels[q]] = q
    BY <1>1
  <2>1. cancels[q] \in Turns
    BY <1>0, WalkerAssumption DEF WalkerSound, Turns, NoTurn
  <2>2. cancels[q] \in Begun /\ room[cancels[q]] = q
    BY <1>0, <2>1 DEF WalkerSound, HouseSound
  <2> QED
    BY <1>2, <2>2
<1>16. /\ \A i \in 1 .. Len(toHouse') : toHouse'[i][2] \in Begun'
       /\ \A t \in Turns : runs'[t].at # "unseen" => t \in Begun'
       /\ toHouse' \in Seq(WalkerSays) /\ stops' \in Nat
  BY <1>0, <1>1, <1>3 DEF HouseSound
<1>17. HouseSound'
  BY <1>2, <1>3, <1>6, <1>10, <1>11, <1>13, <1>14, <1>15, <1>16 DEF HouseSound
<1>18. WalkerSound'
  BY <1>0, <1>1 DEF WalkerSound, Running
<1>19. ASSUME InterruptsAreOld PROVE InterruptsAreOld'
  <2> SUFFICES ASSUME NEW q \in Rooms, NEW i \in 1 .. Len(toWalker'),
                      toWalker'[i] = <<"interrupt", q>>, open'[q] # NoTurn
               PROVE  \E j \in 1 .. Len(toWalker') : j > i /\ toWalker'[j] = <<"turn.begin", open'[q]>>
    BY DEF InterruptsAreOld
  <2>1. i \in 1 .. k /\ toWalker[i] = <<"interrupt", q>>
    BY <1>4, <1>6, <1>7
  <2>2. CASE q = r
    <3>1. k + 1 \in 1 .. Len(toWalker') /\ k + 1 > i
      BY <1>6, <2>1
    <3> QED
      BY <1>5, <1>6, <1>12, <2>2, <3>1
  <2>3. CASE q # r
    <3>1. PICK j \in 1 .. k : j > i /\ toWalker[j] = <<"turn.begin", open[q]>>
      BY <1>12, <1>19, <2>1, <2>3 DEF InterruptsAreOld, k
    <3>2. j \in 1 .. Len(toWalker')
      BY <1>6
    <3> QED
      BY <1>6, <1>12, <2>3, <3>1, <3>2
  <2> QED
    BY <2>2, <2>3
<1>20. <<"turn.begin", open'[r]>> \in ToSet(toWalker')
  BY <1>5, <1>6, <1>12
<1> QED
  BY <1>1, <1>6, <1>12, <1>17, <1>18, <1>19, <1>20 DEF Sound

(* The house stops a room's turn.                                          *)
LEMMA StopsKeeps ==
  ASSUME Sound, NEW r \in Rooms, HouseStops(r)
  PROVE  /\ Sound' /\ UNCHANGED <<runs, cancels, queue, room, toHouse>>
         /\ ToSet(toWalker) \subseteq ToSet(toWalker')
         /\ \A q \in Rooms : open'[q] # NoTurn => open'[q] = open[q]
         /\ InterruptsAreOld => InterruptsAreOld'
<1> DEFINE m == <<"interrupt", r>>
<1>0. HouseSound /\ WalkerSound
  BY DEF Sound
<1>1. /\ toWalker' = Append(toWalker, m) /\ open' = [open EXCEPT ![r] = NoTurn]
      /\ stops' = stops + 1 /\ UNCHANGED <<executing, room, toHouse, runs, cancels, queue>>
  BY DEF HouseStops
<1>2. m \in HouseSays /\ m[1] # "turn.begin"
  BY DEF HouseSays
<1>3. \A q \in Rooms : m = <<"interrupt", q>> => q = r
  OBVIOUS
<1> HIDE DEF m
<1>4. /\ toWalker' \in Seq(HouseSays)
      /\ Len(toWalker) \in Nat /\ Len(toWalker') = Len(toWalker) + 1
      /\ \A i \in 1 .. Len(toWalker) : i \in 1 .. Len(toWalker') /\ toWalker'[i] = toWalker[i]
      /\ \A i \in 1 .. Len(toWalker') : i \in 1 .. Len(toWalker) \/ toWalker'[i] = m
      /\ \A i \in 1 .. Len(toWalker') : toWalker'[i][1] = "turn.begin" =>
           i \in 1 .. Len(toWalker) /\ toWalker'[i] = toWalker[i]
      /\ ToSet(toWalker) \subseteq ToSet(toWalker')
  BY <1>0, <1>1, <1>2, WalkerTold
<1>5. \A q \in Rooms : open'[q] = IF q = r THEN NoTurn ELSE open[q]
  BY <1>0, <1>1 DEF HouseSound
<1>6. open' \in [Rooms -> 0 .. MaxTurns] /\ stops' \in Nat
  BY <1>0, <1>1, WalkerAssumption DEF HouseSound, NoTurn
<1>7. Begun' = Begun
  BY <1>1 DEF Begun
<1>8. /\ \A i \in 1 .. Len(toWalker') : toWalker'[i][1] = "turn.begin" =>
           toWalker'[i][2] \in Begun' /\ runs'[toWalker'[i][2]].at = "unseen"
      /\ \A i, j \in 1 .. Len(toWalker') :
           toWalker'[i][1] = "turn.begin" /\ toWalker'[j] = toWalker'[i] => i = j
  BY <1>0, <1>1, <1>4, <1>7 DEF HouseSound
<1>9. HouseSound'
  BY <1>0, <1>1, <1>4, <1>5, <1>6, <1>7, <1>8 DEF HouseSound
<1>10. WalkerSound'
  BY <1>0, <1>1 DEF WalkerSound, Running
<1>11. ASSUME InterruptsAreOld PROVE InterruptsAreOld'
  <2> SUFFICES ASSUME NEW q \in Rooms, NEW i \in 1 .. Len(toWalker'),
                      toWalker'[i] = <<"interrupt", q>>, open'[q] # NoTurn
               PROVE  \E j \in 1 .. Len(toWalker') : j > i /\ toWalker'[j] = <<"turn.begin", open'[q]>>
    BY DEF InterruptsAreOld
  <2>1. q # r /\ open'[q] = open[q]
    BY <1>5
  <2>2. i \in 1 .. Len(toWalker) /\ toWalker[i] = <<"interrupt", q>>
    BY <1>3, <1>4, <2>1
  <2>3. PICK j \in 1 .. Len(toWalker) : j > i /\ toWalker[j] = <<"turn.begin", open[q]>>
    BY <1>11, <2>1, <2>2 DEF InterruptsAreOld
  <2> QED
    BY <1>4, <2>1, <2>3
<1> QED
  BY <1>1, <1>4, <1>5, <1>9, <1>10, <1>11 DEF Sound

(* The house reads what the walker said.                                   *)
LEMMA HouseReadsKeeps ==
  ASSUME Sound, HouseReads
  PROVE  /\ Sound' /\ UNCHANGED <<runs, cancels, queue, room, toWalker>>
         /\ \A q \in Rooms : open'[q] # NoTurn => open'[q] = open[q]
         /\ \A q \in Rooms : open'[q] # NoTurn /\ <<"end", open[q]>> \in ToSet(toHouse) =>
              <<"end", open[q]>> \in ToSet(toHouse')
         /\ InterruptsAreOld => InterruptsAreOld'
<1> DEFINE m == Head(toHouse)
           t == m[2]
<1>0. HouseSound /\ WalkerSound
  BY DEF Sound
<1>1. /\ toHouse # <<>> /\ toHouse' = Tail(toHouse)
      /\ UNCHANGED <<room, toWalker, runs, cancels, queue, stops>>
      /\ executing' = IF open[room[t]] = t /\ m[1] = "tool.exec" THEN executing \cup {t} ELSE executing
      /\ open' = IF open[room[t]] = t /\ m[1] = "end" THEN [open EXCEPT ![room[t]] = NoTurn] ELSE open
  BY DEF HouseReads
<1>2. /\ m \in WalkerSays /\ m = toHouse[1] /\ 1 \in 1 .. Len(toHouse)
      /\ toHouse' \in Seq(WalkerSays)
      /\ \A i \in 1 .. Len(toHouse') : i + 1 \in 1 .. Len(toHouse) /\ toHouse'[i] = toHouse[i + 1]
      /\ ToSet(toHouse) = ToSet(toHouse') \cup {m}
  BY <1>0, <1>1, HeadAndTail DEF HouseSound
<1>3. t \in Begun /\ room[t] \in Rooms /\ t # NoTurn
  BY <1>0, <1>2, BegunTurns DEF HouseSound
<1>3a. m = <<m[1], t>>
  BY <1>2, HouseKinds
<1> HIDE DEF m, t
<1>4. \A i \in 1 .. Len(toHouse') : toHouse'[i][2] \in Begun
  BY <1>0, <1>2 DEF HouseSound
<1>5. executing' \subseteq Begun /\ Begun' = Begun
  BY <1>0, <1>1, <1>3 DEF HouseSound, Begun
<1>6. /\ open' \in [Rooms -> 0 .. MaxTurns]
      /\ \A q \in Rooms : open'[q] # NoTurn => open'[q] = open[q]
  <2>1. open \in [Rooms -> 0 .. MaxTurns] /\ NoTurn \in 0 .. MaxTurns
    BY <1>0, WalkerAssumption DEF HouseSound, NoTurn
  <2> QED
    BY <1>1, <1>3, <2>1
<1>7. HouseSound'
  <2>1. \A q \in Rooms : open'[q] # NoTurn => open'[q] \in Begun' /\ room'[open'[q]] = q
    BY <1>0, <1>1, <1>5, <1>6 DEF HouseSound
  <2> QED
    BY <1>0, <1>1, <1>2, <1>4, <1>5, <1>6, <2>1 DEF HouseSound
<1>8. WalkerSound'
  BY <1>0, <1>1 DEF WalkerSound, Running
<1>9. ASSUME NEW q \in Rooms, open'[q] # NoTurn, <<"end", open[q]>> \in ToSet(toHouse)
      PROVE  <<"end", open[q]>> \in ToSet(toHouse')
  <2> SUFFICES ASSUME m = <<"end", open[q]>> PROVE FALSE
    BY <1>2, <1>9
  <2>1. m[1] = "end" /\ t = open[q]
    BY DEF t
  <2>2. room[t] = q
    BY <1>0, <1>3, <2>1 DEF HouseSound
  <2>3. open' = [open EXCEPT ![q] = NoTurn]
    BY <1>1, <2>1, <2>2
  <2>4. open'[q] = NoTurn
    BY <1>0, <2>3 DEF HouseSound
  <2> QED
    BY <1>9, <2>4
<1>10. InterruptsAreOld => InterruptsAreOld'
  BY <1>1, <1>6 DEF InterruptsAreOld
<1> QED
  BY <1>1, <1>6, <1>7, <1>8, <1>9, <1>10 DEF Sound

(* A tool's result is sent.                                                *)
LEMMA ToolKeeps ==
  ASSUME Sound, NEW t \in Turns, ToolFinishes(t)
  PROVE  /\ Sound' /\ UNCHANGED <<open, runs, cancels, queue, room, toHouse>>
         /\ ToSet(toWalker) \subseteq ToSet(toWalker')
         /\ InterruptsAreOld => InterruptsAreOld'
<1> DEFINE m == <<"tool.result", t>>
<1>0. HouseSound /\ WalkerSound
  BY DEF Sound
<1>1. /\ toWalker' = Append(toWalker, m) /\ executing' = executing \ {t}
      /\ UNCHANGED <<open, room, toHouse, runs, cancels, queue, stops>>
  BY DEF ToolFinishes
<1>2. m \in HouseSays /\ m[1] # "turn.begin" /\ m[1] # "interrupt"
  BY DEF HouseSays
<1> HIDE DEF m
<1>4. /\ toWalker' \in Seq(HouseSays)
      /\ \A i \in 1 .. Len(toWalker) : i \in 1 .. Len(toWalker') /\ toWalker'[i] = toWalker[i]
      /\ \A i \in 1 .. Len(toWalker') : i \in 1 .. Len(toWalker) \/ toWalker'[i] = m
      /\ \A i \in 1 .. Len(toWalker') : toWalker'[i][1] = "turn.begin" =>
           i \in 1 .. Len(toWalker) /\ toWalker'[i] = toWalker[i]
      /\ ToSet(toWalker) \subseteq ToSet(toWalker')
  BY <1>0, <1>1, <1>2, WalkerTold
<1>7. Begun' = Begun
  BY <1>1 DEF Begun
<1>8. /\ \A i \in 1 .. Len(toWalker') : toWalker'[i][1] = "turn.begin" =>
           toWalker'[i][2] \in Begun' /\ runs'[toWalker'[i][2]].at = "unseen"
      /\ \A i, j \in 1 .. Len(toWalker') :
           toWalker'[i][1] = "turn.begin" /\ toWalker'[j] = toWalker'[i] => i = j
  <2>1. \A i \in 1 .. Len(toWalker) : toWalker[i][1] = "turn.begin" =>
          toWalker[i][2] \in Begun' /\ runs'[toWalker[i][2]].at = "unseen"
    BY <1>0, <1>1, <1>7 DEF HouseSound
  <2>2. \A i, j \in 1 .. Len(toWalker) :
          toWalker[i][1] = "turn.begin" /\ toWalker[j] = toWalker[i] => i = j
    BY <1>0 DEF HouseSound
  <2> QED
    BY <1>4, <2>1, <2>2
<1>9. HouseSound'
  <2>1. executing' \subseteq Begun'
    BY <1>0, <1>1, <1>7 DEF HouseSound
  <2> QED
    BY <1>0, <1>1, <1>4, <1>7, <1>8, <2>1 DEF HouseSound
<1>10. WalkerSound'
  BY <1>0, <1>1 DEF WalkerSound, Running
<1>11. ASSUME InterruptsAreOld PROVE InterruptsAreOld'
  <2> SUFFICES ASSUME NEW q \in Rooms, NEW i \in 1 .. Len(toWalker'),
                      toWalker'[i] = <<"interrupt", q>>, open'[q] # NoTurn
               PROVE  \E j \in 1 .. Len(toWalker') : j > i /\ toWalker'[j] = <<"turn.begin", open'[q]>>
    BY DEF InterruptsAreOld
  <2>2. i \in 1 .. Len(toWalker) /\ toWalker[i] = <<"interrupt", q>>
    BY <1>2, <1>4
  <2>3. PICK j \in 1 .. Len(toWalker) : j > i /\ toWalker[j] = <<"turn.begin", open[q]>>
    BY <1>1, <1>11, <2>2 DEF InterruptsAreOld
  <2> QED
    BY <1>1, <1>4, <2>3
<1> QED
  BY <1>1, <1>4, <1>9, <1>10, <1>11 DEF Sound

(* The walker reads a message: what it begins is queued or runs, and only  *)
(* an interrupt of its room silences a turn it has.                        *)
LEMMA WalkerReadsKeeps ==
  ASSUME Sound, WalkerReads
  PROVE  /\ Sound' /\ UNCHANGED <<houseState, toHouse>>
         /\ InterruptsAreOld => InterruptsAreOld'
         /\ \A t \in Turns : <<"turn.begin", t>> \in ToSet(toWalker) =>
              \/ <<"turn.begin", t>> \in ToSet(toWalker')
              \/ runs'[t].at = "queued"
              \/ Running(t)' /\ ~runs'[t].byHouse
         /\ \A t \in Turns : runs[t].at \in {"queued", "streaming", "calling"} =>
              \/ runs'[t] = runs[t]
              \/ Running(t) /\ Running(t)' /\ runs'[t].byHouse = runs[t].byHouse
              \/ /\ <<"interrupt", room[t]>> = Head(toWalker)
                 /\ runs[t].at = "queued" \/ t = cancels[room[t]]
<1> DEFINE m == Head(toWalker)
<1>0. HouseSound /\ WalkerSound
  BY DEF Sound
<1>1. /\ toWalker # <<>> /\ toWalker' = Tail(toWalker) /\ UNCHANGED <<houseState, toHouse>>
      /\ \/ m[1] = "turn.begin" /\ Admits(m[2])
         \/ m[1] = "interrupt" /\ Interrupts(m[2])
         \/ m[1] = "tool.result" /\ Settles(m[2])
  BY DEF WalkerReads
<1>2. UNCHANGED <<open, executing, room, stops, toHouse>> /\ Begun' = Begun
  BY <1>1 DEF houseState, Begun
<1>3. /\ m \in HouseSays /\ m = toWalker[1] /\ 1 \in 1 .. Len(toWalker)
      /\ toWalker' \in Seq(HouseSays) /\ Len(toWalker) \in Nat /\ Len(toWalker') = Len(toWalker) - 1
      /\ \A i \in 1 .. Len(toWalker') : i + 1 \in 1 .. Len(toWalker) /\ toWalker'[i] = toWalker[i + 1]
      /\ ToSet(toWalker) = ToSet(toWalker') \cup {m}
  BY <1>0, <1>1, HeadAndTail DEF HouseSound
<1>4. /\ m[1] = "turn.begin" => m[2] \in Turns /\ m = <<"turn.begin", m[2]>>
      /\ m[1] = "tool.result" => m[2] \in Turns /\ m = <<"tool.result", m[2]>>
      /\ m[1] = "interrupt" => m[2] \in Rooms /\ m = <<"interrupt", m[2]>>
  BY <1>3, Kinds
<1> HIDE DEF m
<1>5. \A i, j \in 1 .. Len(toWalker') :
        toWalker'[i][1] = "turn.begin" /\ toWalker'[j] = toWalker'[i] => i = j
  <2> SUFFICES ASSUME NEW i \in 1 .. Len(toWalker'), NEW j \in 1 .. Len(toWalker'),
                      toWalker'[i][1] = "turn.begin", toWalker'[j] = toWalker'[i]
               PROVE  i = j
    OBVIOUS
  <2>1. /\ i + 1 \in 1 .. Len(toWalker) /\ j + 1 \in 1 .. Len(toWalker)
        /\ toWalker[i + 1][1] = "turn.begin" /\ toWalker[j + 1] = toWalker[i + 1]
    BY <1>3
  <2>2. i + 1 = j + 1
    BY <1>0, <2>1 DEF HouseSound
  <2> QED
    BY <2>2
<1>6. ASSUME InterruptsAreOld PROVE InterruptsAreOld'
  <2> SUFFICES ASSUME NEW q \in Rooms, NEW i \in 1 .. Len(toWalker'),
                      toWalker'[i] = <<"interrupt", q>>, open'[q] # NoTurn
               PROVE  \E j \in 1 .. Len(toWalker') : j > i /\ toWalker'[j] = <<"turn.begin", open'[q]>>
    BY DEF InterruptsAreOld
  <2>1. i + 1 \in 1 .. Len(toWalker) /\ toWalker[i + 1] = <<"interrupt", q>>
    BY <1>3
  <2>2. PICK j \in 1 .. Len(toWalker) : j > i + 1 /\ toWalker[j] = <<"turn.begin", open[q]>>
    BY <1>2, <1>6, <2>1 DEF InterruptsAreOld
  <2>3. j - 1 \in 1 .. Len(toWalker') /\ j - 1 > i
    BY <1>3, <2>2
  <2>4. toWalker'[j - 1] = toWalker[j]
    <3>1. (j - 1) + 1 = j
      OBVIOUS
    <3> QED
      BY <1>3, <2>3, <3>1
  <2> QED
    BY <1>2, <2>2, <2>3, <2>4
<1>7. \A i \in 1 .. Len(toWalker') : toWalker'[i][1] = "turn.begin" =>
        /\ toWalker'[i][2] \in Begun /\ toWalker'[i][2] \in Turns
        /\ runs[toWalker'[i][2]].at = "unseen"
        /\ m[1] = "turn.begin" => toWalker'[i][2] # m[2]
  <2> SUFFICES ASSUME NEW i \in 1 .. Len(toWalker'), toWalker'[i][1] = "turn.begin"
               PROVE  /\ toWalker'[i][2] \in Begun /\ toWalker'[i][2] \in Turns
                      /\ runs[toWalker'[i][2]].at = "unseen"
                      /\ m[1] = "turn.begin" => toWalker'[i][2] # m[2]
    OBVIOUS
  <2>1. i + 1 \in 1 .. Len(toWalker) /\ toWalker'[i] = toWalker[i + 1] /\ i + 1 # 1
    BY <1>3
  <2>2. toWalker[i + 1] \in HouseSays
    BY <1>0, <2>1, ElementOfSeq DEF HouseSound
  <2>3. toWalker'[i] = <<"turn.begin", toWalker'[i][2]>>
    BY <2>1, <2>2, Kinds
  <2>4. toWalker[1] # toWalker[i + 1]
    BY <1>0, <1>3, <2>1 DEF HouseSound
  <2>5. toWalker'[i][2] \in Begun /\ runs[toWalker'[i][2]].at = "unseen"
    BY <1>0, <2>1 DEF HouseSound
  <2> QED
    BY <1>0, <1>3, <1>4, <2>1, <2>3, <2>4, <2>5, BegunTurns
<1> DEFINE Kept ==
      /\ WalkerSound'
      /\ \A t \in Turns : runs[t].at = "unseen" /\ ~(m[1] = "turn.begin" /\ t = m[2]) =>
           runs'[t].at = "unseen"
      /\ \A t \in Turns : runs'[t].at # "unseen" => t \in Begun
      /\ \A r \in Rooms : cancels'[r] # NoTurn => room[cancels'[r]] = r
<1>8. ASSUME Kept PROVE Sound'
  <2>1. \A i \in 1 .. Len(toWalker') : toWalker'[i][1] = "turn.begin" =>
          toWalker'[i][2] \in Begun' /\ runs'[toWalker'[i][2]].at = "unseen"
    BY <1>2, <1>7, <1>8
  <2>2. HouseSound'
    BY <1>0, <1>2, <1>3, <1>5, <1>8, <2>1 DEF HouseSound
  <2> QED
    BY <1>8, <2>2 DEF Sound
<1> DEFINE Rest(t) ==
      \/ runs'[t] = runs[t]
      \/ Running(t) /\ Running(t)' /\ runs'[t].byHouse = runs[t].byHouse
      \/ /\ <<"interrupt", room[t]>> = m
         /\ runs[t].at = "queued" \/ t = cancels[room[t]]
<1>9. CASE m[1] = "turn.begin" /\ Admits(m[2])
  <2>0. PICK t \in Turns : t = m[2]
    BY <1>4, <1>9
  <2>1. t \in Begun /\ runs[t].at = "unseen" /\ room[t] \in Rooms /\ m = <<"turn.begin", t>>
    BY <1>0, <1>3, <1>4, <1>9, <2>0, BegunTurns DEF HouseSound
  <2>2. Admits(t)
    BY <1>9, <2>0
  <2>3. /\ WalkerSound' /\ \A u \in Turns : u # t => runs'[u] = runs[u]
        /\ \/ AtCap /\ runs'[t] = [runs[t] EXCEPT !.at = "queued"] /\ UNCHANGED cancels
           \/ ~AtCap /\ runs'[t] = Started(t) /\ cancels' = [cancels EXCEPT ![room[t]] = t]
    BY <1>0, <2>1, <2>2, AdmitsSound
  <2>4. runs'[t].at = "queued" \/ (Running(t)' /\ ~runs'[t].byHouse)
    <3>1. runs[t] \in Run
      BY <1>0, <2>1 DEF WalkerSound
    <3>2. [runs[t] EXCEPT !.at = "queued"].at = "queued"
      BY <3>1, FurtherIsRun
    <3>3. Started(t).at = "streaming" /\ ~Started(t).byHouse
      BY StartedIsRun
    <3> QED
      BY <2>3, <3>2, <3>3 DEF Running
  <2>5. \A r \in Rooms : cancels'[r] # NoTurn => room[cancels'[r]] = r
    <3>1. cancels \in [Rooms -> 0 .. MaxTurns] /\ \A r \in Rooms : cancels[r] # NoTurn => room[cancels[r]] = r
      BY <1>0 DEF HouseSound, WalkerSound
    <3> QED
      BY <2>1, <2>3, <3>1
  <2>6. Kept
    <3>1. \A u \in Turns : runs[u].at # "unseen" => u \in Begun
      BY <1>0 DEF HouseSound
    <3> QED
      BY <2>0, <2>1, <2>3, <2>5, <3>1
  <2>7. \A u \in Turns : runs[u].at \in {"queued", "streaming", "calling"} => runs'[u] = runs[u]
    BY <2>1, <2>3
  <2>8. \A u \in Turns : m = <<"turn.begin", u>> => u = t
    BY <2>1
  <2>9. \A u \in Turns : <<"turn.begin", u>> \in ToSet(toWalker) =>
              \/ <<"turn.begin", u>> \in ToSet(toWalker')
              \/ runs'[u].at = "queued"
              \/ Running(u)' /\ ~runs'[u].byHouse
    <3>1. ToSet(toWalker) = ToSet(toWalker') \cup {m}
      BY <1>3
    <3> QED
      BY <2>4, <2>8, <3>1
  <2> QED
    BY <1>1, <1>6, <1>8, <2>6, <2>7, <2>9
<1>10. CASE m[1] = "interrupt" /\ Interrupts(m[2])
  <2> DEFINE r == m[2]
  <2>1. r \in Rooms /\ m = <<"interrupt", r>> /\ Interrupts(r)
    BY <1>4, <1>10
  <2> HIDE DEF r
  <2>2. /\ WalkerSound' /\ SameHeardOf /\ UNCHANGED cancels
        /\ \A t \in Turns :
             \/ runs'[t] = runs[t]
             \/ t = cancels[r] /\ runs'[t] = Cancelled(runs[t], TRUE)
             \/ runs[t].at = "queued" /\ room[t] = r /\ runs'[t] = [runs[t] EXCEPT !.at = "ended"]
    BY <1>0, <2>1, InterruptsSound
  <2>3. Kept
    BY <1>0, <2>2 DEF HouseSound, SameHeardOf
  <2>4. \A t \in Turns : t = cancels[r] => t # NoTurn
    BY DEF Turns, NoTurn
  <2>5. \A t \in Turns : t = cancels[r] => room[t] = r
    BY <1>0, <2>1, <2>4 DEF HouseSound
  <2>6. \A t \in Turns : Rest(t)
    BY <2>1, <2>2, <2>5
  <2>7. \A t \in Turns : <<"turn.begin", t>> \in ToSet(toWalker) => <<"turn.begin", t>> \in ToSet(toWalker')
    BY <1>3, <2>1
  <2> QED
    BY <1>1, <1>6, <1>8, <2>3, <2>6, <2>7 DEF m
<1>11. CASE m[1] = "tool.result" /\ Settles(m[2])
  <2>1. /\ WalkerSound' /\ SameHeardOf /\ UNCHANGED cancels
        /\ \A u \in Turns : \/ runs'[u] = runs[u]
                            \/ runs[u].at = "calling" /\ runs'[u] = [runs[u] EXCEPT !.at = "streaming"]
    BY <1>0, <1>4, <1>11, SettlesSound
  <2>2. Kept
    BY <1>0, <2>1 DEF HouseSound, SameHeardOf
  <2>3. \A u \in Turns : runs[u] \in Run
    BY <1>0 DEF WalkerSound
  <2>4. \A u \in Turns : \/ runs'[u] = runs[u]
                         \/ Running(u) /\ Running(u)' /\ runs'[u].byHouse = runs[u].byHouse
    <3>1. \A u \in Turns : /\ [runs[u] EXCEPT !.at = "streaming"].at = "streaming"
                           /\ [runs[u] EXCEPT !.at = "streaming"].byHouse = runs[u].byHouse
      BY <2>3, FurtherIsRun
    <3> QED
      BY <2>1, <3>1 DEF Running
  <2>5. \A t \in Turns : <<"turn.begin", t>> \in ToSet(toWalker) => <<"turn.begin", t>> \in ToSet(toWalker')
    BY <1>3, <1>4, <1>11
  <2> QED
    BY <1>1, <1>6, <1>8, <2>2, <2>4, <2>5
<1> QED
  BY <1>1, <1>9, <1>10, <1>11

-----------------------------------------------------------------------------
(* Every step keeps what is sound, and what is heard of, sound.            *)

(* Nothing has happened yet.                                               *)
LEMMA InitSound == Init => Sound /\ InterruptsAreOld /\ OpenTurnsAreHeardOf
<1> SUFFICES ASSUME Init PROVE Sound /\ InterruptsAreOld /\ OpenTurnsAreHeardOf
  OBVIOUS
<1>1. Unseen \in Run /\ Unseen.at = "unseen" /\ ~Unseen.held /\ ~Unseen.byHouse
  BY DEF Unseen, Run
<1>2. \A S : <<>> \in Seq(S) /\ Len(<<>>) = 0 /\ ToSet(<<>>) = {} /\ IsInjective(<<>>)
  BY EmptySeq DEF ToSet, IsInjective
<1>3. NoTurn \in 0 .. MaxTurns
  BY WalkerAssumption DEF NoTurn
<1>4. WalkerSound
  BY <1>1, <1>2, <1>3 DEF Init, WalkerSound
<1>5. \A i : i \notin 1 .. 0
  OBVIOUS
<1>6. HouseSound
  BY <1>1, <1>2, <1>3, <1>5, WalkerAssumption DEF Init, HouseSound
<1> QED
  BY <1>2, <1>4, <1>5, <1>6 DEF Init, Sound, InterruptsAreOld, OpenTurnsAreHeardOf

(* Every step, of either, keeps both sound.                                *)
LEMMA SoundKept == Sound /\ [Next]_vars => Sound'
<1> SUFFICES ASSUME Sound, [Next]_vars PROVE Sound'
  OBVIOUS
<1>1. ASSUME NEW r \in Rooms, HouseBegins(r) \/ HouseStops(r) PROVE Sound'
  BY <1>1, BeginsKeeps, StopsKeeps
<1>2. ASSUME HouseReads \/ WalkerReads PROVE Sound'
  BY <1>2, HouseReadsKeeps, WalkerReadsKeeps
<1>3. ASSUME NEW t \in Turns, ToolFinishes(t) \/ Goes(t) \/ Watchdog(t) \/ DeadlinePasses(t)
      PROVE  Sound'
  BY <1>3, ToolKeeps, CallsKeeps, EndingKeeps, WatchdogKeeps, DeadlineKeeps DEF Goes
<1>4. CASE UNCHANGED vars
  <2>1. WalkerSound'
    BY <1>4 DEF vars, Sound, WalkerSound, Running
  <2>2. HouseSound'
    BY <1>4 DEF vars, Sound, HouseSound, Begun
  <2> QED
    BY <2>1, <2>2 DEF Sound
<1> QED
  BY <1>1, <1>2, <1>3, <1>4 DEF Next

(* What is sound is of its types.                                          *)
LEMMA SoundTypes == Sound => TypeOK
<1> SUFFICES ASSUME Sound PROVE TypeOK
  OBVIOUS
<1>1. /\ open \in [Rooms -> 0 .. MaxTurns] /\ executing \subseteq Begun
      /\ room \in Seq(Rooms) /\ Len(room) <= MaxTurns
      /\ toWalker \in Seq(HouseSays) /\ toHouse \in Seq(WalkerSays) /\ stops \in Nat
      /\ Begun \subseteq Turns
  BY BegunTurns DEF Sound, HouseSound
<1>2. /\ runs \in [Turns -> Run] /\ cancels \in [Rooms -> 0 .. MaxTurns]
      /\ queue \in Seq(Turns) /\ IsInjective(queue)
      /\ ToSet(queue) = {t \in Turns : runs[t].at = "queued"}
  BY DEF Sound, WalkerSound
<1> QED
  BY <1>1, <1>2 DEF TypeOK, HouseSays, WalkerSays

(* What the house and the walker hold, and what is on its way between      *)
(* them, is of its types, for any cap and any model.                       *)
THEOREM TypeCorrect == Spec => []TypeOK
<1>1. Init => Sound
  BY InitSound
<1> QED
  BY <1>1, SoundKept, SoundTypes, PTL DEF Spec

-----------------------------------------------------------------------------
(* One turn at a time: the fleet's default.                                *)

(* A turn that holds the slot is the one its room's cancel function stops, *)
(* each cancel function is of such a turn, and there is at most one.       *)
OneHeld ==
  /\ \A t \in Turns : runs[t].held => cancels[room[t]] = t
  /\ \A r \in Rooms : cancels[r] # NoTurn => runs[cancels[r]].held
  /\ \A q, r \in InFlight : q = r

(* With one slot, a turn is held back exactly while another has it.        *)
LEMMA OneSlot ==
  ASSUME Cap = 1, OneHeld
  PROVE  AtCap <=> \E r \in Rooms : cancels[r] # NoTurn
<1>1. InFlight = {} => Cardinality(InFlight) = 0
  BY FS_EmptySet
<1>2. \A r \in InFlight : Cardinality(InFlight) = 1
  <2> SUFFICES ASSUME NEW r \in InFlight PROVE Cardinality(InFlight) = 1
    OBVIOUS
  <2>1. InFlight = {r}
    BY DEF OneHeld
  <2>2. Cardinality({r}) = 1
    BY FS_Singleton
  <2> QED
    BY <2>1, <2>2, Zenon
<1>3. AtCap <=> InFlight # {}
  BY <1>1, <1>2 DEF AtCap
<1> QED
  BY <1>3 DEF InFlight

(* The slot is let go: whoever was first in the queue has it, if anyone.   *)
LEMMA SlotPasses ==
  ASSUME Sound, OneHeld, NEW t \in Turns, runs[t].held, ~runs'[t].held, WalkerSound',
         UNCHANGED room, cancels' = Freed(t),
         \A u \in Turns : u # t => runs'[u] = runs[u] \/ StartedNext(u)
  PROVE  OneHeld'
<1>1. cancels[room[t]] = t /\ t \in Begun /\ room[t] \in Rooms /\ t # NoTurn
  BY BegunTurns DEF OneHeld, Sound, WalkerSound, HouseSound, Running
<1>2. \A r \in Rooms : cancels[r] # NoTurn => r = room[t]
  BY <1>1 DEF OneHeld, InFlight
<1>3. \A u \in Turns : u # t => ~runs[u].held
  <2> SUFFICES ASSUME NEW u \in Turns, u # t, runs[u].held PROVE FALSE
    OBVIOUS
  <2>1. cancels[room[u]] = u /\ room[u] \in Rooms /\ u # NoTurn
    BY BegunTurns DEF OneHeld, Sound, WalkerSound, HouseSound, Running
  <2> QED
    BY <1>1, <1>2, <2>1
<1>4. \A r \in Rooms : cancels'[r] = IF queue # <<>> /\ room[Head(queue)] = r THEN Head(queue) ELSE NoTurn
  BY <1>2 DEF Freed
<1>5. \A u \in Turns : runs'[u].held => StartedNext(u)
  BY <1>3
<1>6. CASE queue = <<>>
  <2>1. \A r \in Rooms : cancels'[r] = NoTurn
    BY <1>4, <1>6
  <2>2. \A u \in Turns : ~runs'[u].held
    BY <1>5, <1>6 DEF StartedNext
  <2> QED
    BY <2>1, <2>2 DEF OneHeld, InFlight
<1>7. CASE queue # <<>>
  <2>1. PICK h \in Turns : h = Head(queue) /\ runs[h].at = "queued"
    BY <1>7, HeadIsQueued DEF Sound
  <2>2. room[h] \in Rooms /\ h # NoTurn /\ h # t
    BY <2>1, BegunTurns DEF Sound, WalkerSound, HouseSound, Running
  <2>3. \A r \in Rooms : cancels'[r] = IF r = room[h] THEN h ELSE NoTurn
    BY <1>4, <1>7, <2>1
  <2>4. cancels'[room[h]] = h
    BY <2>2, <2>3
  <2>5. runs'[h].at # "queued"
    BY <2>2, <2>4 DEF WalkerSound
  <2>6. runs'[h].held
    BY <2>1, <2>2, <2>5, StartedIsRun DEF StartedNext
  <2>7. \A u \in Turns : runs'[u].held => u = h
    BY <1>5, <2>1 DEF StartedNext
  <2>8. \A r \in Rooms : cancels'[r] # NoTurn => r = room[h] /\ cancels'[r] = h
    BY <2>3
  <2>9. \A q, r \in InFlight' : q = r
    BY <2>8 DEF InFlight
  <2> QED
    BY <2>4, <2>6, <2>7, <2>8, <2>9 DEF OneHeld
<1> QED
  BY <1>6, <1>7

(* Steps that start no turn and let none go leave the slot as it was.      *)
LEMMA SlotStays ==
  ASSUME Sound, OneHeld, UNCHANGED cancels, \A u \in Begun : room'[u] = room[u],
         \A u \in Turns : runs'[u].held = runs[u].held
  PROVE  OneHeld'
<1>1. \A u \in Turns : runs[u].held => u \in Begun
  BY DEF Sound, WalkerSound, HouseSound, Running
<1>2. \A u \in Turns : runs'[u].held => cancels'[room'[u]] = u
  BY <1>1 DEF OneHeld
<1>3. \A r \in Rooms : cancels[r] # NoTurn => cancels[r] \in Turns
  BY WalkerAssumption DEF Sound, WalkerSound, Turns, NoTurn
<1>4. \A r \in Rooms : cancels'[r] # NoTurn => runs'[cancels'[r]].held
  BY <1>3 DEF OneHeld
<1>5. InFlight' = InFlight
  BY DEF InFlight
<1> QED
  BY <1>2, <1>4, <1>5 DEF OneHeld

(* A message the walker reads gives the slot to a turn or leaves it.       *)
LEMMA ReadsKeepSlot ==
  ASSUME Cap = 1, Sound, OneHeld, WalkerReads
  PROVE  OneHeld'
<1> DEFINE m == Head(toWalker)
<1>1. /\ toWalker # <<>> /\ UNCHANGED room
      /\ \/ m[1] = "turn.begin" /\ Admits(m[2])
         \/ m[1] = "interrupt" /\ Interrupts(m[2])
         \/ m[1] = "tool.result" /\ Settles(m[2])
  BY DEF WalkerReads, houseState
<1>2. m \in HouseSays /\ m = toWalker[1] /\ 1 \in 1 .. Len(toWalker)
  BY <1>1, HeadAndTail DEF Sound, HouseSound
<1>3. /\ m[1] = "turn.begin" => m[2] \in Turns
      /\ m[1] = "tool.result" => m[2] \in Turns
      /\ m[1] = "interrupt" => m[2] \in Rooms
  BY <1>2, Kinds
<1> HIDE DEF m
<1>4. WalkerSound /\ \A u \in Turns : runs[u] \in Run
  BY DEF Sound, WalkerSound
<1>5. CASE m[1] = "turn.begin" /\ Admits(m[2])
  <2>1. PICK t \in Turns : t = m[2]
    BY <1>3, <1>5
  <2>2. t \in Begun /\ runs[t].at = "unseen"
    BY <1>2, <1>5, <2>1 DEF Sound, HouseSound
  <2>3. room[t] \in Rooms /\ t # NoTurn
    BY <2>2, BegunTurns DEF Sound
  <2>4. /\ \A u \in Turns : u # t => runs'[u] = runs[u]
        /\ \/ AtCap /\ runs'[t] = [runs[t] EXCEPT !.at = "queued"] /\ UNCHANGED cancels
           \/ ~AtCap /\ runs'[t] = Started(t) /\ cancels' = [cancels EXCEPT ![room[t]] = t]
    BY <1>4, <1>5, <2>1, <2>2, <2>3, AdmitsSound
  <2>5. CASE AtCap
    <3>1. runs'[t].held = runs[t].held
      <4>1. [runs[t] EXCEPT !.at = "queued"].held = runs[t].held
        BY <1>4, FurtherIsRun
      <4> QED
        BY <2>4, <2>5, <4>1
    <3> QED
      BY <1>1, <2>4, <2>5, <3>1, SlotStays
  <2>6. CASE ~AtCap
    <3>1. \A r \in Rooms : cancels[r] = NoTurn
      BY <2>6, OneSlot
    <3>2. \A u \in Turns : ~runs[u].held
      <4> SUFFICES ASSUME NEW u \in Turns, runs[u].held PROVE FALSE
        OBVIOUS
      <4>1. cancels[room[u]] = u /\ room[u] \in Rooms /\ u # NoTurn
        BY BegunTurns DEF OneHeld, Sound, WalkerSound, HouseSound, Running
      <4> QED
        BY <3>1, <4>1
    <3>3. runs'[t].held
      BY <2>4, <2>6, StartedIsRun
    <3>4. cancels \in [Rooms -> 0 .. MaxTurns]
      BY <1>4 DEF WalkerSound
    <3>5. \A r \in Rooms : cancels'[r] = IF r = room[t] THEN t ELSE NoTurn
      BY <2>4, <2>6, <3>1, <3>4
    <3>6. \A u \in Turns : runs'[u].held => u = t
      BY <2>4, <3>2
    <3>7. \A q, r \in InFlight' : q = r
      BY <3>5 DEF InFlight
    <3> QED
      BY <1>1, <2>3, <3>3, <3>5, <3>6, <3>7 DEF OneHeld
  <2> QED
    BY <2>5, <2>6
<1>6. CASE m[1] = "interrupt" /\ Interrupts(m[2])
  <2>1. PICK r \in Rooms : r = m[2]
    BY <1>3, <1>6
  <2>2. /\ UNCHANGED cancels
        /\ \A t \in Turns :
             \/ runs'[t] = runs[t]
             \/ t = cancels[r] /\ runs'[t] = Cancelled(runs[t], TRUE)
             \/ runs[t].at = "queued" /\ room[t] = r /\ runs'[t] = [runs[t] EXCEPT !.at = "ended"]
    BY <1>4, <1>6, <2>1, InterruptsSound
  <2>3. \A t \in Turns : /\ Cancelled(runs[t], TRUE).held = runs[t].held
                         /\ [runs[t] EXCEPT !.at = "ended"].held = runs[t].held
    BY <1>4, CancelledIsRun, FurtherIsRun
  <2>4. \A t \in Turns : runs'[t].held = runs[t].held
    BY <2>2, <2>3
  <2> QED
    BY <1>1, <2>2, <2>4, SlotStays
<1>7. CASE m[1] = "tool.result" /\ Settles(m[2])
  <2>1. PICK t \in Turns : t = m[2]
    BY <1>3, <1>7
  <2>2. /\ UNCHANGED cancels
        /\ \A u \in Turns : \/ runs'[u] = runs[u]
                            \/ runs[u].at = "calling" /\ runs'[u] = [runs[u] EXCEPT !.at = "streaming"]
    BY <1>4, <1>7, <2>1, SettlesSound
  <2>3. \A u \in Turns : [runs[u] EXCEPT !.at = "streaming"].held = runs[u].held
    BY <1>4, FurtherIsRun
  <2>4. \A u \in Turns : runs'[u].held = runs[u].held
    BY <2>2, <2>3
  <2> QED
    BY <1>1, <2>2, <2>4, SlotStays
<1> QED
  BY <1>1, <1>5, <1>6, <1>7

(* With one slot, every step passes it on or leaves it.                    *)
LEMMA OneHeldKept ==
  ASSUME Cap = 1, Sound, OneHeld, [Next]_vars
  PROVE  OneHeld'
<1>1. ASSUME NEW r \in Rooms, HouseBegins(r)
      PROVE  OneHeld'
  <2>1. \A u \in Begun : room'[u] = room[u]
    BY <1>1, Appended DEF HouseBegins, Sound, HouseSound, Begun
  <2>2. UNCHANGED <<runs, cancels>>
    BY <1>1 DEF HouseBegins
  <2> QED
    BY <2>1, <2>2, SlotStays
<1>2. ASSUME NEW r \in Rooms, HouseStops(r)
      PROVE  OneHeld'
  BY <1>2, SlotStays DEF HouseStops
<1>3. CASE HouseReads
  BY <1>3, SlotStays DEF HouseReads
<1>4. CASE WalkerReads
  BY <1>4, ReadsKeepSlot
<1>5. ASSUME NEW t \in Turns, ToolFinishes(t) PROVE OneHeld'
  BY <1>5, SlotStays DEF ToolFinishes
<1>6. ASSUME NEW t \in Turns, Calls(t) PROVE OneHeld'
  <2>1. UNCHANGED <<room, cancels>> /\ \A u \in Turns : runs'[u].held = runs[u].held
    BY <1>6, CallsKeeps DEF Calls, houseState
  <2> QED
    BY <2>1, SlotStays
<1>7. ASSUME NEW t \in Turns, Watchdog(t) PROVE OneHeld'
  <2>1. UNCHANGED <<room, cancels>> /\ \A u \in Turns : runs'[u].held = runs[u].held
    BY <1>7, WatchdogKeeps DEF Watchdog, houseState
  <2> QED
    BY <2>1, SlotStays
<1>8. ASSUME NEW t \in Turns, Finishes(t) \/ Aborts(t) PROVE OneHeld'
  <2>1. /\ WalkerSound' /\ ~runs'[t].held
        /\ \A u \in Turns : u # t => runs'[u] = runs[u] \/ StartedNext(u)
        /\ \/ runs[t].held /\ cancels' = Freed(t)
           \/ ~runs[t].held /\ UNCHANGED cancels /\ \A u \in Turns : u # t => runs'[u] = runs[u]
    BY <1>8, EndingKeeps DEF Sound
  <2>2. UNCHANGED room
    BY <1>8 DEF Finishes, Aborts, houseState
  <2>3. CASE runs[t].held
    BY <2>1, <2>2, <2>3, SlotPasses
  <2>4. CASE ~runs[t].held
    <3>1. runs[t].held \in BOOLEAN /\ runs'[t].held \in BOOLEAN
      BY <2>1 DEF Sound, WalkerSound, Run
    <3>2. \A u \in Turns : runs'[u].held = runs[u].held
      BY <2>1, <2>4, <3>1
    <3> QED
      BY <2>1, <2>2, <2>4, <3>2, SlotStays
  <2> QED
    BY <2>3, <2>4
<1>9. ASSUME NEW t \in Turns, DeadlinePasses(t) PROVE OneHeld'
  <2>1. runs[t].held /\ UNCHANGED room /\ cancels[room[t]] = t
    BY <1>9 DEF DeadlinePasses, houseState, OneHeld
  <2>2. /\ WalkerSound' /\ ~runs'[t].held /\ cancels' = Freed(t)
        /\ \A u \in Turns : u # t => runs'[u] = runs[u] \/ StartedNext(u)
    BY <1>9, <2>1, DeadlineKeeps DEF Sound
  <2> QED
    BY <2>1, <2>2, SlotPasses
<1>10. CASE UNCHANGED vars
  BY <1>10, SlotStays DEF vars
<1> QED
  BY <1>1, <1>2, <1>3, <1>4, <1>5, <1>6, <1>7, <1>8, <1>9, <1>10 DEF Next, Goes

(* With a cap of one, which is the fleet's default, what is counted and    *)
(* what can be stopped are the same turns: at most one turn has the slot,  *)
(* and an interrupt of its room finds it.  (cancels.set in runTurn,        *)
(* cancels.delete as a turn ends, and the queue between.)                  *)
THEOREM SlotsMatchStops ==
  ASSUME Cap = 1
  PROVE  Spec => []SlotsAndStops
<1> DEFINE IInv == Sound /\ OneHeld
<1>1. Init => IInv
  <2> SUFFICES ASSUME Init PROVE OneHeld
    BY InitSound
  <2>1. \A t \in Turns : ~runs[t].held
    BY DEF Init, Unseen
  <2>2. \A r \in Rooms : cancels[r] = NoTurn
    BY DEF Init
  <2> QED
    BY <2>1, <2>2 DEF OneHeld, InFlight
<1>2. IInv /\ [Next]_vars => IInv'
  BY SoundKept, OneHeldKept
<1>3. IInv => SlotsAndStops
  <2> SUFFICES ASSUME Sound, OneHeld PROVE SlotsAndStops
    OBVIOUS
  <2> DEFINE Held == {t \in Turns : runs[t].held}
  <2>1. \A t, u \in Held : t = u
    <3> SUFFICES ASSUME NEW t \in Held, NEW u \in Held PROVE t = u
      OBVIOUS
    <3>1. \A v \in Held : cancels[room[v]] = v /\ room[v] \in Rooms /\ v # NoTurn
      BY BegunTurns DEF OneHeld, Sound, WalkerSound, HouseSound, Running
    <3>2. \A v \in Held : room[v] \in InFlight
      BY <3>1 DEF InFlight
    <3>3. room[t] = room[u]
      BY <3>2 DEF OneHeld
    <3> QED
      BY <3>1, <3>3
  <2>2. Cardinality(Held) <= 1
    <3>1. Held = {} \/ \E t : Held = {t}
      BY <2>1
    <3>2. Cardinality({}) = 0 /\ \A t : Cardinality({t}) = 1
      BY FS_EmptySet, FS_Singleton
    <3> HIDE DEF Held
    <3>3. Cardinality(Held) \in {0, 1}
      BY <3>1, <3>2, Zenon
    <3> QED
      BY <3>3
  <2> QED
    BY <2>2 DEF SlotsAndStops, CapKept, RunningCanBeStopped, OneHeld
<1> HIDE DEF IInv
<1> QED
  BY <1>1, <1>2, <1>3, PTL DEF Spec

-----------------------------------------------------------------------------
(* An open turn is heard of.                                               *)

(* The turn.begin is on its way, or the turn is queued, or runs and will   *)
(* tell the house, or its end is on its way.                               *)
HeardOf(t) ==
  \/ <<"turn.begin", t>> \in ToSet(toWalker)
  \/ runs[t].at = "queued"
  \/ Running(t) /\ ~runs[t].byHouse
  \/ <<"end", t>> \in ToSet(toHouse)

(* No interrupt on its way is of an open turn the walker has heard of.     *)
LEMMA NoneInterrupted ==
  ASSUME Sound, InterruptsAreOld, NEW r \in Rooms, open[r] # NoTurn,
         toWalker # <<>>, Head(toWalker) = <<"interrupt", r>>
  PROVE  runs[open[r]].at = "unseen"
<1>1. 1 \in 1 .. Len(toWalker) /\ toWalker[1] = <<"interrupt", r>>
  BY HeadAndTail DEF Sound, HouseSound
<1>2. PICK j \in 1 .. Len(toWalker) : toWalker[j] = <<"turn.begin", open[r]>>
  BY <1>1 DEF InterruptsAreOld
<1>3. toWalker[j][1] = "turn.begin" /\ toWalker[j][2] = open[r]
  BY <1>2
<1> QED
  BY <1>3 DEF Sound, HouseSound

(* A turn that waits in the queue, or runs on, or is started from it, is   *)
(* heard of as it was.                                                     *)
LEMMA HeardOn ==
  ASSUME Sound, NEW t \in Turns, HeardOf(t), UNCHANGED toWalker,
         ToSet(toHouse) \subseteq ToSet(toHouse'),
         \/ runs'[t] = runs[t] \/ StartedNext(t)
         \/ /\ runs'[t].byHouse = runs[t].byHouse /\ (Running(t) <=> Running(t)')
            /\ runs[t].at = "queued" => runs'[t].at = "queued"
  PROVE  HeardOf(t)'
<1>1. StartedNext(t) => Running(t)' /\ ~runs'[t].byHouse
  BY StartedIsRun DEF StartedNext, Running
<1>2. runs'[t] = runs[t] => (Running(t) <=> Running(t)')
  BY DEF Running
<1> QED
  BY <1>1, <1>2 DEF HeardOf

(* Every step leaves the open turns heard of.                              *)
LEMMA HeardKept ==
  ASSUME Sound, InterruptsAreOld, Deadline => OneHeld, [Next]_vars,
         OpenTurnsAreHeardOf
  PROVE  InterruptsAreOld' /\ OpenTurnsAreHeardOf'
<1> DEFINE Heard == \A r \in Rooms : open'[r] # NoTurn =>
             \/ <<"turn.begin", open'[r]>> \in ToSet(toWalker')
             \/ runs'[open'[r]].at = "queued"
             \/ runs'[open'[r]].at \in {"streaming", "calling"} /\ ~runs'[open'[r]].byHouse
             \/ <<"end", open'[r]>> \in ToSet(toHouse')
<1>a. \A r \in Rooms : open[r] # NoTurn => open[r] \in Turns /\ open[r] \in Begun /\ room[open[r]] = r
  BY BegunTurns DEF Sound, HouseSound
<1>b. \A r \in Rooms : open[r] # NoTurn => HeardOf(open[r])
  BY DEF OpenTurnsAreHeardOf, HeardOf
<1>1. ASSUME NEW q \in Rooms, HouseBegins(q)
      PROVE  InterruptsAreOld' /\ Heard
  <2>1. /\ UNCHANGED <<runs, toHouse>> /\ ToSet(toWalker) \subseteq ToSet(toWalker')
        /\ \A r \in Rooms : r # q => open'[r] = open[r]
        /\ <<"turn.begin", open'[q]>> \in ToSet(toWalker')
        /\ InterruptsAreOld'
    BY <1>1, BeginsKeeps
  <2> QED
    BY <1>b, <2>1 DEF HeardOf, Running
<1>2. ASSUME NEW q \in Rooms, HouseStops(q)
      PROVE  InterruptsAreOld' /\ Heard
  <2>1. /\ UNCHANGED <<runs, toHouse>> /\ ToSet(toWalker) \subseteq ToSet(toWalker')
        /\ \A r \in Rooms : open'[r] # NoTurn => open'[r] = open[r]
        /\ InterruptsAreOld'
    BY <1>2, StopsKeeps
  <2> QED
    BY <1>b, <2>1 DEF HeardOf, Running
<1>3. ASSUME HouseReads PROVE InterruptsAreOld' /\ Heard
  <2>1. /\ UNCHANGED <<runs, toWalker>>
        /\ \A r \in Rooms : open'[r] # NoTurn => open'[r] = open[r]
        /\ \A r \in Rooms : open'[r] # NoTurn /\ <<"end", open[r]>> \in ToSet(toHouse) =>
             <<"end", open[r]>> \in ToSet(toHouse')
        /\ InterruptsAreOld'
    BY <1>3, HouseReadsKeeps
  <2>2. Heard
    BY <1>b, <2>1 DEF HeardOf, Running
  <2> QED
    BY <2>1, <2>2
<1>4. ASSUME NEW t \in Turns, ToolFinishes(t)
      PROVE  InterruptsAreOld' /\ Heard
  <2>1. /\ UNCHANGED <<open, runs, toHouse>> /\ ToSet(toWalker) \subseteq ToSet(toWalker')
        /\ InterruptsAreOld'
    BY <1>4, ToolKeeps
  <2> QED
    BY <1>b, <2>1 DEF HeardOf, Running
<1>5. ASSUME WalkerReads PROVE InterruptsAreOld' /\ Heard
  <2>1. /\ UNCHANGED <<houseState, toHouse>> /\ InterruptsAreOld'
        /\ \A t \in Turns : <<"turn.begin", t>> \in ToSet(toWalker) =>
             \/ <<"turn.begin", t>> \in ToSet(toWalker')
             \/ runs'[t].at = "queued"
             \/ Running(t)' /\ ~runs'[t].byHouse
        /\ \A t \in Turns : runs[t].at \in {"queued", "streaming", "calling"} =>
             \/ runs'[t] = runs[t]
             \/ Running(t) /\ Running(t)' /\ runs'[t].byHouse = runs[t].byHouse
             \/ /\ <<"interrupt", room[t]>> = Head(toWalker)
                /\ runs[t].at = "queued" \/ t = cancels[room[t]]
    BY <1>5, WalkerReadsKeeps
  <2>2. ASSUME NEW r \in Rooms, open'[r] # NoTurn
        PROVE  \/ <<"turn.begin", open'[r]>> \in ToSet(toWalker')
               \/ runs'[open'[r]].at = "queued"
               \/ runs'[open'[r]].at \in {"streaming", "calling"} /\ ~runs'[open'[r]].byHouse
               \/ <<"end", open'[r]>> \in ToSet(toHouse')
    <3>1. PICK t \in Turns : t = open[r] /\ t = open'[r] /\ room[t] = r
      BY <1>a, <2>1, <2>2 DEF houseState
    <3>2. HeardOf(t)
      BY <1>b, <2>1, <2>2, <3>1 DEF houseState
    <3>3. CASE <<"turn.begin", t>> \in ToSet(toWalker)
      BY <2>1, <3>1, <3>3 DEF Running
    <3>4. CASE runs[t].at = "queued" \/ (Running(t) /\ ~runs[t].byHouse)
      <4>1. runs[t].at \in {"queued", "streaming", "calling"}
        BY <3>4 DEF Running
      <4>2. <<"interrupt", room[t]>> # Head(toWalker)
        BY <1>5, <2>1, <2>2, <3>1, <4>1, NoneInterrupted DEF WalkerReads, houseState
      <4>3. \/ runs'[t] = runs[t]
            \/ Running(t) /\ Running(t)' /\ runs'[t].byHouse = runs[t].byHouse
        BY <2>1, <4>1, <4>2
      <4>4. runs'[t].at = "queued" \/ (runs'[t].at \in {"streaming", "calling"} /\ ~runs'[t].byHouse)
        BY <3>4, <4>3 DEF Running
      <4> QED
        BY <3>1, <4>4
    <3>5. CASE <<"end", t>> \in ToSet(toHouse)
      BY <2>1, <3>1, <3>5
    <3> QED
      BY <3>2, <3>3, <3>4, <3>5 DEF HeardOf
  <2> QED
    BY <2>1, <2>2
<1>6. ASSUME UNCHANGED <<open, toWalker>>,
             \A t \in Turns : HeardOf(t) => HeardOf(t)'
      PROVE  InterruptsAreOld' /\ Heard
  <2>1. InterruptsAreOld'
    BY <1>6 DEF InterruptsAreOld
  <2>2. ASSUME NEW r \in Rooms, open'[r] # NoTurn
        PROVE  \/ <<"turn.begin", open'[r]>> \in ToSet(toWalker')
               \/ runs'[open'[r]].at = "queued"
               \/ runs'[open'[r]].at \in {"streaming", "calling"} /\ ~runs'[open'[r]].byHouse
               \/ <<"end", open'[r]>> \in ToSet(toHouse')
    <3>1. PICK t \in Turns : t = open[r] /\ t = open'[r]
      BY <1>a, <1>6, <2>2
    <3>2. HeardOf(t)'
      BY <1>6, <1>b, <2>2, <3>1
    <3> QED
      BY <3>1, <3>2 DEF HeardOf, Running
  <2> QED
    BY <2>1, <2>2
<1>7. ASSUME NEW t \in Turns, Calls(t) \/ Watchdog(t)
      PROVE  InterruptsAreOld' /\ Heard
  <2>1. UNCHANGED <<open, toWalker>>
    BY <1>7 DEF Calls, Watchdog, houseState
  <2>2. /\ ToSet(toHouse) \subseteq ToSet(toHouse')
        /\ \A u \in Turns : /\ runs'[u].byHouse = runs[u].byHouse /\ (Running(u) <=> Running(u)')
                            /\ runs[u].at = "queued" => runs'[u].at = "queued"
    BY <1>7, CallsKeeps, WatchdogKeeps
  <2>3. \A u \in Turns : HeardOf(u) => HeardOf(u)'
    BY <2>1, <2>2, HeardOn
  <2> QED
    BY <1>6, <2>1, <2>3
<1>8. ASSUME NEW t \in Turns, Finishes(t) \/ Aborts(t)
      PROVE  InterruptsAreOld' /\ Heard
  <2>1. UNCHANGED <<open, toWalker>>
    BY <1>8 DEF Finishes, Aborts, houseState
  <2>2. /\ ToSet(toHouse) \subseteq ToSet(toHouse') /\ Running(t)
        /\ ~runs[t].byHouse => <<"end", t>> \in ToSet(toHouse')
        /\ \A u \in Turns : u # t => runs'[u] = runs[u] \/ StartedNext(u)
    BY <1>8, EndingKeeps
  <2>3. ASSUME NEW u \in Turns, HeardOf(u) PROVE HeardOf(u)'
    <3>1. CASE u # t
      BY <2>1, <2>2, <2>3, <3>1, HeardOn
    <3>2. CASE u = t
      <4>1. runs[t].at # "queued"
        BY <2>2 DEF Running
      <4> QED
        BY <2>1, <2>2, <2>3, <3>2, <4>1 DEF HeardOf
    <3> QED
      BY <3>1, <3>2
  <2> QED
    BY <1>6, <2>1, <2>3
<1>9. ASSUME NEW t \in Turns, DeadlinePasses(t)
      PROVE  InterruptsAreOld' /\ Heard
  <2>1. UNCHANGED <<open, toWalker>> /\ cancels[room[t]] = t
    BY <1>9 DEF DeadlinePasses, houseState, OneHeld
  <2>2. /\ ToSet(toHouse) \subseteq ToSet(toHouse') /\ <<"end", t>> \in ToSet(toHouse')
        /\ \A u \in Turns : u # t => runs'[u] = runs[u] \/ StartedNext(u)
    BY <1>9, <2>1, DeadlineKeeps
  <2>3. ASSUME NEW u \in Turns, HeardOf(u) PROVE HeardOf(u)'
    <3>1. CASE u # t
      BY <2>1, <2>2, <2>3, <3>1, HeardOn
    <3>2. CASE u = t
      BY <2>2, <3>2 DEF HeardOf
    <3> QED
      BY <3>1, <3>2
  <2> QED
    BY <1>6, <2>1, <2>3
<1>10. ASSUME UNCHANGED vars PROVE InterruptsAreOld' /\ Heard
  <2>1. \A u \in Turns : HeardOf(u) => HeardOf(u)'
    BY <1>10 DEF vars, HeardOf, Running
  <2> QED
    BY <1>6, <1>10, <2>1 DEF vars
<1>11. InterruptsAreOld' /\ Heard
  BY <1>1, <1>2, <1>3, <1>4, <1>5, <1>7, <1>8, <1>9, <1>10 DEF Next, Goes
<1> QED
  BY <1>11 DEF OpenTurnsAreHeardOf, Running

(* A turn the house holds open will be heard of: no interrupt, of whatever *)
(* turn and room, silences it.  With a cap of one, or no local model's     *)
(* deadline: past one slot a deadline may cancel another of its room's     *)
(* turns as if the house had.  (interrupt, queue and cancels;              *)
(* interruptedByHouse.)                                                    *)
THEOREM OpenTurnsHeard ==
  ASSUME Cap = 1 \/ ~Deadline
  PROVE  Spec => []OpenTurnsAreHeardOf
<1> DEFINE IInv == Sound /\ InterruptsAreOld /\ (Cap = 1 => OneHeld) /\ OpenTurnsAreHeardOf
<1>1. Init => IInv
  <2> SUFFICES ASSUME Init PROVE OneHeld
    BY InitSound
  <2>1. \A t \in Turns : ~runs[t].held
    BY DEF Init, Unseen
  <2>2. \A r \in Rooms : cancels[r] = NoTurn
    BY DEF Init
  <2> QED
    BY <2>1, <2>2 DEF OneHeld, InFlight
<1>2. IInv /\ [Next]_vars => IInv'
  BY SoundKept, OneHeldKept, HeardKept
<1> QED
  BY <1>1, <1>2, PTL DEF Spec
=============================================================================
