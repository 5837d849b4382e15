-------------------------------- MODULE Park --------------------------------
(***************************************************************************)
(* The parked messages of one stream of a platform seat.  The seat has     *)
(* told its platform a message is accepted before it applies it; it        *)
(* applies messages one after another, and parks one whose room stays      *)
(* locked through every try of ensureLive.  A timer drains what is parked. *)
(*                                                                         *)
(* The queue is a JavaScript array, and who holds which array matters: a   *)
(* push appends to the array the map holds and puts a copy in its place; a *)
(* drain goes on with the array it found, while it awaits `apply` other    *)
(* pushes and other drains run.  `heap` holds the arrays by reference.     *)
(* How an apply ends (the room still locked, applied, failed otherwise) is *)
(* not the seat's to choose.                                               *)
(***************************************************************************)
EXTENDS Naturals, Sequences, SequencesExt

CONSTANTS
  Cap,                     \* CAP
  MaxMessages, MaxDrains   \* bounds: messages, and drains running at once

VARIABLES
  arrived,   \* messages accepted so far; they are numbered from 1
  chain,     \* the seat's promise chain: what it has still to apply
  heap,      \* every array a push made, by reference
  queue,     \* the reference `queues` holds for the stream, 0 = no entry
  drains,    \* the drains: the array each goes through and what it applies
  fate,      \* history: what became of each message
  replayed,  \* history: the parked messages applied, in order
  overlaps,  \* history: a drain was started while another was running
  pushes     \* history: the most pushes that came while one drain ran

vars == <<arrived, chain, heap, queue, drains, fate, replayed, overlaps, pushes>>

Messages == 1 .. MaxMessages
Idle == [array |-> 0, message |-> 0, pushes |-> 0]
Running == {d \in 1 .. MaxDrains : drains[d] # Idle}
Largest(S) == CHOOSE x \in S : \A y \in S : y <= x

Init ==
  /\ arrived = 0 /\ chain = <<>>
  /\ heap = <<>> /\ queue = 0
  /\ drains = [d \in 1 .. MaxDrains |-> Idle]
  /\ fate = [m \in Messages |-> "none"]
  /\ replayed = <<>>
  /\ overlaps = FALSE /\ pushes = 0

-----------------------------------------------------------------------------
(* onIncoming: accepted at once, applied when the chain comes to it.       *)
OnIncoming ==
  /\ arrived < MaxMessages
  /\ arrived' = arrived + 1
  /\ chain' = Append(chain, arrived + 1)
  /\ fate' = [fate EXCEPT ![arrived + 1] = "waiting"]
  /\ UNCHANGED <<heap, queue, drains, replayed, overlaps, pushes>>

(* slice(-CAP).                                                            *)
Newest(q) == SubSeq(q, IF Len(q) > Cap THEN Len(q) - Cap + 1 ELSE 1, Len(q))

(* The array the map holds, with m on its end.                             *)
Pushed(m) == Append(IF queue = 0 THEN <<>> ELSE heap[queue], m)

(* What the cut drops, but for what a drain has applied already.           *)
CutBy(m) == {n \in ToSet(Pushed(m)) \ ToSet(Newest(Pushed(m))) :
               fate[n] \in {"waiting", "parked"}}

Push(m) ==
  /\ heap' = Append(IF queue = 0 THEN heap ELSE [heap EXCEPT ![queue] = Pushed(m)],
                    Newest(Pushed(m)))
  /\ queue' = Len(heap) + 1
  /\ fate' = [n \in Messages |->
       IF n \in CutBy(m) THEN "cut" ELSE IF n = m THEN "parked" ELSE fate[n]]
  /\ drains' = [d \in 1 .. MaxDrains |->
       IF d \in Running THEN [drains[d] EXCEPT !.pushes = @ + 1] ELSE Idle]
  /\ pushes' = Largest({pushes} \cup {drains'[d].pushes : d \in 1 .. MaxDrains})

(* park.guarded, for the message whose turn it is.                         *)
Guarded(end) ==
  /\ chain # <<>>
  /\ chain' = Tail(chain)
  /\ IF end = "locked"
     THEN Push(Head(chain))
     ELSE /\ fate' = [fate EXCEPT ![Head(chain)] = end]
          /\ UNCHANGED <<heap, queue, drains, pushes>>
  /\ UNCHANGED <<arrived, replayed, overlaps>>

-----------------------------------------------------------------------------
(* The timer: it starts a drain whether or not one is running.             *)
Drain(d) ==
  /\ queue # 0 /\ heap[queue] # <<>>
  /\ d \notin Running
  /\ drains' = [drains EXCEPT ![d] =
       [array |-> queue, message |-> Head(heap[queue]), pushes |-> 0]]
  /\ overlaps' = (overlaps \/ Running # {})
  /\ UNCHANGED <<arrived, chain, heap, queue, fate, replayed, pushes>>

Shifted(q) == IF q = <<>> THEN q ELSE Tail(q)

(* Mutation of LeftByLock: the message the drain stopped at is shifted too. *)
LeftByLockShifted(q) == Shifted(q)

(* What a drain that meets a lock again leaves in its array.               *)
LeftByLock(q) == q

(* A drain done with its array: an empty one takes the map's entry with    *)
(* it, whichever array that entry is by now.                               *)
Leave(d, q) ==
  /\ drains' = [drains EXCEPT ![d] = Idle]
  /\ queue' = IF q = <<>> THEN 0 ELSE queue

DrainLocked(d) ==
  /\ d \in Running
  /\ LET left == LeftByLock(heap[drains[d].array])
     IN  heap' = [heap EXCEPT ![drains[d].array] = left] /\ Leave(d, left)
  /\ UNCHANGED <<arrived, chain, fate, replayed, overlaps, pushes>>

(* An apply that succeeds, or fails for good; then the next of the array.  *)
DrainApplied(d, end) ==
  /\ d \in Running
  /\ LET m == drains[d].message
         left == Shifted(heap[drains[d].array])
     IN  /\ heap' = [heap EXCEPT ![drains[d].array] = left]
         /\ IF left = <<>> THEN Leave(d, left)
            ELSE /\ drains' = [drains EXCEPT ![d].message = Head(left)]
                 /\ UNCHANGED queue
         /\ fate' = [fate EXCEPT ![m] = IF @ = "applied" THEN @ ELSE end]
         /\ replayed' = IF end = "applied" THEN Append(replayed, m) ELSE replayed
  /\ UNCHANGED <<arrived, chain, overlaps, pushes>>

Ends == {"applied", "failed"}

Next ==
  \/ OnIncoming
  \/ \E end \in Ends \cup {"locked"} : Guarded(end)
  \/ \E d \in 1 .. MaxDrains :
       Drain(d) \/ DrainLocked(d) \/ \E end \in Ends : DrainApplied(d, end)

Spec == Init /\ [][Next]_vars

-----------------------------------------------------------------------------
TypeOK ==
  /\ arrived \in 0 .. MaxMessages
  /\ chain \in Seq(Messages)
  /\ heap \in Seq(Seq(Messages))
  /\ queue \in 0 .. Len(heap)
  /\ queue # 0 => Len(heap[queue]) <= Cap    \* park.mjs:7
  /\ drains \in [1 .. MaxDrains ->
       [array : 0 .. Len(heap), message : 0 .. MaxMessages, pushes : Nat]]
  /\ fate \in [Messages -> {"none", "waiting", "parked", "cut"} \cup Ends]
  /\ replayed \in Seq(Messages)
  /\ overlaps \in BOOLEAN /\ pushes \in Nat

(* A message is held where something will still apply it: in the map's     *)
(* array, or in the array of a drain that is running.                      *)
Held(m) ==
  \/ queue # 0 /\ m \in ToSet(heap[queue])
  \/ \E d \in Running : m = drains[d].message \/ m \in ToSet(heap[drains[d].array])

Kept == \A m \in Messages : fate[m] = "parked" => Held(m)

(* A parked message stays held until it is applied, fails or is cut at     *)
(* CAP, as long as no drain starts while another runs and no two messages  *)
(* are parked during one: a single one reaches both the drain's array and  *)
(* the map's.                                                              *)
KeptUnlessCrossed == ~overlaps /\ pushes <= 1 => Kept

(* Messages are replayed oldest first and none twice, as long as neither   *)
(* happens at all.                                                         *)
ReplayedInOrder ==
  ~overlaps /\ pushes = 0 =>
    \A i, j \in 1 .. Len(replayed) : i < j => replayed[i] < replayed[j]

(* The two in one, for a run of several parts.                             *)
Sound == KeptUnlessCrossed /\ ReplayedInOrder

(* park.mjs:3: a message "is queued here and replayed once the room        *)
(* opens".  Two that are parked while one drain runs break it: the second  *)
(* is not in the drain's array, and goes when the drain is done with that. *)
ParkedIsReplayed == Kept

=============================================================================
