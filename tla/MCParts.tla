------------------------------ MODULE MCParts ------------------------------
(* Parts of the house that share no state, checked in one run: each        *)
(* behaviour is one of one part, the variables of the others stay at rest. *)
EXTENDS Naturals, FiniteSets
CONSTANTS
  Streams, MaxFaults,                                  \* ChildHost
  Beings, Budget, TurnMax, ToFlag, MaxPosts, MaxHuman,  \* Dispatch
  LifeRooms, PublicRooms, People, Consenting, MaxFrames, MaxQueue, MaxLapses \* Lives
(* The streams are numbered, the beings from 1, and a drain has no room.   *)
ASSUME PartsAssumption ==
  /\ Streams \subseteq Nat /\ 0 \notin Beings
  /\ IsFiniteSet(LifeRooms) /\ "none" \notin LifeRooms

VARIABLES part,
  st, kids, rooms, faults,
  botChain, atSpeech, turnsOf, fast, marked, spoken, hushed, busy, posts, humans, roomKind,
  present, heard, marker, store, life, stale, behind, jobs, open, stopped, lapses, ghosts

C == INSTANCE ChildHost
D == INSTANCE Dispatch
L == INSTANCE Lives

childVars == <<st, kids, rooms, faults>>
dispatchVars ==
  <<botChain, atSpeech, turnsOf, fast, marked, spoken, hushed, busy, posts, humans, roomKind>>
livesVars == <<present, heard, marker, store, life, stale, behind, jobs, open, stopped, lapses, ghosts>>
vars == <<part, childVars, dispatchVars, livesVars>>
Init ==
  /\ part \in {"child", "dispatch", "lives"}
  /\ C!Init /\ D!Init /\ L!Init
  /\ part # "dispatch" => roomKind = "dice"
Next ==
  /\ UNCHANGED part
  /\ \/ part = "child" /\ C!Next /\ UNCHANGED <<dispatchVars, livesVars>>
     \/ part = "dispatch" /\ D!Next /\ UNCHANGED <<childVars, livesVars>>
     \/ part = "lives" /\ L!Next /\ UNCHANGED <<childVars, dispatchVars>>
(* The fairness of ChildHost, Dispatch and Lives, each for its own part.   *)
Fairness ==
  /\ WF_childVars(part = "child" /\ C!TimerFires) /\ WF_childVars(part = "child" /\ C!Handshake)
  /\ \A p \in 1 .. (MaxFaults + 1) :
       WF_childVars(part = "child" /\ p \in DOMAIN kids /\ kids[p].shut /\ C!Exits(p))
  /\ D!Fairness /\ L!Fairness
Spec == Init /\ [][Next]_vars /\ Fairness

ChildHostSound == C!Sound
DispatchSound == D!Sound
ChildComesBack == part = "child" => C!ComesBack
LoopsEnd == D!LoopsEnd
LivesSound == L!Sound
StaleEnds == L!StaleEnds
============================================================================
