------------------------------ MODULE MCRemote ------------------------------
(* Three that deal with what is not in the house: a being's platform        *)
(* server, which this module extends; the renderer of the pictures; and the *)
(* files of a room that is also a channel of a platform.  They share no     *)
(* state and are checked in one run as in MCParts.                          *)
EXTENDS RemoteHost
CONSTANTS
  MaxRecordings, GpuMax, GpuQueue, CacheMax, MaxTries, MaxAtOnce, MaxLives, \* DreamWorker
  Beings, Human, Speakers, Fragile, Files, Albums, MAX_ATTACHMENTS,
  MaxPosts, MaxTold, MaxShown, MaxAnew                 \* Media
ASSUME FilesAssumption ==
  /\ MaxRecordings \in Nat /\ GpuMax \in Nat /\ GpuQueue \in Nat /\ CacheMax \in Nat \ {0}
  /\ IsFiniteSet(Beings) /\ Human \notin Beings /\ MAX_ATTACHMENTS \in Nat
  /\ Albums \subseteq Seq(Files) /\ Fragile \subseteq Beings
VARIABLES part,
  calls, renders, rendering, kept, lane, inFlightRequests, worker, lives,
  posts, at, asked, got, blobs, refs, record, rows, marks, tail, sending, restarts

OnceOrTwice == {<<"f">>, <<"f", "f">>}
W == INSTANCE DreamWorker
F == INSTANCE Media WITH MaxFaults <- MaxAnew

dreamVars == <<calls, renders, rendering, kept, lane, inFlightRequests, worker, lives>>
mediaVars == <<posts, at, asked, got, blobs, refs, record, rows, marks, tail, sending, restarts>>
MCInit == part \in {"host", "dream", "media"} /\ Init /\ W!Init /\ F!Init
MCNext ==
  /\ UNCHANGED part
  /\ \/ part = "host" /\ Next /\ UNCHANGED <<dreamVars, mediaVars>>
     \/ part = "dream" /\ W!Next /\ UNCHANGED <<vars, mediaVars>>
     \/ part = "media" /\ F!Next /\ UNCHANGED <<vars, dreamVars>>
(* The fairness of RemoteHost, for its own part.                           *)
MCFairness ==
  /\ WF_vars(part = "host" /\ ChildReady) /\ WF_vars(part = "host" /\ BeingReads)
  /\ WF_vars(part = "host" /\ Poll) /\ WF_vars(part = "host" /\ Connect)
  /\ WF_vars(part = "host" /\ HouseSeesClose) /\ WF_vars(part = "host" /\ HouseReads)
  /\ \A id \in Ids : WF_vars(part = "host" /\ id \in DOMAIN pending /\ TimesOut(id))
MCSpec == MCInit /\ [][MCNext]_<<part, vars, dreamVars, mediaVars>> /\ MCFairness

(* What is rendered and what is attached.                                  *)
FilesSound == (part = "dream" => W!WorkerSound) /\ (part = "media" => F!MediaSound)
=============================================================================
