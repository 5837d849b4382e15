-------------------------------- MODULE Lives --------------------------------
(***************************************************************************)
(* A being's life: a store of what it lived, one child process at a time   *)
(* that appends a room's new frames to it and compiles it into a file for  *)
(* each room (life-jobs, life-job, resident-life).  The store is in memory *)
(* while a job has it open and on disk once the job closes it; the marker  *)
(* of how far a room was appended is on disk at once.  What was said in a  *)
(* private room goes to the trunk, compiled everywhere, if all who were    *)
(* there consent, and else to the partition of exactly those people.       *)
(* Every being is enabled; what a compile folds or trims is still held.    *)
(***************************************************************************)
EXTENDS Naturals, Sequences, FiniteSets, SequencesExt

CONSTANTS
  LifeRooms, PublicRooms,   \* the being's rooms; those that are public
  People, Consenting,       \* people; those whose covenant says group_visible
  MaxFrames,                \* bound: frames of a room
  MaxQueue,                 \* bound: jobs queued before nobody queues another
  MaxLapses                 \* bound: jobs that fail or are killed, ends of the house

VARIABLES
  present,     \* who of the people is in a room (class.json): grows
  heard,       \* the room's frames, each with the people who were there
  marker,      \* life.appended.<handle>.json: through_seq, 0 if there is none
  store,       \* trunk and partitions on disk
  life,        \* the compiled file of each room
  stale,       \* the record is newer than the room's file
  behind,      \* the store is newer than the room's file
  jobs,        \* the handle's chain, its head running once it is opened
  open,        \* the store as the running job has it
  stopped,     \* stopLifeJobs
  lapses, ghosts   \* what went wrong so far: a count, and of which kinds

livesVars == <<present, heard, marker, store, life, stale, behind, jobs, open, stopped, lapses, ghosts>>

Trunk == {}                         \* the key of the trunk: nobody's partition
Entry(r, n, key) == [room |-> r, n |-> n, key |-> key]
NoFile == [there |-> FALSE, through |-> 0, note |-> FALSE, for |-> {}]
Job(room, why) == [room |-> room, why |-> why, at |-> "queued", others |-> {}, noop |-> TRUE, again |-> FALSE]
Closed == {Entry("none", 0, Trunk)}  \* no job has the store open
Nowhere == "none"                    \* a drain has no room
Appending == {"refresh", "catchUp"}

Init ==
  /\ present = [r \in LifeRooms |-> {}] /\ heard = [r \in LifeRooms |-> <<>>]
  /\ marker = [r \in LifeRooms |-> 0] /\ store = {}
  /\ life = [r \in LifeRooms |-> NoFile]
  /\ stale = [r \in LifeRooms |-> FALSE] /\ behind = [r \in LifeRooms |-> FALSE]
  /\ jobs = <<>> /\ open = Closed /\ stopped = FALSE /\ lapses = 0 /\ ghosts = {}

-----------------------------------------------------------------------------
(* The house.  A person joins with the first thing they say (roomInput);   *)
(* who is in a public room is of no account.                               *)
Queued(r, why) == \E i \in 1 .. Len(jobs) : jobs[i].room = r /\ jobs[i].why = why

Says(r, p) ==
  /\ ~stopped /\ Len(heard[r]) < MaxFrames
  /\ present' = [present EXCEPT ![r] = @ \cup p]
  /\ heard' = [heard EXCEPT ![r] = Append(@, present'[r])]
  /\ stale' = [stale EXCEPT ![r] = TRUE]
  /\ UNCHANGED <<marker, store, life, behind, jobs, open, stopped, lapses, ghosts>>

(* ensureRoomLives when a room opens or is registered, catchUpLife when a  *)
(* turn finds the life behind, appendRoomLives at a rest: once per room    *)
(* (a rest does not look, and appends nothing more).                       *)
MayQueue(r, why) == ~Queued(r, why) /\ (why = "ensure" => ~life[r].there)
Enqueues(r, why) ==
  /\ ~stopped /\ Len(jobs) < MaxQueue /\ MayQueue(r, why)
  /\ jobs' = Append(jobs, Job(r, why))
  /\ UNCHANGED <<present, heard, marker, store, life, stale, behind, open, stopped, lapses, ghosts>>

(* drainBeingLife: the drain, then a compile of every file with a note.    *)
Drains ==
  /\ ~stopped /\ Len(jobs) < MaxQueue
  /\ jobs' = Append(jobs, Job(Nowhere, "drain"))
             \o SetToSeq({Job(r, "noted") : r \in {x \in LifeRooms : life[x].note}})
  /\ UNCHANGED <<present, heard, marker, store, life, stale, behind, open, stopped, lapses, ghosts>>

(* refreshStaleLives, every two hours; a room already queued by it would   *)
(* be queued again, to no effect.                                          *)
Stale(r) == life[r].there /\ stale[r]
Refresh ==
  /\ ~stopped
  /\ LET due == {r \in LifeRooms : Stale(r) /\ ~Queued(r, "refresh")} IN
       due # {} /\ jobs' = jobs \o SetToSeq({Job(r, "refresh") : r \in due})
  /\ UNCHANGED <<present, heard, marker, store, life, stale, behind, open, stopped, lapses, ghosts>>

-----------------------------------------------------------------------------
(* The job at the head of the chain, in a process of its own: it opens the *)
(* store, reads who is in the room, then its frames.  A drain folds what   *)
(* the store has, which nothing here tells apart.                          *)
Running(at) == jobs # <<>> /\ jobs[1].at = at
Goes(at) == jobs' = [jobs EXCEPT ![1].at = at, ![1].others = {}]
House == <<present, heard, stopped>>

Opens ==
  /\ Running("queued") /\ open' = store
  /\ jobs' = [jobs EXCEPT ![1].at = IF jobs[1].why \in Appending THEN "append"
                                    ELSE IF jobs[1].why = "drain" THEN "close" ELSE "compile",
                          ![1].others = IF jobs[1].why \in Appending THEN present[jobs[1].room] ELSE {}]
  /\ UNCHANGED <<House, marker, store, life, stale, behind, lapses, ghosts>>

(* Mutation of Route: one person's consent is enough.                      *)
RouteIfAnyConsents(r, others) ==
  IF r \in PublicRooms \/ others = {} \/ others \cap Consenting # {} THEN Trunk ELSE others

(* Where a period goes.                                                    *)
Route(r, others) == IF r \in PublicRooms \/ others \subseteq Consenting THEN Trunk ELSE others

(* writeAppendMarker, before the fold.                                     *)
Marked(r) == [marker EXCEPT ![r] = Len(heard[r])]

(* appendPeriod: all past the marker, or nothing.                          *)
Appends ==
  /\ Running("append")
  /\ LET r == jobs[1].room
         new == {n \in 1 .. Len(heard[r]) : n > marker[r]}
         put == {Entry(r, n, Route(r, jobs[1].others)) : n \in new}
     IN /\ open' = open \cup put
        /\ marker' = IF new = {} THEN marker ELSE Marked(r)
        /\ jobs' = [jobs EXCEPT ![1].at = "compile", ![1].noop = (new = {}), ![1].others = {}]
        /\ ghosts' = ghosts
             \cup {"twice" : e \in {x \in open : x.room = r /\ x.n \in new}}
             \cup {"crossed" : n \in {x \in new : ~(heard[r][x] \subseteq jobs[1].others)}}
  /\ UNCHANGED <<House, store, life, stale, behind, lapses>>

(* Mutation of Unchanged: what other rooms brought is not looked at.       *)
UnchangedHere(j) == j.why \in Appending /\ j.noop /\ life[j.room].there /\ ~life[j.room].note

(* Nothing new, and the file is newer than the store: no compile.          *)
Unchanged(j) ==
  /\ j.why \in Appending /\ j.noop
  /\ life[j.room].there /\ ~behind[j.room] /\ ~life[j.room].note
Skips == Running("compile") /\ Unchanged(jobs[1]) /\ Goes("close")
         /\ UNCHANGED <<House, marker, store, life, stale, behind, open, lapses, ghosts>>

(* compileFor reads who is there now, and mounts what is reachable.        *)
Reads ==
  /\ Running("compile") /\ ~Unchanged(jobs[1])
  /\ jobs' = [jobs EXCEPT ![1].at = "compiling", ![1].others = present[jobs[1].room]]
  /\ UNCHANGED <<House, marker, store, life, stale, behind, open, lapses, ghosts>>

Reachable(key, dest) == key \subseteq Consenting \/ (dest # {} /\ dest \subseteq key)
Held(r, dest, s) == {e.n : e \in {x \in s : x.room = r /\ Reachable(x.key, dest)}}
HeldThrough(ns, m) ==
  IF ns = {} \/ m = 0 THEN 0 ELSE LET top == CHOOSE n \in ns : \A k \in ns : k <= n IN IF top < m THEN top ELSE m

(* The file is written; one that is over budget carries a note, and after  *)
(* a drain that folded something is compiled once more.                    *)
Writes(note) ==
  /\ Running("compiling")
  /\ LET r == jobs[1].room
         dest == jobs[1].others
     IN /\ life' = [life EXCEPT ![r] = [there |-> TRUE, note |-> note, for |-> dest,
                                           through |-> HeldThrough(Held(r, dest, open), marker[r])]]
        /\ stale' = [stale EXCEPT ![r] = FALSE] /\ behind' = [behind EXCEPT ![r] = FALSE]
        /\ \/ Goes("close")
           \/ note /\ ~jobs[1].again /\ jobs' = [jobs EXCEPT ![1].at = "compile", ![1].again = TRUE, ![1].noop = FALSE]
  /\ UNCHANGED <<House, marker, store, open, lapses, ghosts>>

(* A clean close writes the store; what was appended or folded makes it    *)
(* newer than every file.                                                  *)
Grew(j) == open # store \/ j.why = "drain" \/ j.again
Closes ==
  /\ store' = open /\ open' = Closed /\ jobs' = Tail(jobs)
  /\ behind' = IF Grew(jobs[1]) THEN [r \in LifeRooms |-> TRUE] ELSE behind
Ends == Running("close") /\ Closes /\ UNCHANGED <<House, marker, life, stale, lapses, ghosts>>

(* A job throws, or gets a signal it can act on: it closes all the same.   *)
Fails ==
  /\ open # Closed /\ lapses < MaxLapses /\ lapses' = lapses + 1
  /\ Closes /\ UNCHANGED <<House, marker, life, stale, ghosts>>

(* It is killed; the chain goes on.                                        *)
Killed ==
  /\ open # Closed /\ lapses < MaxLapses /\ lapses' = lapses + 1
  /\ open' = Closed /\ jobs' = Tail(jobs) /\ ghosts' = ghosts \cup {"killed"}
  /\ UNCHANGED <<House, marker, store, life, stale, behind>>

(* SIGTERM to the house: every room rests, with a frame, and nothing more  *)
(* is queued or opened.  Its end takes a job that is running with it.      *)
Stops ==
  /\ ~stopped /\ lapses < MaxLapses /\ lapses' = lapses + 1 /\ stopped' = TRUE
  /\ UNCHANGED <<present, heard, marker, store, life, stale, behind, jobs, open, ghosts>>
Refused == stopped /\ Running("queued") /\ jobs' = Tail(jobs)
           /\ UNCHANGED <<House, marker, store, life, stale, behind, open, lapses, ghosts>>
Restart ==
  /\ stopped /\ stopped' = FALSE /\ jobs' = <<>> /\ open' = Closed
  /\ ghosts' = IF open = Closed THEN ghosts ELSE ghosts \cup {"killed"}
  /\ UNCHANGED <<present, heard, marker, store, life, stale, behind, lapses>>

Step ==
  \/ (~stopped /\ Opens) \/ Appends \/ Skips \/ Reads \/ Ends \/ Refused
  \/ \E note \in BOOLEAN : Writes(note)
Next ==
  \/ \E r \in LifeRooms : \/ \E p \in {{}} \cup {{x} : x \in People \ present[r]} : (r \in PublicRooms => p = {}) /\ Says(r, p)
                          \/ \E why \in {"ensure", "catchUp"} : Enqueues(r, why)
  \/ Drains \/ Refresh \/ Step \/ Fails \/ Killed \/ Stops \/ Restart

(* Jobs go on, the refresh comes round, the house is started again.        *)
Fairness == WF_livesVars(Step) /\ WF_livesVars(Refresh) /\ WF_livesVars(Restart)
Spec == Init /\ [][Next]_livesVars /\ Fairness

-----------------------------------------------------------------------------
(* Nothing is appended twice; what the marker says was appended is in the  *)
(* store, unless a job was killed; and a word of a private room is in the  *)
(* trunk only if all who were there consent, unless someone joined and     *)
(* spoke between the job's two reads.                                      *)
Stored == IF open = Closed THEN store ELSE open
Sound ==
  /\ "twice" \notin ghosts
  /\ "killed" \notin ghosts =>
       \A r \in LifeRooms : \A n \in 1 .. marker[r] : \E e \in Stored : e.room = r /\ e.n = n
  /\ "crossed" \notin ghosts =>
       \A e \in Stored : e.key = Trunk /\ e.room \notin PublicRooms => heard[e.room][e.n] \subseteq Consenting

(* Once the rooms are quiet, every file the record has moved past comes to *)
(* be compiled again, if no job was killed.                                *)
StaleEnds == <>[](\A r \in LifeRooms : Stale(r) => "killed" \in ghosts)

(* Violated.  resident-life.mjs:1331-1334: the marker goes down "as soon   *)
(* as the messages are in the store", which is in memory; the house's own  *)
(* end kills the job.                                                      *)
MarkedIsKept == \A r \in LifeRooms : \A n \in 1 .. marker[r] : \E e \in Stored : e.room = r /\ e.n = n

(* Violated.  resident-life.mjs:1078-1086: through_seq "must never claim   *)
(* a stretch the being can't see".  When somebody has joined, what is in   *)
(* the partition of those before is neither in the life nor after it.      *)
ClaimsWhatItHolds ==
  "killed" \notin ghosts => \A r \in LifeRooms : 1 .. life[r].through \subseteq Held(r, life[r].for, Stored)

(* Violated.  resident-life.mjs:1055: a partition "is open in this room    *)
(* because everyone here now was there then".                              *)
OpenToThosePresent ==
  \A r \in LifeRooms : life[r].there => \A e \in store :
    e.key # Trunk /\ Reachable(e.key, life[r].for) => Reachable(e.key, present[r])

(* Violated.  life-jobs.mjs:226: the refresh is for "every room whose      *)
(* record moved past what its beings' lives last saw".                     *)
CatchesUp == \A r \in LifeRooms : <>[](life[r].there => marker[r] = Len(heard[r]) \/ "killed" \in ghosts)
=============================================================================
