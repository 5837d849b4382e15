------------------------------- MODULE Import -------------------------------
(***************************************************************************)
(* Restoring an older system's history (connectome-history-import): one    *)
(* stream of its archive, and the one room of that stream.  A sweep writes *)
(* a room nobody has yet; a slice appends what is new to a room that is    *)
(* there, imported or lived; a stamp marks what was imported before every  *)
(* frame said so.  Importers are processes of their own, beside the house  *)
(* that lives on in the same room, and may end between any two files.      *)
(* The n-th of the archive has sequence n.  Frames that come with another  *)
(* (joins, attachments) are left out, as are names and texts.  A frame's   *)
(* number is counted in fractions of 1/Unit.                               *)
(***************************************************************************)
EXTENDS Naturals, Sequences, FiniteSets, SequencesExt, FiniteSetsExt

CONSTANTS
  Importers,    \* processes
  Unit,         \* fractions told apart between two whole numbers
  MaxArchive, MaxSweeps, MaxLive, MaxEnds   \* bounds

VARIABLES
  archive,      \* [kind, of]: a message, an action or an edit of a message
  frames,       \* frames.jsonl: [seq, kind, veil, target, ours, origin]
  cls,          \* class.json: [there, imported, retrofit, last, slices]
  run,          \* run.json's sessions, FALSE for one of the house; absent: <<>>
  rows,         \* external.jsonl: [id, seq, ours]
  locked,       \* .import.lock
  importer,     \* [at, kept, mode, after, fresh, list, start, n] of each process
  old,          \* the importer is of the version that marked no frame
  sweeps, lived, ends,   \* counts
  lacked,       \* what some export no longer held, or could not read
  importGhosts  \* what went wrong so far

importVars == <<archive, frames, cls, run, rows, locked, importer, old, sweeps, lived, ends, lacked, importGhosts>>
recordFiles == <<frames, cls, run, rows>>

Idle == [at |-> "idle", kept |-> {}, mode |-> "none", after |-> 0, fresh |-> {}, list |-> <<>>, start |-> 0, n |-> 0]
NoClass == [there |-> FALSE, imported |-> FALSE, retrofit |-> FALSE, last |-> 0, slices |-> <<>>]
Frame(seq, kind, veil, target, ours) ==
  [seq |-> seq, kind |-> kind, veil |-> veil, target |-> target, ours |-> ours, origin |-> ours /\ ~old]
Lived(seq, kind) == [Frame(seq, kind, 0, 0, FALSE) EXCEPT !.origin = FALSE]

Init ==
  /\ archive = <<>> /\ frames = <<>> /\ cls = NoClass /\ run = <<>> /\ rows = <<>> /\ locked = FALSE
  /\ importer = [p \in Importers |-> Idle] /\ old \in BOOLEAN
  /\ sweeps = 0 /\ lived = 0 /\ ends = 0 /\ lacked = {} /\ importGhosts = {}

(* The archive goes on; the importer is brought up to date.                *)
Messages == {i \in DOMAIN archive : archive[i].kind = "message"}
ArchiveGrows ==
  /\ Len(archive) < MaxArchive
  /\ \E e \in [kind : {"message", "action"}, of : {0}] \cup [kind : {"edit"}, of : Messages] :
       archive' = Append(archive, e)
  /\ UNCHANGED <<recordFiles, locked, importer, old, sweeps, lived, ends, lacked, importGhosts>>
Upgrade ==
  /\ old /\ frames # <<>> /\ old' = FALSE
  /\ UNCHANGED <<archive, recordFiles, locked, importer, sweeps, lived, ends, lacked, importGhosts>>

-----------------------------------------------------------------------------
(* Numbers: the house's own facts halve the gap to the next whole number   *)
(* (houseFrameSeq); a trace goes on with whole ones (openTrace).           *)
Final == frames[Len(frames)]
Between(s) == s + (Unit - (s % Unit)) \div 2
Whole(s) == ((s \div Unit) + 1) * Unit
AtRest == frames # <<>> /\ Final.kind = "rested"

(* Maps what is fresh to frames, in order, the k-th at first + k numbers:  *)
(* an edit of what is not known to be in the record is left out.  to[i] is *)
(* where the i-th of the archive is said to stand.                         *)
Mapped(kept, known) ==
  LET inOrder == SetToSortSeq(kept, LAMBDA a, b : a < b)
  IN SelectSeq(inOrder, LAMBDA i : archive[i].kind = "edit" => archive[i].of \in known)
Place(list, i) == CHOOSE k \in DOMAIN list : list[k] = i
FrameOf(i, seq, to) ==
  Frame(seq, archive[i].kind, i, IF archive[i].kind = "edit" THEN to[archive[i].of] ELSE 0, TRUE)
RowsOf(list, to) ==
  LET spoken == SelectSeq(list, LAMBDA i : archive[i].kind = "message")
  IN [k \in DOMAIN spoken |-> [id |-> spoken[k], seq |-> to[spoken[k]], ours |-> TRUE]]

-----------------------------------------------------------------------------
(* main: the archive is read, but for what is no longer kept or cannot be  *)
(* read.                                                                   *)
Sweeps(p) ==
  /\ importer[p].at = "idle" /\ sweeps < MaxSweeps /\ sweeps' = sweeps + 1
  /\ \E kept \in {DOMAIN archive, DOMAIN archive \ {1}}, mode \in {"plain", "retrofit"} :
       /\ kept \cap {i \in DOMAIN archive : archive[i].kind # "edit"} # {}
       /\ importer' = [importer EXCEPT ![p] = [Idle EXCEPT !.at = "read", !.kept = kept, !.mode = mode, !.n = sweeps']]
       /\ lacked' = lacked \cup (DOMAIN archive \ kept)
  /\ UNCHANGED <<archive, recordFiles, locked, old, lived, ends, importGhosts>>

(* A mark whose facet the export does not hold is dropped (finish).        *)
Group(kept) == {i \in kept : archive[i].kind = "edit" => archive[i].of \in kept}
Done(p) == importer' = [importer EXCEPT ![p] = Idle]

(* writeRoom: refused where frames are already (the sweep ends); else they *)
(* are written one by one, and the process may end after any of them.      *)
Built(kept) ==
  LET list == Mapped(kept, kept)
      at == [i \in kept |-> Place(list, i) * Unit]
  IN <<Frame(0, "mounted", 0, 0, TRUE)>>
     \o [k \in DOMAIN list |-> FrameOf(list[k], k * Unit, at)]
     \o <<Frame((Len(list) + 1) * Unit, "rested", 0, 0, TRUE)>>
Writes(p) ==
  LET made == Built(Group(importer[p].kept)) IN
    /\ importer[p].at = "read" /\ ~cls.there
    /\ \/ /\ frames # <<>> /\ Done(p) /\ UNCHANGED <<frames, ends, importGhosts>>
       \/ /\ frames = <<>> /\ frames' = made
          /\ importer' = [importer EXCEPT ![p].at = "wrote"] /\ UNCHANGED <<ends, importGhosts>>
       \/ /\ frames = <<>> /\ ends < MaxEnds /\ ends' = ends + 1
          /\ \E k \in 1 .. Len(made) : frames' = SubSeq(made, 1, k)
          /\ Done(p) /\ importGhosts' = importGhosts \cup {"ended"}
    /\ UNCHANGED <<archive, cls, run, rows, locked, old, sweeps, lived, lacked>>

WritesClass(p) ==
  /\ importer[p].at = "wrote" /\ importer' = [importer EXCEPT ![p].at = "classed"]
  /\ cls' = [NoClass EXCEPT !.there = TRUE, !.imported = TRUE, !.last = Max(Group(importer[p].kept))]
  /\ UNCHANGED <<archive, frames, run, rows, locked, old, sweeps, lived, ends, lacked, importGhosts>>
(* run.json and external.jsonl, the one right behind the other.            *)
WritesRows(p) ==
  LET kept == Group(importer[p].kept)
      list == Mapped(kept, kept)
      at == [i \in kept |-> Place(list, i) * Unit] IN
    /\ importer[p].at = "classed" /\ Done(p) /\ run' = Append(run, TRUE) /\ rows' = rows \o RowsOf(list, at)
    /\ UNCHANGED <<archive, frames, cls, locked, old, sweeps, lived, ends, lacked, importGhosts>>

-----------------------------------------------------------------------------
(* A room that is there is skipped, and sliced if that was asked for and   *)
(* its last_seq is not the group's (retrofitCandidates); sliceRoom reads   *)
(* class.json, looks for something new and for a room at rest, and then    *)
(* takes the lock.                                                         *)
Selected(p) == {i \in Group(importer[p].kept) : ~cls.imported \/ i > cls.last}
Skips(p) ==
  /\ importer[p].at = "read" /\ cls.there
  /\ \/ importer[p].mode = "plain" \/ (cls.imported /\ cls.last = Max(Group(importer[p].kept)))
     \/ Selected(p) = {} \/ ~AtRest
  /\ Done(p)
  /\ UNCHANGED <<archive, recordFiles, locked, old, sweeps, lived, ends, lacked, importGhosts>>
Picks(p) ==
  /\ importer[p].at = "read" /\ cls.there /\ importer[p].mode = "retrofit"
  /\ cls.imported => cls.last # Max(Group(importer[p].kept))
  /\ Selected(p) # {} /\ AtRest
  /\ importer' = [importer EXCEPT ![p].at = "picked", ![p].after = IF cls.imported THEN cls.last ELSE 0]
  /\ UNCHANGED <<archive, recordFiles, locked, old, sweeps, lived, ends, lacked, importGhosts>>

(* Under the lock: what is in external.jsonl is no longer fresh, and the   *)
(* number of the first frame is foretold from the record's last.           *)
Seen == {rows[k].id : k \in DOMAIN rows}
Fresh(p) == {i \in Group(importer[p].kept) : i > importer[p].after /\ i \notin Seen}
Known(p) == {i \in Group(importer[p].kept) : i > importer[p].after /\ i \in Fresh(p)}
            \cup {i \in Seen \cap importer[p].kept : i <= importer[p].after}
Foretold == Final.seq + 2 * Unit
Locks(p) ==
  /\ importer[p].at = "picked"
  /\ \/ /\ (locked \/ Mapped(Fresh(p), Known(p)) = <<>>) /\ Done(p) /\ UNCHANGED locked
     \/ /\ ~locked /\ Mapped(Fresh(p), Known(p)) # <<>> /\ locked' = TRUE
        /\ importer' = [importer EXCEPT ![p].at = "locked", ![p].fresh = Fresh(p),
             ![p].list = Mapped(Fresh(p), Known(p)), ![p].start = Foretold]
  /\ importGhosts' = importGhosts \cup (IF locked' # locked /\ cls.last # importer[p].after THEN {"crossed"} ELSE {})
  /\ UNCHANGED <<archive, recordFiles, old, sweeps, lived, ends, lacked>>

(* appendSlice: a marker, the frames and a rest, numbered from the record  *)
(* as openTrace finds it; what the frames and rows say of one another was  *)
(* foretold.                                                               *)
RowAt(i) == rows[Max({k \in DOMAIN rows : rows[k].id = i})].seq
Slice(p, list, to) ==
  LET first == Whole(Final.seq)
  IN <<Frame(first, "marker", importer[p].n, 0, TRUE)>>
     \o [k \in DOMAIN list |-> FrameOf(list[k], first + k * Unit, to)]
     \o <<Frame(first + (Len(list) + 1) * Unit, "rested", 0, 0, TRUE)>>
Said(p) ==
  [i \in DOMAIN archive |->
     IF i \in importer[p].fresh THEN importer[p].start + (Place(importer[p].list, i) - 1) * Unit ELSE RowAt(i)]
Appends(p) ==
  LET made == Slice(p, importer[p].list, Said(p))
      bent == IF importer[p].start = Whole(Final.seq) + Unit THEN {} ELSE {"foretold"}
  IN /\ importer[p].at = "locked"
     /\ \/ /\ frames' = frames \o made /\ importer' = [importer EXCEPT ![p].at = "sliced"]
           /\ importGhosts' = importGhosts \cup bent /\ UNCHANGED ends
        \/ /\ ends < MaxEnds /\ ends' = ends + 1 /\ Done(p)
           /\ \E k \in 1 .. Len(made) : frames' = frames \o SubSeq(made, 1, k)
           /\ importGhosts' = importGhosts \cup bent \cup {"ended"}
     /\ UNCHANGED <<archive, cls, run, rows, locked, old, sweeps, lived, lacked>>

(* clsPatch: a room the importer had already keeps no retrofit flag.       *)
PatchesClass(p) ==
  /\ importer[p].at = "sliced" /\ importer' = [importer EXCEPT ![p].at = "patched"]
  /\ cls' = [there |-> TRUE, imported |-> TRUE, retrofit |-> ~cls.imported, last |-> Max(importer[p].fresh),
             slices |-> Append(cls.slices,
               [n |-> importer[p].n, retrofit |-> ~cls.imported,
                span |-> (Len(importer[p].list) + 1) * Unit, first |-> importer[p].start - Unit])]
  /\ UNCHANGED <<archive, frames, run, rows, locked, old, sweeps, lived, ends, lacked, importGhosts>>
AppendsRows(p) ==
  /\ importer[p].at = "patched" /\ Done(p) /\ locked' = FALSE
  /\ run' = Append(run, TRUE) /\ rows' = rows \o RowsOf(importer[p].list, Said(p))
  /\ UNCHANGED <<archive, frames, cls, old, sweeps, lived, ends, lacked, importGhosts>>

(* The process ends between two files; a keeper removes a lock it left.    *)
Dies(p) ==
  /\ importer[p].at \notin {"idle", "read", "picked"} /\ ends < MaxEnds /\ ends' = ends + 1 /\ Done(p)
  /\ importGhosts' = importGhosts \cup {"ended"}
  /\ UNCHANGED <<archive, recordFiles, locked, old, sweeps, lived, lacked>>
Unlocks ==
  /\ locked /\ \A p \in Importers : importer[p].at \notin {"locked", "sliced", "patched"}
  /\ locked' = FALSE
  /\ UNCHANGED <<archive, recordFiles, importer, old, sweeps, lived, ends, lacked, importGhosts>>

-----------------------------------------------------------------------------
(* The house: it mints the room of a stream that has none, records a       *)
(* message (not one it has a row of) or a turn, and rests the room.        *)
Racing(p) == importer[p].at \notin {"idle", "read"}
Raced == IF \E p \in Importers : Racing(p) THEN {"raced"} ELSE {}
Lives(more) ==
  /\ lived < MaxLive /\ lived' = lived + 1 /\ frames' = frames \o more
  /\ importGhosts' = importGhosts \cup Raced
Mints ==
  /\ frames = <<>> /\ ~cls.there /\ Lives(<<Lived(0, "mounted")>>) /\ cls' = [NoClass EXCEPT !.there = TRUE]
  /\ UNCHANGED <<archive, run, rows, locked, importer, old, sweeps, ends, lacked>>
Hears(i) ==
  /\ cls.there /\ (Final.seq % Unit) + 1 < Unit /\ i \notin Seen
  /\ Lives(<<[Lived(Between(Final.seq), "message") EXCEPT !.veil = i]>>)
  /\ rows' = IF i = 0 THEN rows ELSE Append(rows, [id |-> i, seq |-> Between(Final.seq), ours |-> FALSE])
  /\ UNCHANGED <<archive, cls, run, locked, importer, old, sweeps, ends, lacked>>
Speaks ==
  /\ cls.there /\ Lives(<<Lived(Whole(Final.seq), "message")>>)
  /\ UNCHANGED <<archive, cls, run, rows, locked, importer, old, sweeps, ends, lacked>>
Rests ==
  /\ cls.there /\ ~AtRest /\ (Final.seq % Unit) + 1 < Unit /\ Lives(<<Lived(Between(Final.seq), "rested")>>)
  /\ run' = Append(run, FALSE)
  /\ UNCHANGED <<archive, cls, rows, locked, importer, old, sweeps, ends, lacked>>

(* markBranchOnParent: a substream of this one was written behind it, by   *)
(* the sweep that wrote it.                                                *)
Branches ==
  /\ cls.imported /\ cls.slices = <<>> /\ AtRest /\ \A k \in DOMAIN frames : frames[k].ours
  /\ ends < MaxEnds /\ ends' = ends + 1
  /\ frames' = Append(frames, [Lived(Between(Final.seq), "branch") EXCEPT !.ours = TRUE])
  /\ importGhosts' = importGhosts \cup Raced
  /\ UNCHANGED <<archive, cls, run, rows, locked, importer, old, sweeps, lived, lacked>>

-----------------------------------------------------------------------------
(* stampImported: of a retrofit room, the frames of its first slice, from  *)
(* the marker that is found on disk; of a room that was written whole,  *)
(* all if every session was imported.                                      *)
Marker(n) == {k \in DOMAIN frames : frames[k].kind = "marker" /\ frames[k].veil = n}
From(slice) == IF Marker(slice.n) = {} THEN slice.first ELSE frames[Min(Marker(slice.n))].seq
Ranges == {<<From(cls.slices[k]), cls.slices[k].span>> : k \in {j \in DOMAIN cls.slices : cls.slices[j].retrofit}}
AllImported == run # <<>> /\ \A k \in DOMAIN run : run[k]
(* Mutation of Eligible: one imported session is enough.                   *)
EligibleIfAnyImported ==
  IF ~cls.imported THEN {}
  ELSE IF cls.retrofit THEN {k \in DOMAIN frames : \E r \in Ranges : frames[k].seq >= r[1] /\ frames[k].seq <= r[1] + r[2]}
  ELSE IF \E k \in DOMAIN run : run[k] THEN DOMAIN frames ELSE {}
Eligible ==
  IF ~cls.imported THEN {}
  ELSE IF cls.retrofit THEN {k \in DOMAIN frames : \E r \in Ranges : frames[k].seq >= r[1] /\ frames[k].seq <= r[1] + r[2]}
  ELSE IF AllImported THEN DOMAIN frames ELSE {}
Stamps ==
  /\ ~old /\ \E k \in Eligible : ~frames[k].origin
  /\ frames' = [k \in DOMAIN frames |-> IF k \in Eligible THEN [frames[k] EXCEPT !.origin = TRUE] ELSE frames[k]]
  /\ importGhosts' = importGhosts \cup (IF cls.retrofit \/ AtRest THEN {} ELSE {"open"})
  /\ UNCHANGED <<archive, cls, run, rows, locked, importer, old, sweeps, lived, ends, lacked>>

Next ==
  \/ ArchiveGrows \/ Upgrade \/ Unlocks \/ Mints \/ Speaks \/ Rests \/ Branches \/ Stamps
  \/ \E i \in {0} \cup Messages : Hears(i)
  \/ \E p \in Importers :
       \/ Sweeps(p) \/ Writes(p) \/ WritesClass(p) \/ WritesRows(p)
       \/ Skips(p) \/ Picks(p) \/ Locks(p) \/ Appends(p) \/ PatchesClass(p) \/ AppendsRows(p) \/ Dies(p)
Spec == Init /\ [][Next]_importVars

-----------------------------------------------------------------------------
(* As long as no importer ended between two files, none read class.json    *)
(* before another's slice, and the house did not write meanwhile: what     *)
(* the archive holds is in the record once, nothing older than last_seq    *)
(* was passed over that some export did not lack; and, if the first number *)
(* was foretold, a row and an edit name the frame they mean.               *)
Ours(i) == {k \in DOMAIN frames : frames[k].ours /\ frames[k].kind # "marker" /\ frames[k].veil = i}
Recorded(i) == Ours(i) # {} \/ \E k \in DOMAIN rows : rows[k].id = i
Quiet == \A p \in Importers : ~Racing(p)
Apart == importGhosts \cap {"ended", "raced", "crossed"} = {}
OnceEach ==
  /\ \A i \in DOMAIN archive : Cardinality(Ours(i)) <= 1
  /\ \A k \in DOMAIN rows : ~rows[k].ours => \A j \in DOMAIN rows : rows[j].id = rows[k].id => j = k
NonePassedOver ==
  Quiet /\ cls.imported =>
    \A i \in 1 .. cls.last : archive[i].kind = "edit" \/ i \in lacked \/ Recorded(i)
IsAt(seq, i) == \E k \in DOMAIN frames : frames[k].seq = seq /\ frames[k].veil = i /\ frames[k].kind = "message"
NamesMeant ==
  /\ \A k \in DOMAIN frames : frames[k].kind = "edit" => IsAt(frames[k].target, archive[frames[k].veil].of)
  /\ \A k \in DOMAIN rows : rows[k].id # 0 => IsAt(rows[k].seq, rows[k].id)

(* A stamp marks frames of the importer, all of them where it marks any.   *)
StampMeant ==
  Quiet /\ AtRest /\ Eligible # {} => Eligible = {k \in DOMAIN frames : frames[k].ours}
LivedUnmarked == \A k \in DOMAIN frames : frames[k].origin => frames[k].ours

ImportSound ==
  Apart =>
    /\ OnceEach /\ NonePassedOver /\ StampMeant
    /\ "foretold" \notin importGhosts => NamesMeant
    /\ "open" \notin importGhosts => LivedUnmarked

(* Violated.  write.mjs:118: "a room is written whole or not at all"; its  *)
(* files are written one after another, and what is left of one that was   *)
(* not finished is neither found nor written over.                         *)
WrittenWhole == Quiet /\ frames # <<>> => cls.there

(* Violated.  slice.mjs:41: "every id from a prior run is already in       *)
(* external.jsonl, so a re-run selects nothing new"; that file is written  *)
(* last.                                                                   *)
Idempotent == \A i \in DOMAIN archive : Cardinality(Ours(i)) <= 1

(* Violated.  write.mjs:135: "every frame this importer writes carries its *)
(* own marker"; the one that marks a parent's branch does not.             *)
EveryFrameMarked == Apart /\ Quiet => \A k \in DOMAIN frames : frames[k].ours => frames[k].origin \/ old

(* Violated.  slice.mjs:97: each item is mapped "at its predicted absolute *)
(* seq"; a room that the house has rested ends with a fraction, from which *)
(* the trace goes on with the next whole number, and not with what was     *)
(* predicted.                                                              *)
PredictedIsWritten == Apart => NamesMeant

(* Violated.  stamp-imported.mjs:28: "any later live frames (after it)     *)
(* must never be touched"; of a room written whole all are marked while    *)
(* the house has it open and no session of its own is in run.json yet.     *)
LivedNeverMarked == LivedUnmarked
============================================================================
