------------------------------ MODULE MCHouse -------------------------------
(* More parts of the house that share no state, and where nothing waits    *)
(* for another for good; checked in one run as in MCParts.                 *)
EXTENDS Naturals, FiniteSetsExt
CONSTANTS
  Accounts, Owners, Rooted, Attempts, LimitMax, MaxCodes, MaxChanges, \* Links
  Importers, Unit, MaxArchive, MaxSweeps, MaxLive, MaxEnds,   \* Import
  Beings, MaxLines, MaxTicks, MaxStops, MaxStarts, Minutes,  \* Commands
  LifeBudgets, LineLengths, EXCERPT, FullLengths, TAIL, MaxStored, MaxCovenants, \* Memory
  Rooms, Public, People, Being, Reader, Words, LONG, READ_CAP, SEARCH_MAX_RECORDS, MaxRecord, MaxReads, \* Records
  Private, MaxWrites, MaxSwitches   \* Notes
ASSUME HouseAssumption ==
  /\ LimitMax \in Nat /\ Minutes \in Nat
  /\ Owners \cap Accounts = {} /\ Being \notin People
VARIABLES part,
  map, codes, draft, tried, changes, redeemed, expired, left, away, cap, sure, ghosts,
  archive, frames, cls, run, rows, locked, importer, old,
  sweeps, lived, ends, lacked, importGhosts,
  topic, memory, disk, hush, lines, chain, asked, decree, undone, crossed, ticks, stops, starts, commandGhosts,
  store, covered, covenant, life, covenants,
  record, class, touched, reading, reads,
  roster, owner, note, history, self, selfHistory, versions, wanted, ended, switches, heard

LK == INSTANCE Links
IM == INSTANCE Import
CM == INSTANCE Commands
ME == INSTANCE Memory
RE == INSTANCE Records
NO == INSTANCE Notes

linksVars == <<map, codes, draft, tried, changes, redeemed, expired, left, away, cap, sure, ghosts>>
importVars == <<archive, frames, cls, run, rows, locked, importer, old, sweeps, lived, ends, lacked, importGhosts>>
commandVars == <<topic, memory, disk, hush, lines, chain, asked, decree, undone, crossed, ticks, stops, starts, commandGhosts>>
memoryVars == <<store, covered, covenant, life, covenants>>
recordsVars == <<record, class, touched, reading, reads>>
notesVars == <<roster, owner, note, history, self, selfHistory, versions, wanted, ended, switches, heard>>
toolVars == <<recordsVars, notesVars>>
houseVars == <<linksVars, importVars, commandVars, memoryVars, toolVars>>
MCInit ==
  /\ part \in {"links", "import", "commands", "memory", "records", "notes"}
  /\ LK!Init /\ IM!Init /\ CM!Init /\ ME!Init /\ RE!Init /\ NO!Init
  /\ (part = "import" \/ ~old) /\ (part = "commands" \/ topic = "rr")
  /\ (part = "memory" \/ (~covenant.window /\ covenant.budget = Max(LifeBudgets)))
  /\ (part = "records" \/ \A r \in Rooms : class[r].owner = Being)
  /\ (part = "notes" \/ \A r \in Rooms : owner[r] = Being)   \* a choice is its own part's
MCNext ==
  /\ UNCHANGED part
  /\ \/ part = "links" /\ LK!Next /\ UNCHANGED <<importVars, commandVars, memoryVars, toolVars>>
     \/ part = "import" /\ IM!Next /\ UNCHANGED <<linksVars, commandVars, memoryVars, toolVars>>
     \/ part = "commands" /\ CM!Next /\ UNCHANGED <<linksVars, importVars, memoryVars, toolVars>>
     \/ part = "memory" /\ ME!Next /\ UNCHANGED <<linksVars, importVars, commandVars, toolVars>>
     \/ part = "records" /\ RE!Next /\ UNCHANGED <<linksVars, importVars, commandVars, memoryVars, notesVars>>
     \/ part = "notes" /\ NO!Next /\ UNCHANGED <<linksVars, importVars, commandVars, memoryVars, recordsVars>>
MCSpec == MCInit /\ [][MCNext]_<<part, houseVars>>

LinksSound == part = "links" => LK!LinksSound
(* What a kept record says: of an older history as the archive has it, in  *)
(* the pages a being reads, and of its life as much as there is room for.  *)
RecordsSound ==
  /\ part = "import" => IM!ImportSound
  /\ part = "records" => RE!RecordsSound
  /\ part = "memory" => ME!MemorySound
(* What a turn goes by: the settings as they were set, and the notes.      *)
CommandsSound ==
  /\ part = "commands" => CM!CommandsSound
  /\ part = "notes" => NO!NotesSound
=============================================================================
