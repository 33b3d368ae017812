------------------------------ MODULE Requests ------------------------------
(***************************************************************************)
(* The components that MCWorkbench composes and whose invariants are in    *)
(* RequestProofs: the manuscript, the citations, the writing desk, the     *)
(* project with its sessions, the cached readings, the records of tasks,   *)
(* the files, the events of an execution and the page of the search.       *)
(***************************************************************************)
EXTENDS Nothing, Naturals, Sequences, FiniteSets

CONSTANTS
  Papers, Sections, Outputs, MaxDesigns, MaxResults, MaxText, MaxFull, MaxRefs,
  Contents, UserEdits,
  Writer, Checkers, Chunks, Claims, MaxParses, MaxMoves, MaxCitations,
  Documents, MaxChanges, MaxRevisions, MaxVersion, MaxProposals,
  Sessions, MaxTurns, MaxMemory, MaxNotes, MaxEdits, MaxPending,
  Interpretations, Readers, MaxReparses,
  Processes, MaxUpdates, MaxOutages,
  Sizes, Fetches, MaxServed,
  Writers, Clients, ReadLimit, MaxEvents, MaxWriterDeaths,
  Projects, MaxVisits, MaxIntents, MaxActs, MaxPolls, PageFaults

VARIABLES
  library, carded, outputs, designs, designed, results, blueprint, drafts, refs,
  full, report, final,
  parse, member, evidence, calls, moves,
  revisions, changes, document, known, text, version, selection, requests,
  asked, proposal, saves, saving,
  project, papers, links, edits, memory, told, items, notes, sessions, pending,
  parsed, row, reading, replies,
  onDisk, temporary, inRedis, redisUp, user, resting, updates, applied, outages,
  overlapped,
  file, size, serving, served,
  status, events, holder, writers, silent, streams,
  page, store, flights, watchers, favorites, jobs, attached, acts, late, crossed,
  lost

(* A claim shares words with itself alone. *)
Alike == {<<c, c>> : c \in Claims}

Paper == INSTANCE ManuscriptWorkflow
Cite  == INSTANCE Citations
Desk  == INSTANCE WritingDesk
Shelf == INSTANCE ProjectLibrary
Cache == INSTANCE ReadingCaches
Store == INSTANCE TaskRecords
Files == INSTANCE PaperFiles WITH version <- file, answers <- served
Trail == INSTANCE ExecutionEvents
Page  == INSTANCE DiscoverPage

ASSUME RequestsAssumption ==
  /\ Paper!ManuscriptAssumption /\ Cite!CitationAssumption
  /\ Desk!DeskAssumption /\ Shelf!LibraryAssumption
  /\ Cache!CacheAssumption /\ Store!RecordsAssumption
  /\ Files!FilesAssumption /\ Trail!EventsAssumption /\ Page!PageAssumption

manuscriptVars == <<library, carded, outputs, designs, designed, results,
                    blueprint, drafts, refs, full, report, final>>
citationVars   == <<parse, member, evidence, calls, moves>>
deskVars       == <<revisions, changes, document, known, text, version, selection,
                    requests, asked, proposal, saves, saving>>
libraryVars    == <<project, papers, links, edits, memory, told, items, notes,
                    sessions, pending>>
cacheVars      == <<parsed, row, reading, replies>>
recordVars     == <<onDisk, temporary, inRedis, redisUp, user, resting, updates,
                    applied, outages, overlapped>>
filesVars      == <<file, size, serving, served>>
eventsVars     == <<status, events, holder, writers, silent, streams>>
pageVars       == <<page, store, flights, watchers, favorites, jobs, attached, acts,
                    late, crossed, lost>>
=============================================================================
