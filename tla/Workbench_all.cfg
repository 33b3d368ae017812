\* Every topic; one section and one chunk, two documents, small bounds.
SPECIFICATION Spec
CONSTANTS
  None = None
  Topics = {"manuscript", "citations", "desk", "discovery", "rules", "library", "files", "events", "caches", "context", "records", "page"}
  Papers = {p1}
  Sections = {s1}
  Outputs = {"evidence_matrix"}
  MaxDesigns = 1
  MaxResults = 1
  MaxText = 1
  MaxFull = 2
  MaxRefs = 1
  Contents <- DoneOrNot
  UserEdits = {"section_draft", "full_draft"}
  Writer = w
  Checkers = {c}
  Chunks = {"k"}
  Claims = {"x"}
  MaxParses = 2
  MaxMoves = 2
  MaxCitations = 1
  Documents = {"d", "e"}
  MaxChanges = 2
  MaxRevisions = 2
  MaxVersion = 1
  MaxProposals = 1
  Target = 2
  MaxRounds = 2
  MaxQueries = 2
  MaxTries = 1
  SearchFaults = {"transient", "refusal", "save"}
  MaxDraftCitations = 2
  Sessions = {s1}
  MaxTurns = 2
  MaxMemory = 1
  MaxNotes = 1
  MaxEdits = 1
  MaxPending = 2
  Sizes <- TwoVersions
  Fetches <- ThreeRanges
  MaxServed = 2
  Writers = {v1, v2}
  Clients = {c1}
  ReadLimit = 1
  MaxEvents = 3
  MaxWriterDeaths = 1
  Interpretations = {"novice"}
  Readers = {r1, r2}
  MaxReparses = 1
  NoteTypes = {"intent", "preference", "exclusion"}
  MaxRows = 3
  ListLimit = 2
  Processes = {"api", "worker"}
  MaxUpdates = 2
  MaxOutages = 1
  MaxCandidates = 2
  Projects = {"p", "q"}
  MaxVisits = 2
  MaxIntents = 2
  MaxActs = 4
  MaxPolls = 2
  PageFaults = {"network", "enqueue", "parse", "denied"}
CHECK_DEADLOCK FALSE
INVARIANTS
  TypeOK
  StaleStaysOut
  LibraryIsWhole
  AnswersAreHonest
  RulesHold
PROPERTIES
  OnlySoundTextIsLocked
  LateCommitsFit
