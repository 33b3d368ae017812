---------------------------- MODULE MCWorkbench ----------------------------
(***************************************************************************)
(* What the user's requests and the agent's tools do to a project, for     *)
(* TLC: one of ManuscriptWorkflow, Citations, WritingDesk,                 *)
(* DiscoverySearch, ProjectLibrary, PaperFiles, ExecutionEvents,           *)
(* ReadingCaches, ResearchContext, TaskRecords and DiscoverPage per        *)
(* behaviour, as in MCServices, and the algorithms that only compute over  *)
(* every input of a bounded set.                                           *)
(***************************************************************************)
EXTENDS MCRules, Requests, TLC

CONSTANTS
  Target, MaxRounds, MaxQueries, MaxTries, SearchFaults,
  MaxDraftCitations,
  NoteTypes, MaxRows, ListLimit, MaxCandidates,
  Topics    \* what to check

VARIABLES
  focus, input,
  intent, round, toSearch, searched, provider, attempt, found, failures,
  warnings, stage, progress, response, sent,
  remembered, built

-----------------------------------------------------------------------------
(* Instances *)

(* A full draft that says it is done, and one that says it is not. *)
DoneOrNot == {[open |-> FALSE, listed |-> 1, whole |-> TRUE],
              [open |-> TRUE, listed |-> 0, whole |-> FALSE]}

(* Two versions of a file, the second shorter, and three ranges of it. *)
TwoVersions == <<3, 2>>
ThreeRanges == {[first |-> 0, last |-> 1], [first |-> None, last |-> 2],
                [first |-> 2, last |-> None]}

(* A request without a question, one with, and one of blanks. *)
Intents == {{"topic"}, {"topic", "question"}, {}}
OnTopic == {"t"}
Result(id, doi, title, year, fields) ==
  [id |-> id, doi |-> doi, title |-> title, year |-> year, fields |-> fields]
Answers == {<<>>, <<Result("1", None, "t", None, {})>>,
            <<Result("2", "d", "t", 2020, {"pdf"})>>,
            <<Result("3", "d", "u", 2020, {"pdf", "abstract"})>>,
            <<Result("4", "e", "u", None, {})>>}

Find  == INSTANCE DiscoverySearch WITH results <- found, calls <- sent
Rules == INSTANCE WritingRules
Known == INSTANCE ResearchContext WITH Texts <- {"a", "b"}, TextTags <- {"b"}

ASSUME WorkbenchAssumption ==
  Find!DiscoveryAssumption /\ Known!ContextAssumption

discoveryVars  == <<intent, round, toSearch, searched, provider, attempt, found,
                    failures, warnings, stage, progress, response, sent>>
contextVars    == <<remembered, built>>
vars == <<focus, input, manuscriptVars, citationVars, deskVars, discoveryVars,
          libraryVars, filesVars, eventsVars, cacheVars, contextVars, recordVars,
          pageVars>>

-----------------------------------------------------------------------------
(* Inputs of the pure algorithms *)
SeqsTo(S, n) == UNION {[1..k -> S] : k \in 0..n}

Tokens == {Rules!Word("u"), Rules!Word("v"), Rules!Cite("k"), Rules!Cite("l"),
           Rules!Break, Rules!Unclosed}
DraftInputs ==
  [rule : {"draft"},
   draft : [content : SeqsTo(Tokens, 3),
            citations : SeqsTo([key : {"k", "l"}, evidence : {"E1", "E2"},
                                claim : {<<"u">>, <<"u", "v">>}], 2)]]
AuditInputs ==
  [rule : {"audit"},
   doc : SeqsTo([claim : {"x", "y"}, long : BOOLEAN, cites : SUBSET {"a", "b"}], 2),
   supports : SUBSET ({"a", "b"} \X {"x", "y", None})]

(* Three results that may be twins by DOI or by title. *)
Finds(k) == [key : {k}, doi : {None, "d", "e"}, title : {"t", "u"}, year : {2020},
             fields : {{}, {"pdf", "abstract"}}]
MergeInputs ==
  [rule : {"merge"}, found : {<<a, b, c>> : a \in Finds("1"), b \in Finds("2"),
                                            c \in Finds("3")}]

UploadInputs == [rule : {"upload"}, chunks : SeqsTo([size : 1..2, pdf : BOOLEAN], 3)]
RangeInputs  == [rule : {"range"}, length : 1..4,
                 fetch : [first : {None, 0, 1, 3}, last : {None, 0, 1, 5}]]
PageInputs   == [rule : {"page"}, pages : SeqsTo(SUBSET {"a", "b"}, 3),
                 anchors : SUBSET {"a", "b"} \union {None}, start : 0..4]

(* A draft with up to two citations, and events on clocks that differ. *)
TraceInputs ==
  [rule : {"trace"}, status : {"completed", "failed", "paused"}, used : {2, 3},
   skill : BOOLEAN, stages : {{}, {"context", "generation"}},
   times : {<<>>, <<1, 3>>, <<3, 1>>}, paragraphs : {1, 2}, repairs : {None, 1, 2},
   citations : SeqsTo([key : {"k"}, paper : {"p"}, evidence : {None, "e", "f"},
                       status : {"verified", "weak", "unsupported"}], 2)]

Inputs == DraftInputs \union AuditInputs \union MergeInputs \union UploadInputs
            \union RangeInputs \union PageInputs \union TraceInputs
            \union ProjectInputs \union RuleInputs

-----------------------------------------------------------------------------
Init ==
  /\ focus \in Topics
  /\ IF focus = "rules" THEN input \in Inputs ELSE input = None
  /\ Paper!ManuscriptInit /\ Cite!CitationInit /\ Find!DiscoveryInit
  /\ Desk!DeskInit
  /\ focus = "desk" \/ document = CHOOSE d \in Documents : TRUE
  /\ Shelf!LibraryInit /\ Files!FilesInit /\ Trail!EventsInit
  /\ Cache!CacheInit /\ (focus = "caches" \/ parsed = 0)
  /\ Known!ContextInit /\ Store!RecordsInit
  /\ Page!PageInit /\ (focus = "page" \/ favorites = {})

(* A behaviour ends with the lock of the manuscript: nothing reads final.  *)
PaperStep(Step) ==
  /\ focus = "manuscript" /\ final = None /\ Step
  /\ UNCHANGED <<focus, input, citationVars, deskVars, discoveryVars,
                 libraryVars, filesVars, eventsVars, cacheVars, contextVars,
                 recordVars, pageVars>>
CiteStep(Step) ==
  /\ focus = "citations" /\ Step
  /\ UNCHANGED <<focus, input, manuscriptVars, deskVars, discoveryVars,
                 libraryVars, filesVars, eventsVars, cacheVars, contextVars,
                 recordVars, pageVars>>
DeskStep(Step) ==
  /\ focus = "desk" /\ Step
  /\ UNCHANGED <<focus, input, manuscriptVars, citationVars, discoveryVars,
                 libraryVars, filesVars, eventsVars, cacheVars, contextVars,
                 recordVars, pageVars>>
FindStep(Step) ==
  /\ focus = "discovery" /\ Step
  /\ UNCHANGED <<focus, input, manuscriptVars, citationVars, deskVars,
                 libraryVars, filesVars, eventsVars, cacheVars, contextVars,
                 recordVars, pageVars>>
ShelfStep(Step) ==
  /\ focus = "library" /\ Step
  /\ UNCHANGED <<focus, input, manuscriptVars, citationVars, deskVars,
                 discoveryVars, filesVars, eventsVars, cacheVars, contextVars,
                 recordVars, pageVars>>
FileStep(Step) ==
  /\ focus = "files" /\ Step
  /\ UNCHANGED <<focus, input, manuscriptVars, citationVars, deskVars,
                 discoveryVars, libraryVars, eventsVars, cacheVars, contextVars,
                 recordVars, pageVars>>
EventStep(Step) ==
  /\ focus = "events" /\ Step
  /\ UNCHANGED <<focus, input, manuscriptVars, citationVars, deskVars,
                 discoveryVars, libraryVars, filesVars, cacheVars, contextVars,
                 recordVars, pageVars>>
CacheStep(Step) ==
  /\ focus = "caches" /\ Step
  /\ UNCHANGED <<focus, input, manuscriptVars, citationVars, deskVars,
                 discoveryVars, libraryVars, filesVars, eventsVars, contextVars,
                 recordVars, pageVars>>
KnownStep(Step) ==
  /\ focus = "context" /\ Step
  /\ UNCHANGED <<focus, input, manuscriptVars, citationVars, deskVars,
                 discoveryVars, libraryVars, filesVars, eventsVars, cacheVars,
                 recordVars, pageVars>>
RecordStep(Step) ==
  /\ focus = "records" /\ Step
  /\ UNCHANGED <<focus, input, manuscriptVars, citationVars, deskVars,
                 discoveryVars, libraryVars, filesVars, eventsVars, cacheVars,
                 contextVars, pageVars>>
PageStep(Step) ==
  /\ focus = "page" /\ Step
  /\ UNCHANGED <<focus, input, manuscriptVars, citationVars, deskVars,
                 discoveryVars, libraryVars, filesVars, eventsVars, cacheVars,
                 contextVars, recordVars>>

Next == PaperStep(Paper!ManuscriptStep) \/ CiteStep(Cite!CitationNext)
          \/ DeskStep(Desk!DeskNext) \/ FindStep(Find!DiscoveryNext)
          \/ ShelfStep(Shelf!LibraryNext) \/ FileStep(Files!FilesNext)
          \/ EventStep(Trail!EventsNext) \/ CacheStep(Cache!CacheNext)
          \/ KnownStep(Known!ContextNext) \/ RecordStep(Store!RecordsNext)
          \/ PageStep(Page!PageNext)

Spec == Init /\ [][Next]_vars

-----------------------------------------------------------------------------
(* Every variable of the module a behaviour is about has its type; the     *)
(* others stay as they start.                                              *)
TypeOK ==
  CASE focus = "manuscript" -> Paper!ManuscriptTypeOK
    [] focus = "citations"  -> Cite!CitationTypeOK
    [] focus = "desk"       -> Desk!DeskTypeOK
    [] focus = "discovery"  -> Find!DiscoveryTypeOK
    [] focus = "library"    -> Shelf!LibraryTypeOK
    [] focus = "files"      -> Files!FilesTypeOK
    [] focus = "events"     -> Trail!EventsTypeOK
    [] focus = "caches"     -> Cache!CacheTypeOK
    [] focus = "context"    -> Known!ContextTypeOK
    [] focus = "records"    -> Store!RecordsTypeOK
    [] focus = "page"       -> Page!PageTypeOK
    [] focus = "rules"      -> TRUE

(* ManuscriptWorkflow: what is locked as final is what the last audit      *)
(* passed; what the tool assembled has no placeholder and cites what is    *)
(* listed.                                                                 *)
OnlySoundTextIsLocked == Paper!OnlySoundTextIsLocked

(* Citations: nothing stale is found good. *)
StaleStaysOut == Cite!StaleStaysOut

(* WritingDesk and ProjectLibrary: a request that commits late changes     *)
(* what it looked at, the text a proposal was made for, the revision after *)
(* the last and the turn a user deletes, and nothing else.  ReadingCaches: *)
(* a cached row changes only when a request is told so.                    *)
LateCommitsFit ==
  Desk!ReplacementFits /\ Desk!RevisionsStay /\ Shelf!OnlyErasedTurnsGo /\ Cache!ChangesAreTold

(* ProjectLibrary: nothing outlives what it belongs to.  ReadingCaches: a  *)
(* cached summary is of one parse.  TaskRecords: a record has its updates. *)
LibraryIsWhole ==
  Shelf!LibraryIsWhole /\ Cache!RowIsOfOneParse /\ Store!RecordsAreKept

(* DiscoverPage: what the page says is so, and it does not lock for ever.  *)
(* PaperFiles: the bytes of a part are as many as are announced.           *)
(* ExecutionEvents: a stream has every event, however often it is lost.    *)
AnswersAreHonest ==
  /\ Page!PageTellsTruth /\ Page!ButtonsAreReleased
  /\ Files!PartIsAsAnnounced /\ Trail!StreamIsWhole /\ Trail!SeqIsTakenOnce

(* What holds because of what an algorithm computes.                       *)
(* DiscoverySearch: a search is bounded and its answer says what happened. *)
(* ResearchContext: the memory has what the notes say, and nothing else.   *)
(* WritingRules: a proposal is grounded in evidence, the audit of a        *)
(* document that cites nothing twice is exact.  DiscoverySearch: dated     *)
(* results are merged.  PaperFiles: an upload is checked, a range is the   *)
(* bytes asked for, a passage is looked for on every page.  Retrieval: the *)
(* evidence is what was recalled, once, and a marker is of its chunk.      *)
(* Indexing: every text is in the index and in its parent, in its order.   *)
(* ResearchContext: a project's evidence is of the papers it may use.      *)
(* TableStructure: the rows of a table are kept over its pages.            *)
BadDraft == [content |-> <<>>, citations |-> <<>>]
Passed   == [verdict |-> "pass", issues |-> {}, instruction |-> FALSE]
Run      == [project |-> "p", document |-> "d", skill |-> "writing",
             status |-> input.status, used |-> input.used, limit |-> 2, ended |-> 2]
Proposed == [project |-> "p", document |-> "d", kind |-> "generate",
             paragraphs |-> input.paragraphs, status |-> "ready",
             repairs |-> input.repairs, citations |-> input.citations]

RulesHold ==
  /\ focus = "context" => Known!ContextIsComplete
  /\ focus = "discovery" => Find!SearchIsBounded /\ Find!AnswerIsHonest
  /\ focus = "rules" =>
    CASE input.rule = "draft" ->
           Rules!ProposalIsGrounded(BadDraft, input.draft, Passed, BadDraft, {"E1"})
      [] input.rule = "audit" ->
           Rules!CitesOnce(input.doc) => Rules!AuditIsExact(input.doc, input.supports)
      [] input.rule = "merge" -> Find!MergedOnce(input.found)
      [] input.rule = "upload" -> Files!UploadIsRight(input.chunks, 4)
      [] input.rule = "range" -> Files!RangeIsRight(input.fetch, input.length)
      [] input.rule = "page" -> Files!PageIsBest(input.pages, input.anchors, input.start)
      [] input.rule = "trace" ->
           Trail!GateAndScoreAgree(Run, Proposed, input.skill, input.stages, input.times)
      [] input.rule = "project" ->
           Known!ProjectEvidenceIsSound(input.query, input.papers, 5, input.k, input.allowed)
      [] OTHER -> RuleHolds(input)

-----------------------------------------------------------------------------
(* Citations: expected to fail, see there. *)
LexicalGateHolds == Cite!LexicalGateHolds

(* ProjectLibrary: expected to fail, see there. *)
NotesAreKept == Shelf!NotesAreKept

(* ResearchContext: expected to fail, see there. *)
MemoryIsBounded == Known!MemoryIsBounded

(* TaskRecords: expected to fail, see there. *)
RecordsAreNeverLost == Store!FileIsWhole /\ Store!OutagesLoseNothing

(* DiscoverPage: expected to fail, see there. *)
LastSearchIsShown == Page!LastSearchIsShown

(* DiscoverPage: expected to fail, see there. *)
NothingComesLate == Page!NothingComesLate

(* DiscoverPage: expected to fail, see there. *)
ImportedIsInProject == Page!ImportedIsInProject
=============================================================================
