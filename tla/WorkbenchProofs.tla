-------------------------- MODULE WorkbenchProofs --------------------------
(***************************************************************************)
(* What holds of the requests and tools of MCWorkbench for every number of *)
(* them, of their callers, texts, changes, deaths and outages.             *)
(***************************************************************************)
EXTENDS MCWorkbench, RequestProofs

-----------------------------------------------------------------------------
(* A step of the workbench is one of one component, or nothing for it; the  *)
(* manuscript's are taken while it is not locked.                          *)
LEMMA StepOfEach ==
  ASSUME [Next]_vars
  PROVE  /\ [final = None /\ Paper!ManuscriptStep]_manuscriptVars
         /\ [Cite!CitationNext]_citationVars /\ [Desk!DeskNext]_deskVars
         /\ [Find!DiscoveryNext]_discoveryVars /\ [Shelf!LibraryNext]_libraryVars
         /\ [Files!FilesNext]_filesVars /\ [Trail!EventsNext]_eventsVars
         /\ [Cache!CacheNext]_cacheVars /\ [Known!ContextNext]_contextVars
         /\ [Store!RecordsNext]_recordVars /\ [Page!PageNext]_pageVars
<1>1. CASE UNCHANGED vars
  BY <1>1 DEF vars
<1>2. CASE Next
  <2>1. CASE PaperStep(Paper!ManuscriptStep)
    BY <2>1 DEF PaperStep
  <2>2. CASE CiteStep(Cite!CitationNext)
    BY <2>2 DEF CiteStep
  <2>3. CASE DeskStep(Desk!DeskNext)
    BY <2>3 DEF DeskStep
  <2>4. CASE FindStep(Find!DiscoveryNext)
    BY <2>4 DEF FindStep
  <2>5. CASE ShelfStep(Shelf!LibraryNext)
    BY <2>5 DEF ShelfStep
  <2>6. CASE FileStep(Files!FilesNext)
    BY <2>6 DEF FileStep
  <2>7. CASE EventStep(Trail!EventsNext)
    BY <2>7 DEF EventStep
  <2>8. CASE CacheStep(Cache!CacheNext)
    BY <2>8 DEF CacheStep
  <2>9. CASE KnownStep(Known!ContextNext)
    BY <2>9 DEF KnownStep
  <2>10. CASE RecordStep(Store!RecordsNext)
    BY <2>10 DEF RecordStep
  <2>11. CASE PageStep(Page!PageNext)
    BY <2>11 DEF PageStep
  <2> QED
    BY <1>2, <2>1, <2>2, <2>3, <2>4, <2>5, <2>6, <2>7, <2>8, <2>9, <2>10, <2>11 DEF Next
<1> QED
  BY <1>1, <1>2

-----------------------------------------------------------------------------
(* What holds of each component holds of every behaviour of the workbench. *)

LEMMA PaperInvariant == Spec => []PaperInv
<1>1. Init => PaperInv
  BY PaperInit DEF Init
<1>2. ASSUME PaperInv, UNCHANGED manuscriptVars PROVE PaperInv'
  BY <1>2 DEF PaperInv, PaperTypes, ReportIsOfDraft, DraftKnowsItself, manuscriptVars,
     Paper!Cited, Paper!Assembled, Blueprint, Section, Report, Locked, Paper!Reference,
     Paper!FullDraft, Paper!Part
<1>3. PaperInv /\ [Next]_vars => PaperInv'
  BY <1>2, StepOfEach, PaperStepInv
<1> QED
  BY <1>1, <1>3, PTL DEF Spec

LEMMA CiteInvariant == Spec => []CiteInv
<1>1. Init => CiteInv
  BY CiteInit DEF Init
<1>2. ASSUME CiteInv, UNCHANGED citationVars PROVE CiteInv'
  <2>1. CiteTypes'
    BY <1>2 DEF CiteInv, CiteTypes, citationVars, Memory, CiteRow, Draft, Verification, Mapping, Verdict,
       Cite!Ids, Cite!Callers, Cite!Idle, Cite!NoRow
  <2>2. ASSUME NEW c \in Cite!Callers PROVE CallPlace(c)'
    BY <1>2, <2>2 DEF CiteInv, CallPlace, Begun, Judged, citationVars, CiteRow, Cite!NoRow
  <2> QED
    BY <2>1, <2>2 DEF CiteInv, Cite!Callers
<1>3. CiteInv /\ [Next]_vars => CiteInv'
  BY <1>2, StepOfEach, CiteStepInv
<1> QED
  BY <1>1, <1>3, PTL DEF Spec

LEMMA DeskInvariant == Spec => []DeskInv
<1>1. Init => DeskInv
  BY DeskInit DEF Init
<1>2. ASSUME DeskInv, UNCHANGED deskVars PROVE DeskInv'
  BY <1>2 DEF DeskInv, DeskCore, DeskTypes, deskVars, RequestIsOfEditor, ProposalIsOfEditor, DeskText, Selection,
     Rewrite, Proposal, DeskSave, Desk!Passages
<1>3. DeskInv /\ [Next]_vars => DeskInv'
  BY <1>2, StepOfEach, DeskStepInv
<1> QED
  BY <1>1, <1>3, PTL DEF Spec

LEMMA ShelfInvariant == Spec => []ShelfInv
<1>1. Init => ShelfInv
  BY ShelfInit DEF Init
<1>2. ASSUME ShelfInv, UNCHANGED libraryVars PROVE ShelfInv'
  <2>1. LibraryTypes'
    BY <1>2 DEF ShelfInv, libraryVars, LibraryTypes, ToAdd, ToUpdate, ToOpen, ToSave, ToErase,
       Shelf!Session, Shelf!Link, Shelf!Turns
  <2>2. NothingIsLeft' /\ RequestsFit' /\ \A s \in Sessions : SessionBelongs(s)'
    BY <1>2 DEF ShelfInv, libraryVars, NothingIsLeft, RequestsFit, SessionBelongs, Shelf!Turns
  <2> QED
    BY <2>1, <2>2 DEF ShelfInv
<1>3. ShelfInv /\ [Next]_vars => ShelfInv'
  BY <1>2, StepOfEach, ShelfStepInv
<1> QED
  BY <1>1, <1>3, PTL DEF Spec

LEMMA CacheInvariant == Spec => []CacheInv
<1>1. Init => CacheInv
  BY CacheInit DEF Init
<1>2. ASSUME CacheInv, UNCHANGED cacheVars PROVE CacheInv'
  BY <1>2 DEF CacheInv, CacheTypes, cacheVars, MadeIsOf, Reading, Cache!RowIsOfOneParse,
     Cache!Kinds, Cache!Parts, Cache!Part, Cache!From, Cache!Failed
<1>3. CacheInv /\ [Next]_vars => CacheInv'
  BY <1>2, StepOfEach, CacheStepInv
<1> QED
  BY <1>1, <1>3, PTL DEF Spec

LEMMA RecordInvariant == Spec => []RecordInv
<1>1. Init => RecordInv
  BY RecordInit DEF Init
<1>2. ASSUME RecordInv, UNCHANGED recordVars PROVE RecordInv'
  BY <1>2 DEF RecordInv, RecordTypes, RecordUse, TurnsAreTaken, AndApplied, FileIsCurrent, recordVars,
     Store!Record, Store!File, Store!Idle
<1>3. RecordInv /\ [Next]_vars => RecordInv'
  BY <1>2, StepOfEach, RecordStepInv
<1> QED
  BY <1>1, <1>3, PTL DEF Spec

LEMMA FilesInvariant == Spec => []FilesInv
<1>1. Init => FilesInv
  BY FilesInit DEF Init
<1>2. ASSUME FilesInv, UNCHANGED filesVars PROVE FilesInv'
  BY <1>2 DEF FilesInv, filesVars, Files!PartIsAsAnnounced
<1>3. FilesInv /\ [Next]_vars => FilesInv'
  BY <1>2, StepOfEach, FilesStepInv
<1> QED
  BY <1>1, <1>3, PTL DEF Spec

LEMMA EventsInvariant == Spec => []EventsInv
<1>1. Init => EventsInv
  BY EventsInit DEF Init
<1>2. ASSUME EventsInv, UNCHANGED eventsVars PROVE EventsInv'
  BY <1>2 DEF EventsInv, eventsVars, NumberIsNext, Follows, Numbered, Stream, Pending
<1>3. EventsInv /\ [Next]_vars => EventsInv'
  BY <1>2, StepOfEach, EventsStepInv
<1> QED
  BY <1>1, <1>3, PTL DEF Spec

LEMMA PageInvariant == Spec => []PageInv
<1>1. Init => PageInv
  BY PageInit DEF Init
<1>2. ASSUME PageInv, UNCHANGED pageVars PROVE PageInv'
  <2>1. PageTypes' /\ VisitsFit'
    BY <1>2 DEF PageInv, PageTypes, VisitsFit, pageVars
  <2>2. TasksFit'
    BY <1>2 DEF PageInv, TasksFit, ReplyFits, Page!Favors, pageVars
  <2>3. ~late' => VisitIsShown' /\ ImportIsShown'
    BY <1>2 DEF PageInv, VisitIsShown, ImportIsShown, Finished, Page!IsCurrent, pageVars
  <2>4. ~late' /\ ~crossed' => OneByOne'
    BY <1>2 DEF PageInv, OneByOne, Page!Favors, pageVars
  <2>5. ~late' /\ ~crossed' /\ ~lost' => FavoriteIsShown'
    BY <1>2 DEF PageInv, FavoriteIsShown, Page!Favors, Changing, pageVars
  <2> QED
    BY <2>1, <2>2, <2>3, <2>4, <2>5 DEF PageInv
<1>3. PageInv /\ [Next]_vars => PageInv'
  BY <1>2, StepOfEach, PageStepInv
<1> QED
  BY <1>1, <1>3, PTL DEF Spec

-----------------------------------------------------------------------------
(* Evidence that has once lost its source stays out (verify_integrity):    *)
(* whoever verifies what at the same time, over the rows its session keeps *)
(* in memory, and however often the paper is parsed again, leaves the      *)
(* project and comes back, no citation is found good whose row was stale   *)
(* when the call began or, but for the row it holds, when its verification *)
(* began, nor one whose paper the gates found elsewhere or parsed again.   *)
THEOREM StaleEvidenceStaysOut == Spec => []StaleStaysOut
BY CiteInvariant, CiteShows, PTL DEF StaleStaysOut

(* What is locked as the final manuscript is what the last audit passed,   *)
(* and nobody has written it over since, unless the agent saved the report *)
(* itself; a text the tool assembled has no section with a placeholder and *)
(* cites only what the reference list has.  Of a text somebody wrote over  *)
(* the tools believe what its content says.                                *)
THEOREM FinalTextIsSound == Spec => OnlySoundTextIsLocked
<1>1. ASSUME PaperInv, [Next]_vars, final' # final
      PROVE  /\ ~report.blocked /\ report.of \in {full, None}
             /\ Paper!Assembled => ~final'.open /\ final'.cites \subseteq refs.entries
  <2>1. Paper!ManuscriptStep
    BY <1>1, StepOfEach DEF manuscriptVars
  <2> QED
    BY <1>1, <2>1, OnlyFinalizeLocks, PaperLocks
<1>2. PaperInv /\ [Next]_vars =>
        [final' # final =>
           /\ ~report.blocked /\ report.of \in {full, None}
           /\ Paper!Assembled => ~final'.open /\ final'.cites \subseteq refs.entries]_(Paper!manuscriptVars)
  BY <1>1
<1> QED
  BY <1>2, PaperInvariant, PTL DEF Spec, OnlySoundTextIsLocked, Paper!OnlySoundTextIsLocked

(* Nothing outlives the project or the paper it belongs to, whichever      *)
(* request commits after a deletion; a cached summary is of one parse; and *)
(* a record of a task that is written by one process at a time has every   *)
(* update, as long as Redis is there.                                      *)
THEOREM LibraryStaysWhole == Spec => []LibraryIsWhole
<1>1. ShelfInv /\ CacheInv /\ RecordInv => LibraryIsWhole
  BY ShelfShows, RecordShows DEF CacheInv, LibraryIsWhole
<1> QED
  BY <1>1, ShelfInvariant, CacheInvariant, RecordInvariant, PTL

(* A request that commits late changes what it looked at and nothing else: *)
(* a proposal replaces only the very text it was written for, no revision  *)
(* is changed or lost, a turn loses its place only to the request that     *)
(* erases it, and who changes a cached row is told so.                     *)
THEOREM LateRequestsFit == Spec => LateCommitsFit
<1>1. ASSUME DeskInv, [Next]_vars, version' # version /\ saves' # saves
      PROVE  proposal.of = text /\ proposal.base[1] = document
  <2>1. Desk!DeskNext
    BY <1>1, StepOfEach DEF deskVars
  <2> QED
    BY <1>1, <2>1, DeskStepFits
<1>2. ASSUME DeskInv, [Next]_vars, NEW d \in Documents
      PROVE  SubSeq(revisions'[d], 1, Len(revisions[d])) = revisions[d]
  <2>1. CASE Desk!DeskNext
    BY <1>2, <2>1, DeskStepInv
  <2>2. CASE UNCHANGED deskVars
    BY <1>2, <2>2, SubSeqFull DEF deskVars, DeskInv, DeskCore, DeskTypes
  <2> QED
    BY <1>2, <2>1, <2>2, StepOfEach
<1>3. ASSUME ShelfInv, [Next]_vars, NEW s \in Sessions, sessions[s].state = "open",
             sessions'[s].state = "open", NEW t \in Shelf!Saved(s), sessions'[s].place[t] = 0
      PROVE  \E r \in pending \ pending' : r.kind = "erase" /\ r.session = s /\ r.turn = t
  <2>1. sessions[s].place[t] > 0
    BY <1>3 DEF Shelf!Saved
  <2>2. Shelf!LibraryNext
    BY <1>3, <2>1, StepOfEach DEF libraryVars
  <2> QED
    BY <1>3, <2>2, ShelfStepErases
<1>4. ASSUME CacheInv, [Next]_vars, NEW k \in Cache!Kinds, row'[k] # row[k]
      PROVE  \E r \in Readers : reading[r] # None /\ reading[r].kind = k /\ replies'[r] = 200
  <2>1. Cache!CacheNext
    BY <1>4, StepOfEach DEF cacheVars
  <2> QED
    BY <1>4, <2>1, CacheStepTold
<1>5. DeskInv /\ [Next]_vars =>
        [version' # version /\ saves' # saves
           => proposal.of = text /\ proposal.base[1] = document]_(Desk!deskVars)
  BY <1>1
<1>6. DeskInv /\ [Next]_vars =>
        [\A d \in Documents :
           SubSeq(revisions'[d], 1, Len(revisions[d])) = revisions[d]]_(Desk!deskVars)
  BY <1>2
<1>7. ShelfInv /\ [Next]_vars =>
        [\A s \in Sessions :
           sessions[s].state = "open" /\ sessions'[s].state = "open" =>
             \A t \in Shelf!Saved(s) : sessions'[s].place[t] = 0 =>
               \E r \in pending \ pending' :
                 r.kind = "erase" /\ r.session = s /\ r.turn = t]_(Shelf!libraryVars)
  BY <1>3
<1>8. CacheInv /\ [Next]_vars =>
        [\A k \in Cache!Kinds : row'[k] # row[k] =>
           \E r \in Readers : reading[r] # None /\ reading[r].kind = k
                                /\ replies'[r] = 200]_(Cache!cacheVars)
  BY <1>4
<1> QED
  BY <1>5, <1>6, <1>7, <1>8, DeskInvariant, ShelfInvariant, CacheInvariant, PTL
     DEF Spec, LateCommitsFit, Desk!ReplacementFits, Desk!RevisionsStay, Shelf!OnlyErasedTurnsGo,
         Cache!ChangesAreTold

(* Whatever the network loses, reorders or delays: as long as every answer *)
(* came in the visit that asked and no search crossed another request, the *)
(* page shows what the server has, and it locks no button for ever; a part *)
(* of a file has the bytes it announces; and a stream of events has all of *)
(* them in order, each number taken once.                                  *)
THEOREM ClientsAreToldTheTruth == Spec => []AnswersAreHonest
<1>1. FilesInv /\ EventsInv /\ PageInv => AnswersAreHonest
  BY EventsShow, PageShows DEF FilesInv, AnswersAreHonest
<1> QED
  BY <1>1, FilesInvariant, EventsInvariant, PageInvariant, PTL

=============================================================================
