---------------------------- MODULE DiscoverPage ----------------------------
(***************************************************************************)
(* The page of the literature search: the store in the browser             *)
(* (frontend/src/stores/discover.ts), the view that resets it at every     *)
(* visit (views/LiteratureDiscover.vue), and the answers of api/discovery. *)
(*                                                                         *)
(* There is one result.  What the page asks is served at one step and      *)
(* answered at another, so that answers overtake each other and outlive    *)
(* the visit that asked.  The drawer with the details shows what the list  *)
(* shows; texts, filters and the edited intent are left out.               *)
(***************************************************************************)
EXTENDS Naturals, Sequences, FiniteSets

CONSTANTS
  Projects,
  MaxVisits,   \* bound: times the page is opened
  MaxIntents,  \* bound: requirements described in a visit
  MaxActs,     \* bound: requests of the user
  MaxPolls,    \* IMPORT_POLL_ATTEMPTS, 400
  PageFaults,  \* "network", "enqueue" and "parse" may fail, a poll be "denied"
  None

(* What the constants have to satisfy. *)
PageAssumption ==
  /\ Projects # {} /\ None \notin Projects
  /\ None \notin [project : Projects \union {None}, intent : Nat, favorite : BOOLEAN]
  /\ PageFaults \subseteq {"network", "enqueue", "parse", "denied"}
  /\ {MaxVisits, MaxIntents, MaxActs} \subseteq Nat /\ MaxPolls \in Nat \ {0}

VARIABLES
  page,       \* the route, the number of the visit, whether its project is there
  store,      \* useDiscoverStore
  flights,    \* requests in flight
  watchers,   \* monitorImport
  favorites,  \* projects that have the result as a favorite
  jobs,       \* imports of the result, in the order of their tasks
  attached,   \* projects that have the result among their papers
  acts,
  late,       \* history: an answer to an earlier visit changed the page
  crossed,    \* history: a search was asked before the answer to another
              \* search or to a change of a favorite
  lost        \* history: the answer to a change of a favorite was lost

server   == <<favorites, jobs, attached>>
pageVars == <<page, store, flights, watchers, server, acts, late, crossed, lost>>

Kinds  == {"load", "search", "save", "list", "remove", "import"}
Shown  == [project : Projects, intent : 0..MaxIntents, favorite : BOOLEAN]
Stores == [project : Projects \union {None}, visit : 0..MaxVisits,
           status : {"idle", "clarifying", "ready", "searching", "completed", "failed"},
           intent : 0..MaxIntents, searched : 0..MaxIntents,
           shown : Shown \union {None}, known : Projects \union {None},
           pending : BOOLEAN, later : BOOLEAN, token : 0..MaxActs,
           import : {"idle", "importing", "imported", "failed"}]
Flight  == [id : 1..MaxActs, kind : Kinds, project : Projects, visit : 1..MaxVisits,
            intent : 0..MaxIntents, of : Projects \union {None},
            reply : {"none", "yes", "no", "refused", "imported", "task"},
            task : 0..MaxActs]
Watcher == [visit : 1..MaxVisits, project : Projects, task : 1..MaxActs,
            token : 1..MaxActs, attempt : 0..MaxPolls, asked : BOOLEAN]
Job     == [project : Projects, state : {"processing", "completed", "failed"},
            listed : BOOLEAN]

(* reset.  The project has a topic, so the page starts with clarifying it. *)
Reset(p, v) ==
  [project |-> p, visit |-> v, status |-> IF p = None THEN "idle" ELSE "clarifying",
   intent |-> 0, searched |-> 0, shown |-> None, known |-> None, pending |-> FALSE,
   later |-> FALSE, token |-> 0, import |-> "idle"]

PageInit ==
  /\ page = [route |-> CHOOSE p \in Projects : TRUE, visit |-> 0, open |-> FALSE]
  /\ store = Reset(None, 0)
  /\ favorites \in SUBSET Projects
  /\ flights = {} /\ watchers = {} /\ jobs = <<>> /\ attached = {}
  /\ acts = 0 /\ late = FALSE /\ crossed = FALSE /\ lost = FALSE

Favors(f) == f.kind \in {"save", "list", "remove"}

Asking(id, kind, p, of) ==
  [id |-> id, kind |-> kind, project |-> p, visit |-> page.visit,
   intent |-> store.intent, of |-> of, reply |-> "none", task |-> 0]

-----------------------------------------------------------------------------
(* What the user does.                                                     *)

Ask(kind, p, of) ==
  /\ acts < MaxActs
  /\ acts' = acts + 1
  /\ flights' = flights \union {Asking(acts + 1, kind, p, of)}

(* onMounted(loadProject).  The store is that of the last visit until the  *)
(* project is there.                                                       *)
Open(p) ==
  /\ page.visit < MaxVisits
  /\ page' = [route |-> p, visit |-> page.visit + 1, open |-> FALSE]
  /\ acts < MaxActs /\ acts' = acts + 1
  /\ flights' = flights \union
       {[Asking(acts + 1, "load", p, None) EXCEPT !.visit = page.visit + 1]}
  /\ UNCHANGED <<store, watchers, server, late, crossed, lost>>

(* submitRequirement; the chat is collapsed while there are results, or a  *)
(* search, and its button reopens it (markClarifying).                     *)
Collapsed == store.status \in {"searching", "completed"}

Describe ==
  /\ page.open /\ ~Collapsed /\ store.intent < MaxIntents
  /\ store' = [store EXCEPT !.intent = @ + 1, !.status = "ready"]
  /\ UNCHANGED <<page, flights, watchers, server, acts, late, crossed, lost>>

MarkClarifying ==
  /\ page.open /\ Collapsed
  /\ store' = [store EXCEPT !.status = "clarifying"]
  /\ UNCHANGED <<page, flights, watchers, server, acts, late, crossed, lost>>

SubmitSearch ==
  /\ page.open /\ store.status \in {"ready", "completed", "failed"}
  /\ store' = [store EXCEPT !.project = page.route, !.status = "searching",
                            !.shown = None, !.searched = store.intent]
  /\ Ask("search", page.route, None)
  /\ crossed' = (crossed \/ \E f \in flights : f.kind = "search" \/ Favors(f))
  /\ UNCHANGED <<page, watchers, server, late, lost>>

HasResult == page.open /\ store.status = "completed" /\ store.shown # None

(* Without its identifier a favorite is looked for before it is removed.   *)
ToggleFavorite ==
  /\ HasResult /\ ~store.pending
  /\ store' = [store EXCEPT !.pending = TRUE]
  /\ IF ~store.shown.favorite    THEN Ask("save", store.project, None)
     ELSE IF store.known = None  THEN Ask("list", store.project, None)
                                 ELSE Ask("remove", store.project, store.known)
  /\ UNCHANGED <<page, watchers, server, late, crossed, lost>>

ImportPaper ==
  /\ HasResult /\ store.import \in {"idle", "failed"}
  /\ store' = [store EXCEPT !.import = "importing", !.later = FALSE]
  /\ Ask("import", store.project, None)
  /\ UNCHANGED <<page, watchers, server, late, crossed, lost>>

-----------------------------------------------------------------------------
(* What the server does.                                                   *)

Replied(f, reply, task) ==
  flights' = (flights \ {f}) \union {[f EXCEPT !.reply = reply, !.task = task]}

YesNo(b) == IF b THEN "yes" ELSE "no"

(* The searches and lists tell favorites; a favorite is removed by its     *)
(* identifier, which is of one project.                                    *)
ServeFavorites(f) ==
  /\ f.kind \in {"load", "search", "list", "save", "remove"}
  /\ favorites' = CASE f.kind = "save"   -> favorites \union {f.project}
                    [] f.kind = "remove" -> favorites \ ({f.project} \intersect {f.of})
                    [] OTHER             -> favorites
  /\ Replied(f, CASE f.kind \in {"load", "save"} -> "yes"
                  [] f.kind = "remove" -> IF f.of = f.project /\ f.of \in favorites
                                          THEN "yes" ELSE "refused"
                  [] OTHER -> YesNo(f.project \in favorites), 0)
  /\ UNCHANGED <<jobs, attached>>

UnderWay(p) == {j \in DOMAIN jobs : jobs[j].project = p /\ jobs[j].listed}

(* project_import_arxiv_paper and _parse_import_message.  After a failed   *)
(* enqueue the import stays listed as queued.                              *)
ServeImport(f) ==
  /\ f.kind = "import"
  /\ \/ /\ attached # {}
        /\ attached' = attached \union {f.project}
        /\ Replied(f, "imported", 0)
        /\ UNCHANGED jobs
     \/ /\ attached = {}
        /\ \E j \in UnderWay(f.project) : Replied(f, "task", j)
        /\ UNCHANGED <<jobs, attached>>
     \/ /\ attached = {} /\ UnderWay(f.project) = {}
        /\ \/ /\ jobs' = Append(jobs, [project |-> f.project, state |-> "processing",
                                       listed |-> TRUE])
              /\ Replied(f, "task", Len(jobs'))
           \/ /\ "enqueue" \in PageFaults
              /\ jobs' = Append(jobs, [project |-> f.project, state |-> "failed",
                                       listed |-> TRUE])
              /\ Replied(f, "refused", 0)
        /\ UNCHANGED attached
  /\ UNCHANGED favorites

Serve(f) ==
  /\ f.reply = "none"
  /\ ServeFavorites(f) \/ ServeImport(f)
  /\ UNCHANGED <<page, store, watchers, acts, late, crossed, lost>>

(* handle_arxiv_import: the task is completed before the paper is attached.*)
Process(j) ==
  /\ jobs[j].state = "processing"
  /\ \/ jobs' = [jobs EXCEPT ![j].state = "completed"]
     \/ /\ "parse" \in PageFaults
        /\ jobs' = [jobs EXCEPT ![j].state = "failed", ![j].listed = FALSE]
  /\ UNCHANGED <<page, store, flights, watchers, favorites, attached, acts, late,
                 crossed, lost>>

Attach(j) ==
  /\ jobs[j].state = "completed" /\ jobs[j].listed
  /\ attached' = attached \union {jobs[j].project}
  /\ jobs' = [jobs EXCEPT ![j].listed = FALSE]
  /\ UNCHANGED <<page, store, flights, watchers, favorites, acts, late, crossed, lost>>

-----------------------------------------------------------------------------
(* What the page does with an answer.                                      *)

WithFavorite(s, is) ==
  [s EXCEPT !.shown = IF @ = None THEN None ELSE [@ EXCEPT !.favorite = is]]

Searched(f) ==
  [store EXCEPT !.status = "completed",
     !.shown = [project |-> f.project, intent |-> f.intent,
                favorite |-> f.reply = "yes" \/ store.known # None]]

(* loadFavorites, and the rest of toggleFavorite. *)
Saved(f)   == [WithFavorite(store, TRUE) EXCEPT !.known = f.project, !.pending = FALSE]
Removed(f) == [WithFavorite(store, FALSE) EXCEPT !.known = None, !.pending = FALSE]
Listed(f)  == IF f.reply = "yes"
              THEN [WithFavorite(store, TRUE) EXCEPT !.known = f.project]
              ELSE [store EXCEPT !.pending = FALSE]

Imported(f) ==
  IF f.reply = "imported" THEN [store EXCEPT !.import = "imported"]
  ELSE [store EXCEPT !.import = "importing", !.token = @ + 1]

Failed(f) ==
  CASE f.kind = "search" -> [store EXCEPT !.status = "failed"]
    [] f.kind = "import" -> [store EXCEPT !.import = "failed"]
    [] Favors(f)         -> [store EXCEPT !.pending = FALSE]
    [] OTHER             -> store

Outlived(f) == IF f.kind = "load" THEN f.visit < store.visit ELSE f.visit # store.visit

Watching(f) ==
  IF f.kind = "import" /\ f.reply = "task"
  THEN {[visit |-> store.visit, project |-> store.project, task |-> f.task,
         token |-> store.token + 1, attempt |-> 0, asked |-> TRUE]}
  ELSE {}

(* The favorite that was looked for is removed from the project the store  *)
(* has by now.                                                             *)
Following(f) ==
  IF f.kind = "list" /\ f.reply = "yes"
  THEN {[f EXCEPT !.kind = "remove", !.project = store.project, !.of = f.project,
                  !.reply = "none"]}
  ELSE {}

Answer(f) ==
  /\ f.reply \notin {"none", "refused"}
  /\ store' = CASE f.kind = "load"   -> Reset(f.project, f.visit)
                [] f.kind = "search" -> Searched(f)
                [] f.kind = "save"   -> Saved(f)
                [] f.kind = "list"   -> Listed(f)
                [] f.kind = "remove" -> Removed(f)
                [] f.kind = "import" -> Imported(f)
  /\ page' = [page EXCEPT !.open = @ \/ (f.kind = "load" /\ f.visit = page.visit)]
  /\ flights' = (flights \ {f}) \union Following(f)
  /\ watchers' = watchers \union Watching(f)
  /\ late' = (late \/ Outlived(f))
  /\ UNCHANGED <<server, acts, crossed, lost>>

(* The server refuses, or the answer or the request never arrives.         *)
Fail(f) ==
  /\ f.reply = "refused" \/ "network" \in PageFaults
  /\ store' = Failed(f)
  /\ flights' = flights \ {f}
  /\ late' = (late \/ (f.kind # "load" /\ Outlived(f)))
  /\ lost' = (lost \/ (f.reply = "yes" /\ Favors(f)))
  /\ UNCHANGED <<page, watchers, server, acts, crossed>>

-----------------------------------------------------------------------------
(* monitorImport                                                           *)

IsCurrent(w) == /\ w.token = store.token /\ store.import = "importing"
                /\ w.project = store.project

Poll(w) ==
  /\ ~w.asked
  /\ watchers' = (watchers \ {w}) \union
       IF IsCurrent(w) THEN {[w EXCEPT !.asked = TRUE]} ELSE {}
  /\ UNCHANGED <<page, store, flights, server, acts, late, crossed, lost>>

(* What the answer makes of the import: an answer that is lost leaves it   *)
(* as it is, one that is denied (401, 403, 404) fails it.                  *)
Outcomes(w) ==
  {jobs[w.task].state} \union {o \in {"processing", "failed"} :
     IF o = "failed" THEN "denied" \in PageFaults ELSE "network" \in PageFaults}

GoesOn(w) == {[w EXCEPT !.attempt = @ + 1, !.asked = FALSE]}

Told(w) ==
  /\ w.asked
  /\ IF ~IsCurrent(w) THEN watchers' = watchers \ {w} /\ UNCHANGED <<store, late>>
     ELSE \E outcome \in Outcomes(w) :
       /\ watchers' = (watchers \ {w}) \union
            IF outcome = "processing" /\ w.attempt + 1 < MaxPolls THEN GoesOn(w) ELSE {}
       /\ store' = CASE outcome = "completed" -> [store EXCEPT !.import = "imported"]
                     [] outcome = "failed"    -> [store EXCEPT !.import = "failed"]
                     [] OTHER -> [store EXCEPT !.later = w.attempt + 1 = MaxPolls]
       /\ late' = (late \/ w.visit # store.visit)
  /\ UNCHANGED <<page, flights, server, acts, crossed, lost>>

-----------------------------------------------------------------------------
PageNext ==
  \/ \E p \in Projects : Open(p)
  \/ Describe \/ MarkClarifying \/ SubmitSearch \/ ToggleFavorite \/ ImportPaper
  \/ \E f \in flights : Serve(f) \/ Answer(f) \/ Fail(f)
  \/ \E j \in DOMAIN jobs : Process(j) \/ Attach(j)
  \/ \E w \in watchers : Poll(w) \/ Told(w)

-----------------------------------------------------------------------------
(* Every variable has its type. *)
PageTypeOK ==
  /\ page \in [route : Projects, visit : 0..MaxVisits, open : BOOLEAN]
  /\ store \in Stores /\ flights \subseteq Flight /\ watchers \subseteq Watcher
  /\ favorites \subseteq Projects /\ attached \subseteq Projects
  /\ jobs \in Seq(Job) /\ acts \in 0..MaxActs
  /\ {late, crossed, lost} \subseteq BOOLEAN

(* A result that is shown as being imported, or whose favorite is being    *)
(* changed, is not left so: its request is in flight, or, of an import,    *)
(* its task is watched or the message says that it takes longer.  Both     *)
(* states lock their button.  A late reset followed by a search leaves     *)
(* behind an import of the project of the earlier visit.                   *)
ButtonsAreReleased ==
  /\ ~late /\ store.import = "importing" =>
       \/ store.later \/ \E w \in watchers : IsCurrent(w)
       \/ \E f \in flights : f.kind = "import"
  /\ store.pending => \E f \in flights : Favors(f)

(* What the page says is so as long as every answer came in the visit that *)
(* asked for it and no search crossed another request: the results are of  *)
(* the project and of the last search, an imported result has a completed  *)
(* task or is in the project, a favorite is one on the server (unless an   *)
(* answer was lost), and its identifier, too.                              *)
PageTellsTruth ==
  ~late /\ ~crossed =>
    /\ HasResult => /\ store.shown.project = page.route
                    /\ store.shown.intent = store.searched
    /\ store.import = "imported" =>
         \/ store.project \in attached
         \/ \E j \in DOMAIN jobs : /\ jobs[j].project = store.project
                                   /\ jobs[j].state = "completed"
    /\ ~lost /\ ~(\E f \in flights : Favors(f)) =>
         /\ store.shown # None =>
              (store.shown.favorite <=> store.shown.project \in favorites)
         /\ store.known # None => store.known \in favorites

-----------------------------------------------------------------------------
(* Expected to fail: results are of the last search.  The chat can be      *)
(* reopened while a search runs, and the slower answer stays.              *)
LastSearchIsShown ==
  ~late /\ HasResult => store.shown.intent = store.searched

(* Expected to fail: no answer changes the page of a later visit.  Only    *)
(* the watchers of imports compare the project.                            *)
NothingComesLate == ~late

(* Expected to fail: "Keep polling so Discover never reports an import     *)
(* before it appears in Project Papers" (discover.ts:313).  The task is    *)
(* completed before the paper is attached.                                 *)
ImportedIsInProject ==
  ~late /\ store.import = "imported" => store.project \in attached
=============================================================================
