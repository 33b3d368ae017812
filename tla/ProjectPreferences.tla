------------------------- MODULE ProjectPreferences -------------------------
(***************************************************************************)
(* The preferences of a project (ResearchProject.preferences, one JSON     *)
(* value) and the arXiv imports that keep their state there: the favorites *)
(* of the literature search (research/discovery/favorites.py), the research*)
(* scope (project_service.py), project_import_arxiv_paper                  *)
(* (harness/tools/literature_research.py), delete_failed_import_task       *)
(* (api/papers.py) and handle_arxiv_import (worker.py).                    *)
(*                                                                         *)
(* Every session reads the project, changes its copy of the preferences    *)
(* and commits the copy as a whole; reading and committing are two steps.  *)
(* The processing of the PDF is one step (PaperPipeline has its detail).   *)
(***************************************************************************)
EXTENDS Naturals, FiniteSets, SequencesExt

CONSTANTS
  Members,         \* API requests in progress at the same time
  Papers,          \* bound: identifiers of imported papers
  Preprints,       \* arXiv identifiers
  Favorites,       \* search results that can be a favorite
  MaxKept,         \* the 30 imports the preferences keep
  ImportFaults,    \* "enqueue", "download" and "parse" may fail
  MaxWrites,       \* bound: requests other than imports
  MaxImportDeaths  \* bound: deaths of the worker

(* What the constants have to satisfy; PrefsInit needs a preprint and a    *)
(* paper for requests and a worker that are idle.                          *)
PreferencesAssumption ==
  /\ Preprints # {} /\ Papers # {}
  /\ ImportFaults \subseteq {"enqueue", "download", "parse"}
  /\ MaxKept \in Nat \ {0} /\ MaxWrites \in Nat /\ MaxImportDeaths \in Nat

Statuses == {"queued", "processing", "ready", "failed"}
Entry    == [preprint : Preprints, paper : Papers, status : Statuses]
Prefs    == [favorites : SUBSET Favorites, imports : Seq(Entry)]
Request  == [pc : {"idle", "decide", "commit", "delete", "record", "enqueue"},
             copy : Prefs, preprint : Preprints, paper : Papers]
Import   == [pc : {"idle", "mark", "commit", "download", "process", "link", "ack"},
             copy : Prefs, status : Statuses, paper : Papers]

VARIABLES
  prefs,     \* the column
  stored,    \* papers that have a row
  tagged,    \* papers whose row names its preprint (source_url)
  linked,    \* papers of the project
  broken,    \* papers whose task record says failed
  preprint,  \* the preprint of each paper, in the payload of its job
  asked,     \* identifiers that are taken
  waiting,   \* papers whose job waits
  request,   \* where each request is and the copy it has read
  import,    \* what the worker does with its job
  writes, importDeaths,
  stuck,     \* history: papers whose entry lost its last change
  dropped,   \* history: papers whose entry was overwritten or pushed out
  deleted    \* history: papers whose failed import was deleted

papers    == <<stored, tagged, linked, broken, preprint>>
history   == <<writes, stuck, dropped, deleted>>
prefsVars == <<prefs, papers, asked, waiting, request, import, importDeaths,
               history>>

Nothing == [favorites |-> {}, imports |-> <<>>]
NoRequest == [pc |-> "idle", copy |-> Nothing,
              preprint |-> CHOOSE a \in Preprints : TRUE,
              paper |-> CHOOSE p \in Papers : TRUE]
NoImport == [pc |-> "idle", copy |-> Nothing, status |-> "queued",
             paper |-> CHOOSE p \in Papers : TRUE]

PrefsInit ==
  /\ prefs = Nothing
  /\ stored = {} /\ tagged = {} /\ linked = {} /\ broken = {}
  /\ preprint = [p \in Papers |-> CHOOSE a \in Preprints : TRUE]
  /\ asked = {} /\ waiting = {}
  /\ request = [m \in Members |-> NoRequest]
  /\ import = NoImport
  /\ writes = 0 /\ importDeaths = 0 /\ stuck = {} /\ dropped = {} /\ deleted = {}

Entries(copy) == {copy.imports[i] : i \in DOMAIN copy.imports}

WithStatus(copy, p, status) ==
  [copy EXCEPT !.imports = [i \in DOMAIN @ |->
     IF @[i].paper = p THEN [@[i] EXCEPT !.status = status] ELSE @[i]]]

(* An import has one entry (OneEntry of ServicesProofs). *)
Without(copy, p) ==
  LET at == {i \in DOMAIN copy.imports : copy.imports[i].paper = p} IN
  [copy EXCEPT !.imports = IF at = {} THEN @ ELSE RemoveAt(@, CHOOSE i \in at : TRUE)]

With(copy, entry) ==
  LET all == Append(copy.imports, entry) IN
  [copy EXCEPT !.imports =
     SubSeq(all, IF Len(all) > MaxKept THEN Len(all) - MaxKept + 1 ELSE 1, Len(all))]

(* Papers whose entry goes back to what a session read earlier. *)
PutBack(new, own) == {e.paper : e \in Entries(new) \ Entries(prefs)} \ own

(* Papers whose entry is gone with the commit of a copy. *)
Named(copy)       == {e.paper : e \in Entries(copy)}
Dropped(new, own) == (Named(prefs) \ Named(new)) \ own

-----------------------------------------------------------------------------
(* Requests of the members.                                                *)

At(m, place) == request[m].pc = place
Finish(m)    == request' = [request EXCEPT ![m] = NoRequest]

Read(m, copy) ==
  /\ At(m, "idle") /\ writes < MaxWrites
  /\ writes' = writes + 1
  /\ request' = [request EXCEPT ![m].pc = "commit", ![m].copy = copy]
  /\ UNCHANGED <<prefs, papers, asked, waiting, import, importDeaths, stuck, dropped,
                 deleted>>

(* save_favorite, remove_favorite, and update_project with a scope, which  *)
(* writes the rest back.                                                   *)
Favor(m)   == \E f \in Favorites \ prefs.favorites :
                Read(m, [prefs EXCEPT !.favorites = @ \union {f}])
Unfavor(m) == \E f \in prefs.favorites :
                Read(m, [prefs EXCEPT !.favorites = @ \ {f}])
Rescope(m) == Read(m, prefs)

Commit(m) ==
  /\ At(m, "commit")
  /\ prefs' = request[m].copy
  /\ stuck' = stuck \union PutBack(prefs', {})
  /\ dropped' = dropped \union Dropped(prefs', {})
  /\ Finish(m)
  /\ UNCHANGED <<papers, asked, waiting, import, importDeaths, writes, deleted>>

(* delete_failed_import_task: row, membership and entry go in one commit,  *)
(* the task record after it.                                               *)
Delete(m) ==
  /\ At(m, "idle") /\ writes < MaxWrites
  /\ writes' = writes + 1
  /\ \E p \in broken :
       request' = [request EXCEPT ![m] = [@ EXCEPT !.pc = "delete", !.paper = p,
                                            !.copy = Without(prefs, p)]]
  /\ UNCHANGED <<prefs, papers, asked, waiting, import, importDeaths, stuck, dropped,
                 deleted>>

CommitDelete(m) ==
  LET p == request[m].paper IN
  /\ At(m, "delete")
  /\ prefs' = request[m].copy
  /\ stuck' = stuck \union PutBack(prefs', {})
  /\ dropped' = dropped \union Dropped(prefs', {p})
  /\ stored' = stored \ {p} /\ tagged' = tagged \ {p} /\ linked' = linked \ {p}
  /\ broken' = broken \ {p} /\ deleted' = deleted \union {p}
  /\ Finish(m)
  /\ UNCHANGED <<preprint, asked, waiting, import, importDeaths, writes>>

(* project_import_arxiv_paper reads the project, then looks for a paper of *)
(* the same preprint, then for an import that is under way in what it read.*)
Ask(m) ==
  /\ At(m, "idle") /\ asked # Papers
  /\ \E a \in Preprints :
       request' = [request EXCEPT ![m] = [@ EXCEPT !.pc = "decide",
                                            !.copy = prefs, !.preprint = a]]
  /\ UNCHANGED <<prefs, papers, asked, waiting, import, importDeaths, history>>

Owned(a) == {p \in tagged : preprint[p] = a}

(* Faulty variant: only imports in the queue count. *)
UnderWayInQueue(copy, a) ==
  \E e \in Entries(copy) : e.preprint = a /\ e.status = "queued"

UnderWay(copy, a) ==
  \E e \in Entries(copy) : e.preprint = a /\ e.status \in {"queued", "processing"}

Decide(m) ==
  LET a == request[m].preprint
      p == CHOOSE p \in Papers \ asked : TRUE IN
  /\ At(m, "decide")
  /\ IF Owned(a) # {} \/ UnderWay(request[m].copy, a) \/ asked = Papers
     THEN /\ linked' = linked \union Owned(a)
          /\ Finish(m)
          /\ UNCHANGED <<asked, preprint>>
     ELSE /\ asked' = asked \union {p}
          /\ preprint' = [preprint EXCEPT ![p] = a]
          /\ request' = [request EXCEPT ![m] = [@ EXCEPT !.pc = "record",
               !.paper = p,
               !.copy = With(request[m].copy,
                             [preprint |-> a, paper |-> p, status |-> "queued"])]]
          /\ UNCHANGED linked
  /\ UNCHANGED <<prefs, stored, tagged, broken, waiting, import, importDeaths,
                 history>>

Record(m) ==
  /\ At(m, "record")
  /\ prefs' = request[m].copy
  /\ stuck' = stuck \union PutBack(prefs', {request[m].paper})
  /\ dropped' = dropped \union Dropped(prefs', {})
  /\ request' = [request EXCEPT ![m].pc = "enqueue"]
  /\ UNCHANGED <<papers, asked, waiting, import, importDeaths, writes, deleted>>

(* Faulty variant: the failed enqueue of the model, unnoticed. *)
EnqueueSilently(m) ==
  LET p == request[m].paper IN
  /\ At(m, "enqueue")
  /\ \/ waiting' = waiting \union {p} /\ UNCHANGED broken
     \/ /\ "enqueue" \in ImportFaults
        /\ broken' = broken \union {p}
        /\ UNCHANGED waiting
  /\ Finish(m)
  /\ UNCHANGED <<prefs, stored, tagged, linked, preprint, asked, import,
                 importDeaths, history>>

(* After a failed enqueue the entry is changed in place and the preferences*)
(* are assigned a copy that equals the value they hold: the session sees no*)
(* change and updates nothing.  Only the task record says failed.          *)
Enqueue(m) ==
  LET p == request[m].paper IN
  /\ At(m, "enqueue")
  /\ \/ waiting' = waiting \union {p} /\ UNCHANGED <<broken, stuck>>
     \/ /\ "enqueue" \in ImportFaults
        /\ broken' = broken \union {p}
        /\ stuck' = stuck \union {p}
        /\ UNCHANGED waiting
  /\ Finish(m)
  /\ UNCHANGED <<prefs, stored, tagged, linked, preprint, asked, import,
                 importDeaths, writes, dropped, deleted>>

-----------------------------------------------------------------------------
(* handle_arxiv_import                                                     *)

Doing(place) == import.pc = place

Take ==
  /\ Doing("idle")
  /\ \E p \in waiting : /\ waiting' = waiting \ {p}
                        /\ import' = [import EXCEPT !.pc = "mark", !.paper = p,
                                        !.status = "processing"]
  /\ UNCHANGED <<prefs, papers, asked, request, importDeaths, history>>

(* update_import reads the preferences; an entry that is gone stays so.    *)
Mark ==
  /\ Doing("mark")
  /\ import' = [import EXCEPT !.pc = "commit",
                  !.copy = WithStatus(prefs, import.paper, import.status)]
  /\ UNCHANGED <<prefs, papers, asked, waiting, request, importDeaths, history>>

CommitMark ==
  /\ Doing("commit")
  /\ prefs' = IF \E e \in Entries(import.copy) : e.paper = import.paper
              THEN import.copy ELSE prefs
  /\ stuck' = stuck \union PutBack(prefs', {import.paper})
  /\ dropped' = dropped \union Dropped(prefs', {})
  /\ import' = [NoImport EXCEPT !.paper = import.paper,
       !.pc = IF import.status = "processing" THEN "download" ELSE "ack"]
  /\ UNCHANGED <<papers, asked, waiting, request, importDeaths, writes, deleted>>

Announce(status) ==
  import' = [import EXCEPT !.pc = "mark", !.status = status]

Download ==
  /\ Doing("download")
  /\ \/ import' = [import EXCEPT !.pc = "process"] /\ UNCHANGED broken
     \/ /\ "download" \in ImportFaults
        /\ broken' = broken \union {import.paper}
        /\ Announce("failed")
  /\ UNCHANGED <<prefs, stored, tagged, linked, preprint, asked, waiting, request,
                 importDeaths, history>>

(* _process_paper_async: a redelivered job finds its row and fails, too.   *)
Process ==
  LET p == import.paper IN
  /\ Doing("process")
  /\ import' = [import EXCEPT !.pc = "link"]
  /\ \/ p \notin stored /\ stored' = stored \union {p} /\ broken' = broken \ {p}
     \/ /\ p \in stored \/ "parse" \in ImportFaults
        /\ broken' = broken \union {p}
        /\ UNCHANGED stored
  /\ UNCHANGED <<prefs, tagged, linked, preprint, asked, waiting, request,
                 importDeaths, history>>

(* Faulty variant: a paper that could not be stored is announced, too. *)
LinkAnyway ==
  LET p == import.paper IN
  /\ Doing("link")
  /\ tagged' = tagged \union ({p} \intersect stored)
  /\ linked' = linked \union ({p} \intersect stored)
  /\ Announce("ready")
  /\ UNCHANGED <<prefs, stored, broken, preprint, asked, waiting, request,
                 importDeaths, history>>

Link ==
  LET p == import.paper IN
  /\ Doing("link")
  /\ IF p \in stored
     THEN /\ tagged' = tagged \union {p} /\ linked' = linked \union {p}
          /\ Announce("ready")
     ELSE Announce("failed") /\ UNCHANGED <<tagged, linked>>
  /\ UNCHANGED <<prefs, stored, broken, preprint, asked, waiting, request,
                 importDeaths, history>>

Ack ==
  /\ Doing("ack")
  /\ import' = NoImport
  /\ UNCHANGED <<prefs, papers, asked, waiting, request, importDeaths, history>>

(* The job in hand is given back at the next start. *)
Die ==
  /\ ~Doing("idle") /\ importDeaths < MaxImportDeaths
  /\ importDeaths' = importDeaths + 1
  /\ waiting' = waiting \union {import.paper}
  /\ import' = NoImport
  /\ UNCHANGED <<prefs, papers, asked, request, history>>

-----------------------------------------------------------------------------
Arrive(m)  == Favor(m) \/ Unfavor(m) \/ Rescope(m) \/ Delete(m) \/ Ask(m)
Proceed(m) == Commit(m) \/ CommitDelete(m) \/ Decide(m) \/ Record(m) \/ Enqueue(m)

WorkerStep == Take \/ Mark \/ CommitMark \/ Download \/ Process \/ Link \/ Ack

PrefsNext == WorkerStep \/ Die \/ \E m \in Members : Arrive(m) \/ Proceed(m)

-----------------------------------------------------------------------------
(* Every variable has its type. *)
PrefsTypeOK ==
  /\ prefs \in Prefs
  /\ stored \subseteq Papers /\ tagged \subseteq Papers /\ linked \subseteq Papers
  /\ broken \subseteq Papers /\ preprint \in [Papers -> Preprints]
  /\ asked \subseteq Papers /\ waiting \subseteq Papers
  /\ request \in [Members -> Request] /\ import \in Import
  /\ writes \in 0..MaxWrites /\ importDeaths \in 0..MaxImportDeaths
  /\ stuck \subseteq Papers /\ dropped \subseteq Papers /\ deleted \subseteq Papers

UnderWayEntry(e) == e.status \in {"queued", "processing"}

(* An import that says it is under way refuses every later one of its      *)
(* preprint, so somebody has to end it: its job waits or is in hand, or    *)
(* the request is about to enqueue it.  There are two ways to lose it for  *)
(* ever: an enqueue that fails, and a session that writes back a status    *)
(* the worker has changed.                                                 *)
ImportIsAttended ==
  \A e \in Entries(prefs) : UnderWayEntry(e) =>
    \/ e.paper \in stuck \union waiting
    \/ ~Doing("idle") /\ import.paper = e.paper
    \/ \E m \in Members : At(m, "enqueue") /\ request[m].paper = e.paper

(* An import that became ready has put its paper into the project, also    *)
(* when the job was delivered twice or the import deleted in between.      *)
ReadyIsLinked ==
  [][\A p \in Papers :
       (\E e \in Entries(prefs') : e.paper = p /\ e.status = "ready") /\
       ~(\E e \in Entries(prefs) : e.paper = p /\ e.status = "ready")
         => p \in linked \union deleted]_prefsVars

(* A preprint is imported once, whoever asks for it how often, unless the  *)
(* worker died or somebody's copy of the preferences dropped the entry of  *)
(* an import: what another request sees of it is only this entry.          *)
ImportedOnce ==
  importDeaths = 0 =>
    \A p, q \in linked \ dropped : preprint[p] = preprint[q] => p = q

(* docs/SMOKE_TESTS.md:158: to import a paper again makes no second task.  *)
OneImportAtATime ==
  \A p, q \in waiting : preprint[p] = preprint[q] => p = q

(* A favorite only goes when a member removes it.                          *)
FavoritesStay ==
  [][\A f \in prefs.favorites \ prefs'.favorites :
       \E m \in Members : At(m, "commit") /\ f \notin request[m].copy.favorites]_prefsVars
=============================================================================
