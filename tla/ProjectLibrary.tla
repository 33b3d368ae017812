--------------------------- MODULE ProjectLibrary ---------------------------
(***************************************************************************)
(* A project and what belongs to it: papers, memory, research notes and    *)
(* the chat sessions with their turns.  A request first looks whether it   *)
(* may, and commits later; what it looked at may be gone by then, and the  *)
(* database has the last word: a foreign key, a unique pair of project and *)
(* paper, a row to update that is no longer there.                         *)
(***************************************************************************)
EXTENDS Naturals, Sequences, FiniteSets, FiniteSetsExt

CONSTANTS
  None,
  Papers,     \* papers of the user
  Sessions,   \* ids of chat sessions
  MaxTurns,   \* turns of a session, over its life
  MaxMemory,  \* notes the memory keeps
  MaxNotes,   \* notes written, of either kind
  MaxEdits,   \* changes of what a project says of its papers
  MaxPending  \* requests under way

LibraryAssumption ==
  /\ MaxTurns \in Nat /\ MaxMemory \in Nat \ {0} /\ MaxNotes \in Nat
  /\ MaxEdits \in Nat /\ MaxPending \in Nat

VARIABLES
  project,  \* "none", "there" or "gone"
  papers,   \* papers that exist
  links,    \* what the project has for each paper, or None
  edits,    \* changes so far
  memory,   \* project.memory["notes"] as stored
  told,     \* notes the user was told are in it
  items,    \* MemoryItem rows: note |-> who wrote it
  notes,    \* notes written so far
  sessions,
  pending   \* requests that have looked and not committed

libraryVars == <<project, papers, links, edits, memory, told, items, notes,
                 sessions, pending>>

Turns == 1..MaxTurns  \* numbered as they are saved

(* The columns of a row that anybody but the reading agent sets. *)
Link == [text : 0..MaxEdits, planned : BOOLEAN]

(* place is order_index, 0 where there is no such turn; title is the turn  *)
(* whose question it is, 0 for the default.                                *)
Session == [state : {"none", "open", "gone"}, inProject : BOOLEAN,
            paper : Papers \union {None}, place : [Turns -> Nat],
            saved : 0..MaxTurns, title : 0..MaxTurns]

NoSession == [state |-> "none", inProject |-> FALSE, paper |-> None,
              place |-> [t \in Turns |-> 0], saved |-> 0, title |-> 0]

LibraryInit ==
  /\ project = "none" /\ papers = Papers /\ links = [p \in Papers |-> None]
  /\ edits = 0 /\ memory = <<>> /\ told = {}
  /\ items = [n \in {} |-> ""] /\ notes = 0
  /\ sessions = [s \in Sessions |-> NoSession]
  /\ pending = {}

Looks(request) ==
  /\ Cardinality(pending) < MaxPending /\ request \notin pending
  /\ pending' = pending \union {request}
Answers(request) == pending' = pending \ {request}

-----------------------------------------------------------------------------
(* The project and its papers *)

CreateProject ==
  /\ project = "none" /\ project' = "there"
  /\ UNCHANGED <<papers, links, edits, memory, told, items, notes, sessions,
                 pending>>

Close(gone) ==
  sessions' = [s \in Sessions |->
                 IF sessions[s].state = "open" /\ gone[s]
                   THEN [NoSession EXCEPT !.state = "gone"] ELSE sessions[s]]

(* The rows that point to the project go with it. *)
DeleteProject ==
  /\ project = "there" /\ project' = "gone"
  /\ links' = [p \in Papers |-> None] /\ memory' = <<>> /\ told' = {}
  /\ items' = [n \in {} |-> ""]
  /\ Close([s \in Sessions |-> sessions[s].inProject])
  /\ UNCHANGED <<papers, edits, notes, pending>>

DeletePaper(p) ==
  /\ p \in papers /\ papers' = papers \ {p}
  /\ links' = [links EXCEPT ![p] = None]
  /\ Close([s \in Sessions |-> sessions[s].paper = p])
  /\ UNCHANGED <<project, edits, memory, told, items, notes, pending>>

(* Adding a paper again overwrites what was said of it. *)
LookToAdd(p) ==
  /\ project = "there" /\ p \in papers
  /\ Looks([kind |-> "add", paper |-> p, found |-> links[p] # None])
  /\ UNCHANGED <<project, papers, links, edits, memory, told, items, notes,
                 sessions>>

Write(p, row) == links' = [links EXCEPT ![p] = row]

Add(request) ==
  /\ request.kind = "add" /\ Answers(request)
  /\ LET p == request.paper
         fits == IF request.found
                   THEN links[p] # None
                   ELSE links[p] = None /\ project = "there" /\ p \in papers
     IN  \/ /\ fits /\ edits < MaxEdits
            /\ Write(p, [text |-> edits + 1,
                         planned |-> request.found /\ links[p].planned])
            /\ edits' = edits + 1
         \/ ~fits /\ UNCHANGED <<links, edits>>
  /\ UNCHANGED <<project, papers, memory, told, items, notes, sessions>>

(* PATCH of a link: what is said of the paper, and its place in the        *)
(* reading plan.                                                           *)
LookToUpdate(p) ==
  /\ project = "there" /\ links[p] # None
  /\ \E planned \in BOOLEAN :
       Looks([kind |-> "update", paper |-> p, planned |-> planned])
  /\ UNCHANGED <<project, papers, links, edits, memory, told, items, notes,
                 sessions>>

Update(request) ==
  /\ request.kind = "update" /\ Answers(request)
  /\ LET p == request.paper IN
       \/ /\ links[p] # None /\ edits < MaxEdits
          /\ Write(p, [text |-> edits + 1,
                       planned |-> links[p].planned \/ request.planned])
          /\ edits' = edits + 1
       \/ links[p] = None /\ UNCHANGED <<links, edits>>
  /\ UNCHANGED <<project, papers, memory, told, items, notes, sessions>>

RemovePaper(p) ==
  /\ links[p] # None /\ Write(p, None)
  /\ UNCHANGED <<project, papers, edits, memory, told, items, notes, sessions,
                 pending>>

-----------------------------------------------------------------------------
(* Memory and notes *)

(* A JSON column: the session compares the value assigned with the value   *)
(* loaded, and the object that was loaded and changed is the same.         *)
Assign(loaded, value, copied) == IF copied THEN value ELSE loaded

(* append_memory_note and overwrite_memory change the loaded object, which *)
(* a new project already has, and assign it again.                         *)
AppendNote ==
  /\ project = "there" /\ notes < MaxNotes
  /\ LET longer == Append(memory, notes + 1)
         kept   == IF Len(longer) > MaxMemory THEN Tail(longer) ELSE longer
     IN  memory' = Assign(memory, kept, FALSE)
  /\ told' = IF Cardinality(told) < MaxMemory THEN told \union {notes + 1}
             ELSE (told \union {notes + 1}) \ {Min(told)}
  /\ notes' = notes + 1
  /\ UNCHANGED <<project, papers, links, edits, items, sessions, pending>>

OverwriteMemory ==
  /\ project = "there" /\ notes < MaxNotes
  /\ memory' = Assign(memory, <<notes + 1>>, FALSE)
  /\ told' = {notes + 1} /\ notes' = notes + 1
  /\ UNCHANGED <<project, papers, links, edits, items, sessions, pending>>

(* Research notes: the user's own and the agent's are rows. *)
CreateNote ==
  /\ project = "there" /\ notes < MaxNotes
  /\ items' = [n \in DOMAIN items \union {notes + 1} |->
                 IF n = notes + 1 THEN "user" ELSE items[n]]
  /\ notes' = notes + 1
  /\ UNCHANGED <<project, papers, links, edits, memory, told, sessions, pending>>

AgentNote ==
  /\ project = "there" /\ notes < MaxNotes
  /\ items' = [n \in DOMAIN items \union {notes + 1} |->
                 IF n = notes + 1 THEN "agent" ELSE items[n]]
  /\ notes' = notes + 1
  /\ UNCHANGED <<project, papers, links, edits, memory, told, sessions, pending>>

DeleteNote(n) ==
  /\ n \in DOMAIN items
  /\ items' = [k \in DOMAIN items \ {n} |-> items[k]]
  /\ UNCHANGED <<project, papers, links, edits, memory, told, notes, sessions,
                 pending>>

(* What the notes page shows, and what the agent reads: the typed rows, or *)
(* the memory where there are none.                                        *)
ShownNotes == DOMAIN items \union {memory[i] : i \in DOMAIN memory}
Recalled ==
  IF \E n \in DOMAIN items : items[n] = "agent"
  THEN {n \in DOMAIN items : items[n] = "agent"}
  ELSE {memory[i] : i \in DOMAIN memory}

-----------------------------------------------------------------------------
(* Sessions and turns *)

LookToOpen(s) ==
  /\ sessions[s].state = "none"
  /\ \A r \in pending : r.kind = "open" => r.session # s
  /\ \E paper \in papers \union {None}, inProject \in BOOLEAN :
       /\ paper # None \/ inProject
       /\ inProject => project = "there"
       /\ Looks([kind |-> "open", session |-> s, paper |-> paper,
                 inProject |-> inProject])
  /\ UNCHANGED <<project, papers, links, edits, memory, told, items, notes,
                 sessions>>

(* Faulty variant, for the mutation runs only: no foreign key is checked.   *)
OpenSessionUnchecked(request) ==
  /\ request.kind = "open" /\ Answers(request)
  /\ sessions' = [sessions EXCEPT ![request.session] =
                    [NoSession EXCEPT !.state = "open", !.inProject = request.inProject,
                                      !.paper = request.paper]]
  /\ UNCHANGED <<project, papers, links, edits, memory, told, items, notes>>

OpenSession(request) ==
  /\ request.kind = "open" /\ Answers(request)
  /\ sessions' =
       IF (request.inProject => project = "there")
            /\ request.paper \in papers \union {None}
       THEN [sessions EXCEPT ![request.session] =
               [NoSession EXCEPT !.state = "open", !.inProject = request.inProject,
                                 !.paper = request.paper]]
       ELSE sessions
  /\ UNCHANGED <<project, papers, links, edits, memory, told, items, notes>>

DeleteSession(s) ==
  /\ sessions[s].state = "open"
  /\ Close([t \in Sessions |-> t = s])
  /\ UNCHANGED <<project, papers, links, edits, memory, told, items, notes,
                 pending>>

Saved(s) == {t \in Turns : sessions[s].place[t] > 0}

(* The worker, one answer at a time, counts the turns and adds one.  Every *)
(* path of stream_lead_agent that ends an answer does so.                  *)
LookToSave(s) ==
  /\ sessions[s].state = "open" /\ sessions[s].saved < MaxTurns
  /\ \A r \in pending : r.kind # "save"
  /\ Looks([kind |-> "save", session |-> s, count |-> Cardinality(Saved(s))])
  /\ UNCHANGED <<project, papers, links, edits, memory, told, items, notes,
                 sessions>>

SaveTurn(request) ==
  /\ request.kind = "save" /\ Answers(request)
  /\ LET s == request.session
         t == sessions[s].saved + 1
     IN  sessions' =
           IF sessions[s].state # "open" THEN sessions
           ELSE [sessions EXCEPT
                   ![s].place[t] = request.count + 1, ![s].saved = t,
                   ![s].title = IF request.count = 0 THEN t ELSE @]
  /\ UNCHANGED <<project, papers, links, edits, memory, told, items, notes>>

(* A turn is deleted; the others are looked up and numbered from one. *)
LookToErase(s, t) ==
  /\ sessions[s].state = "open" /\ t \in Saved(s)
  /\ \A r \in pending : r.kind # "erase"
  /\ Looks([kind |-> "erase", session |-> s, turn |-> t,
            others |-> Saved(s) \ {t}, place |-> sessions[s].place])
  /\ UNCHANGED <<project, papers, links, edits, memory, told, items, notes,
                 sessions>>

Before(place, t, u) == place[t] < place[u] \/ (place[t] = place[u] /\ t < u)

EraseTurn(request) ==
  /\ request.kind = "erase" /\ Answers(request)
  /\ LET s == request.session
         Earlier(t) == {u \in request.others : Before(request.place, u, t)}
     IN  sessions' =
           IF sessions[s].state # "open" THEN sessions
           ELSE [sessions EXCEPT
                   ![s].place = [t \in Turns |->
                      IF t = request.turn THEN 0
                      ELSE IF t \in request.others THEN Cardinality(Earlier(t)) + 1
                      ELSE @[t]],
                   ![s].title = IF request.others = {} THEN 0
                      ELSE CHOOSE t \in request.others : Earlier(t) = {}]
  /\ UNCHANGED <<project, papers, links, edits, memory, told, items, notes>>

LibraryNext ==
  \/ CreateProject \/ DeleteProject
  \/ \E p \in Papers : \/ DeletePaper(p) \/ LookToAdd(p) \/ LookToUpdate(p)
                       \/ RemovePaper(p)
  \/ AppendNote \/ OverwriteMemory \/ CreateNote \/ AgentNote
  \/ \E n \in DOMAIN items : DeleteNote(n)
  \/ \E s \in Sessions : \/ LookToOpen(s) \/ DeleteSession(s) \/ LookToSave(s)
                         \/ \E t \in Turns : LookToErase(s, t)
  \/ \E r \in pending : \/ Add(r) \/ Update(r) \/ OpenSession(r)
                        \/ SaveTurn(r) \/ EraseTurn(r)

-----------------------------------------------------------------------------
(* Every variable has its type. *)
LibraryTypeOK ==
  /\ project \in {"none", "there", "gone"} /\ papers \subseteq Papers
  /\ links \in [Papers -> Link \union {None}]
  /\ memory \in Seq(1..MaxNotes) /\ told \subseteq 1..MaxNotes
  /\ \A n \in DOMAIN items : n \in 1..MaxNotes /\ items[n] \in {"user", "agent"}
  /\ sessions \in [Sessions -> Session]
  /\ Cardinality(pending) <= MaxPending

(* Nothing outlives what it belongs to, whichever request commits after a  *)
(* deletion, and no deletion takes more: a link is of an existing project  *)
(* and paper, a session is of a paper or a project that exists, a turn is  *)
(* of an open session, and a session that was not deleted by itself or     *)
(* with one of the two keeps its turns.                                    *)
LibraryIsWhole ==
  /\ \A p \in Papers : links[p] # None => project = "there" /\ p \in papers
  /\ project # "there" => ShownNotes = {} /\ Recalled = {}
  /\ \A s \in Sessions :
       /\ sessions[s].state = "open" =>
            /\ sessions[s].paper # None \/ sessions[s].inProject
            /\ sessions[s].inProject => project = "there"
            /\ sessions[s].paper \in papers \union {None}
       /\ sessions[s].state # "open" => Saved(s) = {}

(* No turn is lost in a renumbering: each turn of an open session that was *)
(* saved has a place, unless it is the one the user deletes.               *)
OnlyErasedTurnsGo ==
  [][\A s \in Sessions :
       sessions[s].state = "open" /\ sessions'[s].state = "open" =>
         \A t \in Saved(s) : sessions'[s].place[t] = 0 =>
           \E r \in pending \ pending' :
             r.kind = "erase" /\ r.session = s /\ r.turn = t]_libraryVars

-----------------------------------------------------------------------------
(* projects.py:1115, "append a memory note (does not overwrite what is     *)
(* there)": a note the user was told is stored is stored.                  *)
NotesAreKept ==
  project = "there" => told \subseteq {memory[i] : i \in DOMAIN memory}

(* models/chat.py:39, order_index is the place of a turn in the session:   *)
(* two turns have different places, the later one the later place.         *)
TurnsHaveTheirPlace ==
  \A s \in Sessions : \A t, u \in Saved(s) :
    t < u => sessions[s].place[t] < sessions[s].place[u]
=============================================================================
