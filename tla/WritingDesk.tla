----------------------------- MODULE WritingDesk -----------------------------
(***************************************************************************)
(* A writing document in an editor: the revisions on the server, which are *)
(* only ever added, the tab that edits and saves, and the proposals for a  *)
(* selection that come back while the author goes on writing, saves or     *)
(* opens another document.  Somebody else saves, too.                      *)
(*                                                                         *)
(* A text is two passages, each a number that is new after every change; a *)
(* selection is one of them, with or without white space at its ends.      *)
(***************************************************************************)
EXTENDS Naturals, Sequences

CONSTANTS
  None, Documents,
  MaxChanges,    \* changes of a text, all authors
  MaxRevisions,  \* revisions of a document
  MaxVersion,    \* contents of the editor before another document is opened
  MaxProposals   \* requests to rewrite

DeskAssumption ==
  /\ MaxChanges \in Nat /\ MaxRevisions \in Nat \ {0}
  /\ MaxVersion \in Nat /\ MaxProposals \in Nat

Passages == {1, 2}
Empty    == [p \in Passages |-> 0]

VARIABLES
  revisions,  \* the text of every revision of each document; the last is current
  changes,    \* changes so far
  document,   \* activeDocument
  known,      \* activeDocument.current_revision_id: <<document, version>>
  text,       \* what the editor has
  version,    \* editorContentVersion
  selection,  \* [passage, padded]
  requests,   \* rewrites under way
  asked,      \* rewrites asked for so far
  proposal,   \* writingStore.activeProposal with proposalEditorVersion
  saves,      \* createRevision calls that have not come back
  saving      \* saving: the button waits

editor   == <<document, text, version, selection>>
deskVars == <<revisions, changes, editor, known, requests, asked, proposal,
              saves, saving>>

Current(d) == <<d, Len(revisions[d])>>

(* openDocument: setWorkspace forgets proposal and selection. *)
Open(d) ==
  /\ document' = d /\ known' = Current(d)
  /\ text' = revisions[d][Len(revisions[d])]
  /\ selection' = None /\ proposal' = None

DeskInit ==
  /\ revisions = [d \in Documents |-> <<Empty>>]
  /\ document \in Documents /\ known = Current(document)
  /\ text = Empty /\ version = 0 /\ selection = None /\ proposal = None
  /\ changes = 0 /\ asked = 0 /\ requests = {}
  /\ saves = {} /\ saving = FALSE

-----------------------------------------------------------------------------
Edit(p) ==
  /\ changes < MaxChanges /\ changes' = changes + 1
  /\ text' = [text EXCEPT ![p] = changes + 1] /\ version' = version + 1
  /\ UNCHANGED <<revisions, document, known, selection, requests, asked,
                 proposal, saves, saving>>

Select(p) ==
  /\ \E padded \in BOOLEAN : selection' = [passage |-> p, padded |-> padded]
  /\ UNCHANGED <<revisions, changes, document, known, text, version, requests,
                 asked, proposal, saves, saving>>

OpenDocument(d) ==
  /\ Open(d) /\ version' = version + 1 /\ version < MaxVersion
  /\ UNCHANGED <<revisions, changes, requests, asked, saves, saving>>

(* saveRevision sends what the editor has.  Two calls with one text that   *)
(* have no number yet are one here.                                        *)
Send(t) ==
  /\ saves' = saves \union {[document |-> document, text |-> t, version |-> 0]}
  /\ saving' = TRUE

(* The button waits for an answer: for the first, when the text that a     *)
(* proposal replaced is being saved too.                                   *)
Save ==
  /\ ~saving /\ Send(text)
  /\ UNCHANGED <<revisions, changes, editor, known, requests, asked, proposal>>

(* create_revision looks for the highest version. *)
Number(s) ==
  /\ s \in saves /\ s.version = 0 /\ Len(revisions[s.document]) < MaxRevisions
  /\ saves' = (saves \ {s}) \union
                 {[s EXCEPT !.version = Len(revisions[s.document]) + 1]}
  /\ UNCHANGED <<revisions, changes, editor, known, requests, asked, proposal,
                 saving>>

(* Faulty variant, for the mutation runs only: a version is not unique.     *)
InsertAnyhow(d, n, t) ==
  revisions' = [revisions EXCEPT ![d] = Append(SubSeq(@, 1, n - 1), t)]

(* The pair of document and version is unique. *)
Insert(d, n, t) ==
  /\ n = Len(revisions[d]) + 1
  /\ revisions' = [revisions EXCEPT ![d] = Append(@, t)]

(* It inserts the next, which is the document's current revision then; the *)
(* tab notes it for the document it shows by now.                          *)
SaveReturns(s) ==
  /\ s \in saves /\ s.version # 0 /\ saves' = saves \ {s} /\ saving' = FALSE
  /\ Insert(s.document, s.version, s.text)
  /\ known' = <<s.document, s.version>>
  /\ UNCHANGED <<changes, editor, requests, asked, proposal>>

(* Or it fails: always, when another save took the version. *)
SaveFails(s) ==
  /\ s \in saves /\ saves' = saves \ {s} /\ saving' = FALSE
  /\ UNCHANGED <<revisions, changes, editor, known, requests, asked, proposal>>

(* Another tab saves. *)
OtherSave(d, p) ==
  /\ changes < MaxChanges /\ changes' = changes + 1
  /\ Len(revisions[d]) < MaxRevisions
  /\ revisions' = [revisions EXCEPT ![d] =
       Append(@, [@[Len(@)] EXCEPT ![p] = changes + 1])]
  /\ UNCHANGED <<editor, known, requests, asked, proposal, saves, saving>>

-----------------------------------------------------------------------------
(* submitAgentInstruction with a selection. *)
Ask ==
  /\ selection # None /\ asked < MaxProposals /\ asked' = asked + 1
  /\ requests' = requests \union
       {[document |-> document, base |-> known, version |-> version,
         selection |-> selection, of |-> text, at |-> "sent"]}
  /\ proposal' = None
  /\ UNCHANGED <<revisions, changes, editor, known, saves, saving>>

(* rewrite_selection loads the document and looks at the base once, before *)
(* the model is asked.                                                     *)
CheckBase(r) ==
  /\ r \in requests /\ r.at = "sent"
  /\ requests' = (requests \ {r}) \union
       (IF r.base = Current(r.document) THEN {[r EXCEPT !.at = "writing"]} ELSE {})
  /\ UNCHANGED <<revisions, changes, editor, known, asked, proposal, saves, saving>>

(* The model wrote something that keeps the citations, and they have been  *)
(* verified; the base is the one loaded before.  The selected text comes   *)
(* back stripped.  Or one of these failed.                                 *)
Propose(r) ==
  /\ r \in requests /\ r.at = "writing"
  /\ requests' = requests \ {r}
  /\ \/ proposal' = [base |-> r.base, version |-> r.version,
                     selection |-> r.selection, of |-> r.of,
                     original |-> <<r.of[r.selection.passage], FALSE>>]
     \/ UNCHANGED proposal
  /\ UNCHANGED <<revisions, changes, editor, known, asked, saves, saving>>

(* Faulty variant, for the mutation runs only: the selected passage is      *)
(* compared and nothing else.                                              *)
ReplaceableHere ==
  /\ proposal # None /\ selection # None
  /\ known = proposal.base
  /\ selection = proposal.selection
  /\ <<text[selection.passage], selection.padded>> = proposal.original

(* replaceDisabled, and selectionAnchorIsCurrent in it. *)
Replaceable ==
  /\ proposal # None /\ selection # None
  /\ version = proposal.version
  /\ known = proposal.base
  /\ selection = proposal.selection
  /\ <<text[selection.passage], selection.padded>> = proposal.original

(* replaceProposal: the text changes and is saved. *)
Replace ==
  /\ Replaceable /\ changes < MaxChanges /\ changes' = changes + 1
  /\ LET new == [text EXCEPT ![proposal.selection.passage] = changes + 1]
     IN  text' = new /\ Send(new)
  /\ version' = version + 1
  /\ UNCHANGED <<revisions, document, known, selection, requests, asked, proposal>>

DeskNext ==
  \/ \E p \in Passages : Edit(p) \/ Select(p)
  \/ \E d \in Documents : OpenDocument(d)
  \/ Save
  \/ \E s \in saves : Number(s) \/ SaveReturns(s) \/ SaveFails(s)
  \/ \E d \in Documents, p \in Passages : OtherSave(d, p)
  \/ Ask
  \/ \E r \in requests : CheckBase(r) \/ Propose(r)
  \/ Replace

-----------------------------------------------------------------------------
(* Every variable has its type. *)
DeskTypeOK ==
  /\ \A d \in Documents : Len(revisions[d]) \in 1..MaxRevisions
  /\ document \in Documents /\ known[1] \in Documents /\ known[2] \in Nat
  /\ version \in Nat /\ changes \in 0..MaxChanges /\ asked \in 0..MaxProposals
  /\ selection = None \/ selection.passage \in Passages
  /\ saving \in BOOLEAN
  /\ \A s \in saves : s.document \in Documents

(* A proposal that comes late does no harm: whatever was edited, saved,    *)
(* selected or opened while it was made, it replaces text only in the      *)
(* document and in the very text it was written for, the parts around the  *)
(* selection included.                                                     *)
ReplacementFits ==
  [][version' # version /\ saves' # saves
       => proposal.of = text /\ proposal.base[1] = document]_deskVars

(* No revision is changed or lost, however many save at once. *)
RevisionsStay ==
  [][\A d \in Documents :
       SubSeq(revisions'[d], 1, Len(revisions[d])) = revisions[d]]_deskVars

-----------------------------------------------------------------------------
(* docs/SMOKE_TESTS.md:174: a proposal is a new revision only when it is   *)
(* accepted, and an expired base is a conflict.  So no save of this tab    *)
(* becomes current over a revision the tab has not seen.                   *)
NothingIsOverwritten ==
  [][\A s \in saves : revisions' # revisions /\ s \notin saves'
                        => known = Current(s.document)]_deskVars

(* The message that disables the replacement, WritingDocumentEditor.vue:   *)
(* the text or the selection has changed.  Where nothing has, the proposal *)
(* can replace the selection.                                              *)
UnchangedIsReplaceable ==
  proposal # None /\ selection = proposal.selection /\ version = proposal.version
    /\ known = proposal.base => Replaceable

(* A tab knows a revision of the document it shows. *)
KnownIsOfDocument == known[1] = document
==============================================================================
