---------------------------- MODULE WritingRules ----------------------------
(***************************************************************************)
(* The rules a text of the model has to keep before it becomes a proposal, *)
(* and the citation audit of a document.  A text is a sequence of words,   *)
(* placeholders of citations, breaks between paragraphs and placeholders   *)
(* that are never closed; a claim is a sequence of words.                  *)
(***************************************************************************)
EXTENDS Naturals, Sequences, SequencesExt, FiniteSets

CONSTANTS None, MaxDraftCitations

Word(w)  == [token |-> "word", of |-> w]
Cite(k)  == [token |-> "cite", of |-> k]
Break    == [token |-> "break", of |-> ""]
Unclosed == [token |-> "unclosed", of |-> ""]

Of(content, token) ==
  LET kept == SelectSeq(content, LAMBDA t : t.token = token)
  IN  [i \in 1..Len(kept) |-> kept[i].of]

(* The keys in the order of their placeholders; one that is not closed is  *)
(* an error.                                                               *)
PlaceholderKeys(content) ==
  IF Unclosed \in ToSet(content) THEN None ELSE Of(content, "cite")

(* Parts between the breaks that are not blank. *)
Paragraphs(content) ==
  Cardinality({i \in 1..Len(content) :
    content[i] # Break /\ (i = 1 \/ content[i - 1] = Break)})

Distinct(seq) == Cardinality(ToSet(seq)) = Len(seq)

Says(text, part) ==
  \E i \in 0..Len(text) - Len(part) : SubSeq(text, i + 1, i + Len(part)) = part

(* ParagraphModelOutput, and the evidence that was offered. *)
ValidDraft(draft, offered) ==
  LET cites == draft.citations
      keys  == [i \in 1..Len(cites) |-> cites[i].key]
  IN
  /\ Len(cites) \in 1..MaxDraftCitations
  /\ Paragraphs(draft.content) = 1
  /\ Distinct(keys) /\ PlaceholderKeys(draft.content) = keys
  /\ \A i \in 1..Len(cites) :
       /\ Says(Of(draft.content, "word"), cites[i].claim)
       /\ cites[i].evidence \in offered

(* RewriteModelOutput: the citations of the selection, in their order.     *)
ValidRewrite(output, expected) ==
  /\ output.content # <<>>
  /\ output.keys = expected /\ PlaceholderKeys(output.content) = expected

(* A request: the selection has every citation once and in order. *)
ValidSelection(content, keys) ==
  content # <<>> /\ Distinct(keys) /\ PlaceholderKeys(content) = keys

(* The model may repair an invalid output once. *)
Repaired(first, second, offered) ==
  IF ValidDraft(first, offered) THEN first
  ELSE IF ValidDraft(second, offered) THEN second ELSE None

(* WritingReviewDecision. *)
ValidReview(review) ==
  IF review.verdict = "pass" THEN review.issues = {} /\ ~review.instruction
  ELSE review.issues # {} /\ review.instruction

(* generate_paragraph: a draft is reviewed, and revised once if the        *)
(* reviewer asks for it; the revision is not reviewed again.               *)
Paragraph(first, second, review, revision, offered) ==
  LET draft == Repaired(first, second, offered)
  IN  CASE draft = None \/ ~ValidReview(review) -> None
        [] review.verdict = "pass"              -> draft
        [] ValidDraft(revision, offered)        -> revision
        [] OTHER                                -> None

-----------------------------------------------------------------------------
(* The audit.  A document is a sequence of paragraphs [claim, long, cites] *)
(* and supported has what the verification finds, as <<cite, claim>>.      *)
ClaimBlocks(doc) == {i \in 1..Len(doc) : doc[i].long}

(* The last substantive paragraph that cites it gives a citation its       *)
(* claim; without one the citation's own text is used.                     *)
ClaimOf(doc, cite) ==
  LET blocks == {i \in ClaimBlocks(doc) : cite \in doc[i].cites}
  IN  IF blocks = {} THEN None
      ELSE doc[CHOOSE i \in blocks : \A j \in blocks : j <= i].claim

Audit(doc, supported) ==
  /\ \A i \in 1..Len(doc) : \A cite \in doc[i].cites :
       <<cite, ClaimOf(doc, cite)>> \in supported
  /\ \A i \in ClaimBlocks(doc) : doc[i].cites # {}

-----------------------------------------------------------------------------
(* What the model writes becomes a proposal only if a reader can check it: *)
(* one paragraph in which every placeholder stands once, stands for one    *)
(* piece of the evidence that was offered, and claims what the paragraph   *)
(* says.                                                                   *)
Grounded(draft, offered) ==
  LET content == draft.content
      Places(k) == {i \in 1..Len(content) : content[i] = Cite(k)}
  IN
  /\ ~ \E i, j, k \in 1..Len(content) :
         /\ i < j /\ j < k /\ content[j] = Break
         /\ content[i] # Break /\ content[k] # Break
  /\ Unclosed \notin ToSet(content)
  /\ \A i \in 1..Len(content) : content[i].token = "cite" =>
       /\ Cardinality(Places(content[i].of)) = 1
       /\ \E c \in ToSet(draft.citations) :
            /\ c.key = content[i].of /\ c.evidence \in offered
            /\ Says(Of(content, "word"), c.claim)
  /\ \A c \in ToSet(draft.citations) : Places(c.key) # {}

ProposalIsGrounded(first, second, review, revision, offered) ==
  LET proposal == Paragraph(first, second, review, revision, offered)
  IN  proposal # None => Grounded(proposal, offered)

(* A document passes its audit if and only if every substantive paragraph  *)
(* is supported by what it cites, and every other citation by itself...    *)
WellSupported(doc, supported) ==
  \A i \in 1..Len(doc) :
    /\ doc[i].long => doc[i].cites # {}
    /\ \A cite \in doc[i].cites :
         <<cite, IF doc[i].long THEN doc[i].claim ELSE None>> \in supported

AuditIsExact(doc, supported) == Audit(doc, supported) = WellSupported(doc, supported)

(* ... which the code has for documents that cite nothing in two places.   *)
CitesOnce(doc) ==
  \A i, j \in 1..Len(doc) : i # j => doc[i].cites \intersect doc[j].cites = {}
=============================================================================
