------------------------------ MODULE Citations ------------------------------
(***************************************************************************)
(* Evidence and the verification of citations: one paper of one project,   *)
(* its evidence rows, and calls that run at the same time: a paragraph is  *)
(* generated (its evidence is stored, then verified), a document or a      *)
(* rewritten selection is checked, a draft passes the final gate.  The     *)
(* paper may be parsed again and leave the project meanwhile.              *)
(*                                                                         *)
(* The model's verdict on a claim may be anything.  Adjusting a weak claim *)
(* is left out: no caller asks for it.                                     *)
(***************************************************************************)
EXTENDS Naturals, Sequences

CONSTANTS
  Writer,       \* the worker with a task that writes a section
  Checkers,     \* other requests under way at a time
  Chunks,       \* ids of the chunks the retrieval finds in any parse
  Claims,
  Alike,        \* <<claim, text>>: pairs that share enough words
  MaxParses, MaxMoves, MaxCitations

CitationAssumption ==
  /\ Alike \subseteq Claims \X (Claims \union Chunks)
  /\ \A c \in Claims : <<c, c>> \in Alike
  /\ MaxParses \in Nat \ {0} /\ MaxMoves \in Nat
  /\ MaxCitations \in Nat \ {0}

Callers == {Writer} \union Checkers

VARIABLES
  parse,     \* the sections and elements of the paper are of this parse
  member,    \* the paper is in the project
  evidence,  \* rows by <<who made it, chunk>>
  calls,     \* what each caller is doing
  moves      \* removals, returns, deletions and deaths so far

citationVars == <<parse, member, evidence, calls, moves>>

Ids    == {"user", "task"} \X Chunks
NoRow  == [parse |-> 0]
Idle   == [pc |-> "idle"]

(* A new row knows the claim it was made for and the parse it is from. *)
NewRow(chunk, claim, p) ==
  [chunk |-> chunk, claim |-> claim, parse |-> p,
   status |-> "active", verification |-> "unverified"]

(* The rows a call's session has in memory: expire_on_commit is off, so it *)
(* goes on reading such a row as it was when it was loaded.                *)
NoneHeld      == [id \in Ids |-> NoRow]
Holding(id, row) == [NoneHeld EXCEPT ![id] = row]

StaleRows == {id \in Ids : evidence[id] # NoRow /\ evidence[id].status = "stale"}

CitationInit ==
  /\ parse = 1 /\ member = TRUE
  /\ evidence = [id \in Ids |-> NoRow]
  /\ calls = [c \in Callers |-> Idle]
  /\ moves = 0

-----------------------------------------------------------------------------
(* evidence_supports_claim: the claim shares words with the snippet or     *)
(* with the claim the row was made for.                                    *)
SupportsClaim(claim, row) ==
  <<claim, row.claim>> \in Alike \/ <<claim, row.chunk>> \in Alike

(* Faulty variant, for the mutation runs only: a row of an earlier parse    *)
(* passes.                                                                 *)
GateOfAnyParse(claim, row, linked) ==
  IF row = NoRow THEN "missing"
  ELSE IF ~linked THEN "stale"
  ELSE IF row.status # "active" \/ ~SupportsClaim(claim, row) THEN "refused"
  ELSE "passed"

(* The gates of verify_integrity, in their order; "linked" is what was     *)
(* read of the membership.                                                 *)
Gate(claim, row, linked) ==
  IF row = NoRow THEN "missing"
  ELSE IF ~linked THEN "stale"
  ELSE IF row.status # "active" THEN "refused"
  ELSE IF row.parse # parse THEN "stale"
  ELSE IF ~SupportsClaim(claim, row) THEN "refused"
  ELSE "passed"

Gated(row, gate) ==
  CASE gate = "missing" -> row
    [] gate = "stale"   -> [row EXCEPT !.status = "stale",
                                       !.verification = "unsupported"]
    [] gate = "refused" -> [row EXCEPT !.verification = "unsupported"]
    [] gate = "passed"  -> [row EXCEPT !.verification = "unverified"]

(* The citations are looked at one after the other, and two may be of one  *)
(* row: a later one finds what an earlier one has marked as stale.         *)
AsFound(call, i) ==
  LET id  == call.cites[i].id
      row == call.held[id]
  IN IF \E j \in 1..i - 1 : /\ call.cites[j].id = id
                             /\ Gate(call.cites[j].claim, row, call.linked) = "stale"
       THEN [row EXCEPT !.status = "stale"] ELSE row

(* Of several citations of a row, what the last one writes stays. *)
LastOf(indices) == CHOOSE i \in indices : \A j \in indices : j <= i

GateAll(call) ==
  LET results == [i \in 1..Len(call.cites) |->
                    Gate(call.cites[i].claim, AsFound(call, i), call.linked)]
      Of(id)  == {i \in 1..Len(call.cites) : call.cites[i].id = id}
  IN [results |-> results,
      rows    |-> [id \in Ids |->
        IF Of(id) = {} THEN call.held[id]
        ELSE Gated(AsFound(call, LastOf(Of(id))), results[LastOf(Of(id))])]]

(* An UPDATE writes the attributes that differ from what was loaded. *)
Updated(row, loaded, now) ==
  [row EXCEPT
    !.status       = IF now.status = loaded.status THEN @ ELSE now.status,
    !.verification = IF now.verification = loaded.verification THEN @ ELSE now.verification]

Cited(cites) == {cites[i].id : i \in 1..Len(cites)}

Cites(From) == UNION {[1..n -> From] : n \in 1..MaxCitations}

(* What a caller has when it begins to verify.  "began" remembers, for the *)
(* properties, rows that were stale then and exist since.                  *)
Verifying(kind, cites, held, began) ==
  [pc |-> "integrity", kind |-> kind, cites |-> cites, held |-> held,
   linked |-> FALSE, results |-> <<>>, began |-> began \intersect Cited(cites),
   sound |-> {}, judged |-> {}]

-----------------------------------------------------------------------------
(* Chunks are retrieved and the model writes a paragraph that cites them.  *)
Generate(c) ==
  /\ c = Writer /\ calls[c].pc \in {"idle", "done"} /\ member
  /\ \E draft \in Cites([chunk : Chunks, claim : Claims]) :
       calls' = [calls EXCEPT ![c] =
                  [pc |-> "persist", draft |-> draft, of |-> parse, cites |-> <<>>,
                   held |-> NoneHeld, began |-> StaleRows]]
  /\ UNCHANGED <<parse, member, evidence, moves>>

(* EvidenceService.persist_used for the next citation: the paper has to be *)
(* in the project and its place has to exist still; the id of a row comes  *)
(* from the task, the paper and the chunk, and a row that is there already *)
(* is taken as it is.  The caller keeps the last row alone.                *)
PersistUsed(c) ==
  LET call  == calls[c]
      n     == Len(call.cites) + 1
      draft == call.draft[n]
      id    == <<"task", draft.chunk>>
      row   == IF call.held[id] # NoRow THEN call.held[id]
               ELSE IF evidence[id] # NoRow THEN evidence[id]
               ELSE NewRow(draft.chunk, draft.claim, parse)
  IN
  /\ call.pc = "persist" /\ n <= Len(call.draft)
  /\ IF member /\ call.of = parse
       THEN /\ calls' = [calls EXCEPT
                 ![c].cites = Append(@, [id |-> id, claim |-> draft.claim]),
                 ![c].held  = Holding(id, row)]
            /\ evidence' = IF call.held[id] # NoRow THEN evidence
                           ELSE [evidence EXCEPT ![id] = row]
       ELSE calls' = [calls EXCEPT ![c] = Idle] /\ UNCHANGED evidence
  /\ UNCHANGED <<parse, member, moves>>

StartVerification(c) ==
  LET call == calls[c]
      read == {id \in StaleRows : call.held[id] = NoRow}
  IN
  /\ call.pc = "persist" /\ Len(call.cites) = Len(call.draft)
  /\ calls' = [calls EXCEPT ![c] =
                 Verifying("paragraph", call.cites, call.held, call.began \union read)]
  /\ UNCHANGED <<parse, member, evidence, moves>>

(* The audit of a document and the rewriting of a selection verify what    *)
(* is cited there; the task AUDIT_DRAFT asks for the gates alone.          *)
Check(c) ==
  /\ calls[c].pc \in {"idle", "done"}
  /\ IF c = Writer
       THEN \E cites \in Cites([id : {"task"} \X Chunks, claim : Claims]) :
              calls' = [calls EXCEPT ![c] = Verifying("gate", cites, NoneHeld, StaleRows)]
       ELSE \E cites \in Cites([id : Ids, claim : Claims]) :
              calls' = [calls EXCEPT ![c] = Verifying("text", cites, NoneHeld, StaleRows)]
  /\ UNCHANGED <<parse, member, evidence, moves>>

(* verify_integrity reads the rows, of which the session knows some        *)
(* already, and whether the paper is in the project.                       *)
LoadCited(c) ==
  LET call == calls[c] IN
  /\ call.pc = "integrity"
  /\ calls' = [calls EXCEPT
       ![c].pc = "gates", ![c].linked = member,
       ![c].held = [id \in Ids |->
         IF call.held[id] # NoRow \/ id \notin Cited(call.cites) THEN call.held[id]
         ELSE evidence[id]]]
  /\ UNCHANGED <<parse, member, evidence, moves>>

(* The gates, and one commit, which fails when a row that was read was     *)
(* deleted meanwhile.  Of the rows a paragraph keeps the last one.         *)
VerifyIntegrity(c) ==
  LET call  == calls[c]
      done  == GateAll(call)
      last  == call.cites[Len(call.cites)].id
      lost  == \E id \in Ids : call.held[id] # NoRow /\ evidence[id] = NoRow
  IN
  /\ call.pc = "gates"
  /\ IF lost
       THEN calls' = [calls EXCEPT ![c] = Idle] /\ UNCHANGED evidence
       ELSE /\ evidence' = [id \in Ids |->
                 IF call.held[id] = NoRow THEN evidence[id]
                 ELSE Updated(evidence[id], call.held[id], done.rows[id])]
            /\ calls' = [calls EXCEPT
                 ![c].pc = IF call.kind = "gate" THEN "done" ELSE "semantic",
                 ![c].results = done.results,
                 ![c].held = IF call.kind = "paragraph" THEN Holding(last, done.rows[last])
                             ELSE NoneHeld,
                 ![c].linked = FALSE,
                 ![c].sound = {id \in Cited(call.cites) : call.linked /\ call.held[id].parse = parse}]
  /\ UNCHANGED <<parse, member, moves>>

(* The model judges the next citation that passed; an error counts as      *)
(* unsupported, and so does what did not pass.  A row that is not in       *)
(* memory is read again: it may be gone, and its paper with it.  Nothing   *)
(* is written yet.                                                         *)
Judge(c) ==
  LET call    == calls[c]
      results == call.results
      open    == {i \in 1..Len(results) :
                    results[i] \notin {"verified", "weak", "unsupported"}}
      next    == CHOOSE i \in open : \A j \in open : i <= j
      id      == call.cites[next].id
      row     == IF call.held[id] # NoRow THEN call.held[id] ELSE evidence[id]
      Answer(verdict) == [results EXCEPT ![next] = verdict]
  IN
  /\ call.pc = "semantic" /\ open # {}
  /\ \/ /\ results[next] # "passed" \/ evidence[id] = NoRow
        /\ calls' = [calls EXCEPT ![c].results = Answer("unsupported")]
     \/ /\ results[next] = "passed" /\ row # NoRow
        /\ \E verdict \in {"verified", "weak", "unsupported"} :
             calls' = [calls EXCEPT ![c].results = Answer(verdict),
                                    ![c].judged = @ \union {next},
                                    ![c].held = [@ EXCEPT ![id] = row]]
  /\ UNCHANGED <<parse, member, evidence, moves>>

(* The rows get the verdicts in one commit, which fails when one of them   *)
(* was deleted meanwhile; their status and the paper are not looked at     *)
(* again.                                                                  *)
SaveVerdicts(c) ==
  LET call   == calls[c]
      Of(id) == {i \in call.judged : call.cites[i].id = id}
      lost   == \E i \in call.judged : evidence[call.cites[i].id] = NoRow
      Judged(id) == [call.held[id] EXCEPT !.verification = call.results[LastOf(Of(id))]]
  IN
  /\ call.pc = "semantic"
  /\ \A i \in 1..Len(call.results) :
       call.results[i] \in {"verified", "weak", "unsupported"}
  /\ IF lost
       THEN calls' = [calls EXCEPT ![c] = Idle] /\ UNCHANGED evidence
       ELSE /\ calls' = [calls EXCEPT ![c].pc = "done", ![c].held = NoneHeld,
                                      ![c].judged = {}]
            /\ evidence' = [id \in Ids |->
                 IF Of(id) = {} THEN evidence[id]
                 ELSE Updated(evidence[id], call.held[id], Judged(id))]
  /\ UNCHANGED <<parse, member, moves>>

(* The process dies; what was committed stays. *)
CitationDies(c) ==
  /\ calls[c].pc \notin {"idle", "done"} /\ moves < MaxMoves /\ moves' = moves + 1
  /\ calls' = [calls EXCEPT ![c] = Idle]
  /\ UNCHANGED <<parse, member, evidence>>

-----------------------------------------------------------------------------
(* The paper is processed again: its sections are other rows now. *)
Reparse ==
  /\ parse < MaxParses /\ parse' = parse + 1
  /\ UNCHANGED <<member, evidence, calls, moves>>

(* The paper leaves the project, or comes back. *)
MovePaper ==
  /\ moves < MaxMoves /\ moves' = moves + 1 /\ member' = ~member
  /\ UNCHANGED <<parse, evidence, calls>>

(* create_evidence: a row nobody knows of, its id is new. *)
SaveEvidence(chunk, claim) ==
  LET id == <<"user", chunk>>
      Known(call) == call.pc \in {"integrity", "gates", "semantic"}
                       /\ \E i \in 1..Len(call.cites) : call.cites[i].id = id
  IN
  /\ member /\ evidence[id] = NoRow
  /\ \A c \in Callers : ~Known(calls[c])
  /\ evidence' = [evidence EXCEPT ![id] = NewRow(chunk, claim, parse)]
  /\ UNCHANGED <<parse, member, calls, moves>>

(* delete_evidence, or the deletion of the paper. *)
DeleteEvidence(id) ==
  /\ evidence[id] # NoRow /\ moves < MaxMoves /\ moves' = moves + 1
  /\ evidence' = [evidence EXCEPT ![id] = NoRow]
  /\ calls' = [c \in Callers |-> IF calls[c].pc = "idle" THEN calls[c]
                                 ELSE [calls[c] EXCEPT !.began = @ \ {id}]]
  /\ UNCHANGED <<parse, member>>

CitationNext ==
  \/ \E c \in Callers :
       \/ Generate(c) \/ PersistUsed(c) \/ StartVerification(c)
       \/ Check(c) \/ LoadCited(c) \/ VerifyIntegrity(c) \/ Judge(c)
       \/ SaveVerdicts(c) \/ CitationDies(c)
  \/ Reparse \/ MovePaper
  \/ \E chunk \in Chunks, claim \in Claims : SaveEvidence(chunk, claim)
  \/ \E id \in Ids : DeleteEvidence(id)

-----------------------------------------------------------------------------
Good == {"verified", "weak"}

(* Citations a finished call calls good. *)
GoodCitations(c) ==
  IF calls[c].pc # "done" THEN {}
  ELSE {i \in 1..Len(calls[c].results) :
          calls[c].results[i] \in Good \union {"passed"}}

(* Every variable has its type. *)
CitationTypeOK ==
  /\ parse \in 1..MaxParses /\ member \in BOOLEAN
  /\ \A id \in Ids : evidence[id] = NoRow \/
       /\ evidence[id].status \in {"active", "stale"}
       /\ evidence[id].verification \in Good \union {"unverified", "unsupported"}
  /\ \A c \in Callers :
       calls[c].pc \in {"idle", "persist", "integrity", "gates", "semantic", "done"}
  /\ moves \in 0..MaxMoves

(* Evidence that has once lost its source stays out: whoever verifies what *)
(* at the same time, and also when the paper comes back into the project,  *)
(* no call finds a citation good whose row was stale when the call began   *)
(* -- or when a paragraph began to be verified, but for the row its        *)
(* session had in memory -- or whose paper was elsewhere when its gates    *)
(* looked, or parsed again.                                                *)
StaleStaysOut ==
  \A c \in Callers : \A i \in GoodCitations(c) :
    LET id == calls[c].cites[i].id
    IN  id \notin calls[c].began /\ id \in calls[c].sound

-----------------------------------------------------------------------------
(* citation_verification_service.py:107: "Apply non-bypassable ownership,  *)
(* provenance, stale and lexical gates."  A citation found good shares     *)
(* words with the text it cites.                                           *)
LexicalGateHolds ==
  \A c \in Callers : \A i \in GoodCitations(c) :
    LET cite == calls[c].cites[i] IN <<cite.claim, cite.id[2]>> \in Alike

(* The same, of the stale gate: a row whose status is stale is not         *)
(* verified.                                                               *)
StaleIsNotVerified ==
  \A id \in Ids : evidence[id] # NoRow /\ evidence[id].status = "stale"
                    => evidence[id].verification \notin Good

(* docs/API.md:168: the semantic verifier, and nobody else, decides that a *)
(* row is verified; a gate that is passed does not take that back.         *)
VerdictSurvivesGate ==
  [][\A c \in Callers : calls[c].pc = "gates" =>
       \A id \in Ids :
         evidence[id] # NoRow /\ evidence[id].verification = "verified"
           /\ evidence'[id] # NoRow /\ evidence'[id].status = "active"
           => evidence'[id].verification # "unverified"]_citationVars

(* The same line, of the row a paragraph's session has in memory: the      *)
(* gates look at a row as it is stored.                                    *)
GatesSeeTheRow ==
  [][\A c \in Callers : calls[c].pc = "integrity" /\ calls'[c].pc = "gates" =>
       \A id \in Ids :
         calls'[c].held[id] # NoRow /\ evidence[id] # NoRow
           => calls'[c].held[id].status = evidence[id].status]_citationVars
==============================================================================
