------------------------------ MODULE QaWorkflow ------------------------------
(***************************************************************************)
(* UnifiedQAWorkflow, the nodes a question goes through and the events it  *)
(* streams, and the request that uses it with evidence found before.       *)
(*                                                                         *)
(* A question of a chat is answered from what the database has and saved   *)
(* as a message: the tests still ask so, the routes of chats have their    *)
(* own answers (ChatAnswer).  One that comes with its evidence has no      *)
(* database: nobody reads its events, and ask_question records what the    *)
(* workflow left, in a QAPair.  A text is the number of its pieces that    *)
(* are not blank; events named "status" are left out.                      *)
(***************************************************************************)
EXTENDS Naturals, FiniteSets, Sequences

CONSTANTS
  None,
  Questions,   \* questions in progress
  MaxPieces,   \* bound: pieces a model answers with
  QaFaults     \* "retrieve", "model", "save": what may fail

QaAssumption == /\ MaxPieces \in Nat /\ IsFiniteSet(Questions)
                /\ QaFaults \subseteq {"retrieve", "model", "save"}

VARIABLES
  node,       \* where each question is
  kind,       \* "chat" or "given"
  evidence,   \* "none", "noise" or "some"
  reasoning,  \* "no", "open" or "closed"
  pieces,     \* pieces of reasoning and answer, blank ones too
  said,       \* the answer
  cited,      \* has it citations
  events,     \* what was streamed
  counted,    \* rows there were when it looked
  chat,       \* is the chat session there
  messages,   \* ChatMessage rows [place, question, text]
  pairs       \* QAPair rows, the same

qaVars == <<node, kind, evidence, reasoning, pieces, said, cited, events, counted,
            chat, messages, pairs>>
answerVars == <<reasoning, pieces, said>>
rowVars    == <<chat, messages, pairs>>

Nodes == {"load_context", "classify_intent", "retrieve_evidence", "evaluate_evidence",
          "generate_answer", "answer_without_evidence", "organize_citations",
          "persist_message", "finalize"}
Ends  == {"end", "failed"}

QaInit ==
  /\ node = [q \in Questions |-> "idle"]
  /\ kind = [q \in Questions |-> None] /\ evidence = [q \in Questions |-> "none"]
  /\ reasoning = [q \in Questions |-> "no"] /\ pieces = [q \in Questions |-> 0]
  /\ said = [q \in Questions |-> 0] /\ cited = [q \in Questions |-> FALSE]
  /\ events = [q \in Questions |-> <<>>] /\ counted = [q \in Questions |-> None]
  /\ chat = TRUE /\ messages = <<>> /\ pairs = <<>>

Go(q, where) == node' = [node EXCEPT ![q] = where]
Say(q, what) == events' = [events EXCEPT ![q] = @ \o what]

-----------------------------------------------------------------------------
(* Faulty variants, for the mutation runs only. *)

(* The error is logged, and the next node is run. *)
FailQuietly(q) == Go(q, "finalize") /\ UNCHANGED events
-----------------------------------------------------------------------------
(* An error is told and ends the stream, whatever raised it. *)
Fail(q) == Go(q, "failed") /\ Say(q, <<"error">>)

(* ask_question finds the evidence, or a chat asks. *)
Begin(q, k, found) ==
  /\ node[q] = "idle" /\ (k = "chat" => found = "none")
  /\ Go(q, "load_context")
  /\ kind' = [kind EXCEPT ![q] = k]
  /\ evidence' = [evidence EXCEPT ![q] = found]
  /\ UNCHANGED <<answerVars, cited, events, counted, rowVars>>

LoadContext(q) ==
  /\ node[q] = "load_context"
  /\ IF kind[q] = "chat" /\ ~chat THEN Fail(q)
     ELSE Go(q, "classify_intent") /\ UNCHANGED events
  /\ UNCHANGED <<kind, evidence, answerVars, cited, counted, rowVars>>

ClassifyIntent(q) ==
  /\ node[q] = "classify_intent" /\ Go(q, "retrieve_evidence")
  /\ UNCHANGED <<kind, evidence, answerVars, cited, events, counted, rowVars>>

(* A question about the paper's metadata has that for evidence. *)
RetrieveEvidence(q) ==
  /\ node[q] = "retrieve_evidence"
  /\ \/ /\ Go(q, "evaluate_evidence")
        /\ IF evidence[q] # "none" THEN UNCHANGED evidence
           ELSE \E found \in (IF kind[q] = "chat" THEN {"none", "noise", "some"}
                              ELSE {"none", "some"}) :
                  evidence' = [evidence EXCEPT ![q] = found]
        /\ UNCHANGED events
     \/ /\ "retrieve" \in QaFaults /\ kind[q] = "chat"
        /\ Fail(q) /\ UNCHANGED evidence
  /\ UNCHANGED <<kind, answerVars, cited, counted, rowVars>>

EvaluateEvidence(q) ==
  /\ node[q] = "evaluate_evidence"
  /\ evidence' = [evidence EXCEPT ![q] = IF @ = "noise" THEN "none" ELSE @]
  /\ Go(q, IF evidence[q] = "some" THEN "generate_answer" ELSE "answer_without_evidence")
  /\ UNCHANGED <<kind, answerVars, cited, events, counted, rowVars>>

AnswerWithoutEvidence(q) ==
  /\ node[q] = "answer_without_evidence"
  /\ said' = [said EXCEPT ![q] = 1] /\ Say(q, <<"answer_delta">>)
  /\ Go(q, "persist_message")
  /\ UNCHANGED <<kind, evidence, reasoning, pieces, cited, counted, rowVars>>

(* The model thinks, and answers; the first piece of an answer closes the  *)
(* reasoning.                                                              *)
Think(q) ==
  /\ node[q] = "generate_answer" /\ pieces[q] < MaxPieces
  /\ reasoning' = [reasoning EXCEPT ![q] = IF @ = "closed" THEN @ ELSE "open"]
  /\ pieces' = [pieces EXCEPT ![q] = @ + 1] /\ Say(q, <<"reasoning_delta">>)
  /\ UNCHANGED <<node, kind, evidence, said, cited, counted, rowVars>>

Closing(q) == IF reasoning[q] = "open" THEN <<"reasoning_done">> ELSE <<>>

Speak(q, blank) ==
  /\ node[q] = "generate_answer" /\ pieces[q] < MaxPieces
  /\ reasoning' = [reasoning EXCEPT ![q] = IF @ = "open" THEN "closed" ELSE @]
  /\ pieces' = [pieces EXCEPT ![q] = @ + 1]
  /\ said' = [said EXCEPT ![q] = IF blank THEN @ ELSE @ + 1]
  /\ Say(q, Append(Closing(q), IF blank THEN "blank_delta" ELSE "answer_delta"))
  /\ UNCHANGED <<node, kind, evidence, cited, counted, rowVars>>

(* The stream of the model ends, with an answer or without, or breaks. *)
EndAnswer(q) ==
  /\ node[q] = "generate_answer"
  /\ \/ /\ said[q] > 0 /\ Go(q, "organize_citations") /\ Say(q, Closing(q))
     \/ /\ said[q] = 0 /\ Go(q, "failed") /\ Say(q, Append(Closing(q), "error"))
  /\ reasoning' = [reasoning EXCEPT ![q] = IF @ = "open" THEN "closed" ELSE @]
  /\ UNCHANGED <<kind, evidence, pieces, said, cited, counted, rowVars>>

BreakAnswer(q) ==
  /\ node[q] = "generate_answer" /\ "model" \in QaFaults /\ Fail(q)
  /\ UNCHANGED <<kind, evidence, answerVars, cited, counted, rowVars>>

OrganizeCitations(q) ==
  /\ node[q] = "organize_citations" /\ Go(q, "persist_message")
  /\ \E c \in BOOLEAN : cited' = [cited EXCEPT ![q] = c]
  /\ UNCHANGED <<kind, evidence, answerVars, events, counted, rowVars>>

(* The place of the message is one more than the messages it counted. *)
CountMessages(q) ==
  /\ node[q] = "persist_message" /\ counted[q] = None
  /\ IF kind[q] = "given"
     THEN Go(q, "finalize") /\ UNCHANGED <<events, counted>>
     ELSE IF ~chat THEN Fail(q) /\ UNCHANGED counted
     ELSE counted' = [counted EXCEPT ![q] = Len(messages)] /\ UNCHANGED <<node, events>>
  /\ UNCHANGED <<kind, evidence, answerVars, cited, rowVars>>

Row(q) == [place |-> counted[q] + 1, question |-> q, text |-> said[q]]

SaveMessage(q) ==
  /\ node[q] = "persist_message" /\ counted[q] # None
  /\ \/ /\ chat /\ messages' = Append(messages, Row(q))
        /\ Go(q, "finalize") /\ UNCHANGED events
     \/ /\ ~chat \/ "save" \in QaFaults
        /\ Fail(q) /\ UNCHANGED messages
  /\ UNCHANGED <<kind, evidence, answerVars, cited, counted, chat, pairs>>

Finalize(q) ==
  /\ node[q] = "finalize" /\ Go(q, "end") /\ Say(q, <<"citations", "done">>)
  /\ UNCHANGED <<kind, evidence, answerVars, cited, counted, rowVars>>

-----------------------------------------------------------------------------
(* ask_question: whatever the workflow left is the answer. *)
CountPairs(q) ==
  /\ node[q] \in Ends /\ kind[q] = "given" /\ counted[q] = None
  /\ counted' = [counted EXCEPT ![q] = Len(pairs)]
  /\ UNCHANGED <<node, kind, evidence, answerVars, cited, events, rowVars>>

RecordPair(q) ==
  /\ node[q] \in Ends /\ kind[q] = "given" /\ counted[q] # None
  /\ pairs' = Append(pairs, Row(q)) /\ Go(q, "recorded")
  /\ UNCHANGED <<kind, evidence, answerVars, cited, events, counted, chat, messages>>

(* The user deletes the chat session, with its messages. *)
DeleteChat ==
  /\ chat /\ chat' = FALSE /\ messages' = <<>>
  /\ UNCHANGED <<node, kind, evidence, answerVars, cited, events, counted, pairs>>

QaStep(q) ==
  \/ LoadContext(q) \/ ClassifyIntent(q) \/ RetrieveEvidence(q) \/ EvaluateEvidence(q)
  \/ AnswerWithoutEvidence(q) \/ Think(q) \/ Speak(q, TRUE) \/ Speak(q, FALSE)
  \/ EndAnswer(q) \/ BreakAnswer(q) \/ OrganizeCitations(q) \/ CountMessages(q)
  \/ SaveMessage(q) \/ Finalize(q) \/ CountPairs(q) \/ RecordPair(q)

QaNext ==
  \/ \E q \in Questions : \/ QaStep(q)
                          \/ \E k \in {"chat", "given"}, f \in {"none", "noise", "some"} :
                               Begin(q, k, f)
  \/ DeleteChat

-----------------------------------------------------------------------------
(* Every variable has its type. *)
QaTypeOK ==
  /\ \A q \in Questions :
       /\ node[q] \in {"idle", "recorded"} \union Nodes \union Ends
       /\ kind[q] \in {None, "chat", "given"}
       /\ evidence[q] \in {"none", "noise", "some"}
       /\ reasoning[q] \in {"no", "open", "closed"}
       /\ pieces[q] \in 0..MaxPieces /\ said[q] \in 0..(MaxPieces + 1)
       /\ cited[q] \in BOOLEAN /\ counted[q] \in {None} \union 0..Cardinality(Questions)
  /\ chat \in BOOLEAN

(* The stream has one last event; "done" comes after everything the answer *)
(* is made of, which is in the chat when it is still there, and an error   *)
(* is told of an answer that is not; reasoning is closed before the answer *)
(* goes on; and citations are of evidence.                                 *)
StreamsAreWhole ==
  \A q \in Questions :
    LET sent == events[q]
        At(e) == {i \in DOMAIN sent : sent[i] = e}
        saved == {i \in DOMAIN messages : messages[i].question = q}
    IN  /\ \A i \in At("done") \union At("error") : i = Len(sent)
        /\ node[q] \in Ends => sent # <<>> /\ sent[Len(sent)] \in {"done", "error"}
        /\ kind[q] = "chat" /\ chat => (At("done") # {} => saved # {})
        /\ saved # {} => At("error") = {}
        /\ \A i \in saved : messages[i].text = Cardinality(At("answer_delta"))
        /\ \A i \in At("reasoning_delta"), j \in At("answer_delta") :
             i < j => \E k \in At("reasoning_done") : k < j
        /\ Cardinality(At("reasoning_done")) <= 1
        /\ cited[q] => evidence[q] = "some"

(* Every question is answered or fails: there are finitely many, and none  *)
(* is in progress for good.                                                *)
QuestionsEnd ==
  (\E q \in Questions : node[q] \in Nodes) ~> (\A q \in Questions : node[q] \notin Nodes)

-----------------------------------------------------------------------------
(* paper_analysis.py:133-135 answers with what the workflow found.  Not    *)
(* so: an error of the workflow is an event that nobody reads, and a blank *)
(* answer is recorded and returned as if it were one.                      *)
BlankIsNoAnswer == \A i \in DOMAIN pairs : pairs[i].text > 0

(* models/chat.py:41, the place of a message among its session's.  Not so: *)
(* two answers that count the rows at the same time get the same place,    *)
(* among the messages and among the pairs.                                 *)
PlacesDiffer ==
  \A rows \in {messages, pairs} :
    \A i, j \in DOMAIN rows : rows[i].place = rows[j].place => i = j
=============================================================================
