----------------------------- MODULE AnswerPaths -----------------------------
(***************************************************************************)
(* stream_lead_agent: the ways a question of a chat can take, as the       *)
(* generator the worker reads.                                             *)
(*                                                                         *)
(* A question about the paper's data is answered from its row; a vague one *)
(* is asked back; one with several parts is taken apart and every part is  *)
(* given to an agent of its own; the others are answered from one search   *)
(* (single) or by an agent that streams (react).  Agents are tasks of      *)
(* their own beside the generator (LeadAgent has what they do).  A step of *)
(* the generator goes up to its next yield; then the reader takes the      *)
(* event, or has seen the stop and leaves.                                 *)
(*                                                                         *)
(* A text is a sequence of pieces; piece 0 is what an agent says in a turn *)
(* that is not its last.  A chunk is named by who found it in which search *)
(* as which; the model is shown that number and cites by it.               *)
(***************************************************************************)
EXTENDS Naturals, FiniteSets, Sequences, SequencesExt

CONSTANTS
  None,
  MaxParts,    \* bound: parts a question has
  MaxTurns,    \* turns of an agent, 3 for a part and more otherwise
  Hits,        \* how many chunks a search may find
  MaxCites,    \* bound: chunks one answer cites
  MaxPieces,   \* bound: pieces of a text
  PathFaults   \* "retrieve", "model", "save": what may fail

PathAssumption == /\ {MaxParts, MaxPieces} \subseteq Nat \ {0}
                  /\ {MaxTurns, MaxCites} \subseteq Nat /\ Hits \subseteq Nat
                  /\ PathFaults \subseteq {"retrieve", "model", "save"}

VARIABLES
  stage,    \* where the generator is
  way,      \* the way it takes, None before it has chosen
  reader,   \* the worker: "waiting", "holding" an event, or "gone"
  agents,   \* of each part, 0 for the synthesis: None, or its task
  wanted,   \* parts of the question
  part,     \* parts that were answered
  buffer,   \* tokens of the agent that were not streamed yet
  shown,    \* what was streamed
  text,     \* the answer
  cites,    \* what it cites [chunk, bare]
  found,    \* chunks that were found
  cited,    \* the chunks its citations name, None before
  saved     \* rows saved for the question

controlVars == <<stage, reader>>
taskVars    == <<agents, buffer>>
answerVars  == <<text, cites, found>>
pathVars    == <<controlVars, way, taskVars, wanted, part, shown, answerVars, cited, saved>>

Tasks == 0..MaxParts
Texts == {[i \in 1..n |-> i] : n \in 0..MaxPieces}
Said  == Texts \ {<<>>}
Chunks(agent, search, n) ==
  [i \in 1..n |-> [agent |-> agent, search |-> search, n |-> i]]
Few(S) == {T \in SUBSET S : Cardinality(T) <= MaxCites}

Ends == {"end", "failed", "raised"}

PathInit ==
  /\ stage = "start" /\ way = None /\ reader = "waiting"
  /\ agents = [i \in Tasks |-> None] /\ wanted = 0 /\ part = 0
  /\ buffer = <<>> /\ shown = <<>> /\ text = <<>> /\ cites = {} /\ found = <<>>
  /\ cited = None /\ saved = 0

At(s)    == stage = s /\ reader = "waiting"
Go(s)    == stage' = s /\ UNCHANGED reader
Yield(s) == stage' = s /\ reader' = "holding"

(* build_deterministic_citations: [Sn] is the chunk in place n of all that *)
(* were found; a marker of another form is none.                           *)
Resolve == {found[c.chunk.n] : c \in {c \in cites : c.bare /\ c.chunk.n <= Len(found)}}
-----------------------------------------------------------------------------
(* What rules can tell needs no model; what they cannot, and whatever they *)
(* would take for several questions, is left to it.                        *)
Enter(ways) ==
  \E w \in ways :
    /\ way' = w
    /\ Yield(CASE w = "clarify" -> "show" [] w = "multi" -> "ask"
               [] w = "single" -> "retrieve" [] w = "react" -> "start_agent")
    /\ text' \in IF w = "clarify" THEN Said ELSE {<<>>}
    /\ wanted' \in IF w = "multi" THEN 1..MaxParts ELSE {0}

ByRules == Enter({"clarify", "single", "react"})
Analyse == Yield("analyze") /\ UNCHANGED <<way, text, wanted>>

Begin == At("start") /\ Yield("load") /\ UNCHANGED <<way, text, wanted>>

(* The chat may be gone, or have neither paper nor project. *)
Load ==
  /\ At("load")
  /\ \/ (Yield("failed") \/ Yield("look")) /\ UNCHANGED <<way, text, wanted>>
     \/ ByRules \/ Analyse

Look ==
  /\ At("look")
  /\ \/ way' = "metadata" /\ text' \in Said /\ Yield("show") /\ UNCHANGED wanted
     \/ ByRules \/ Analyse

Understand == At("analyze") /\ Enter({"clarify", "multi", "single", "react"})

Choose ==
  /\ Begin \/ Load \/ Look \/ Understand
  /\ UNCHANGED <<taskVars, part, shown, cites, found, cited, saved>>

-----------------------------------------------------------------------------
(* A question in parts. *)
Task(i) == agents[i] # None /\ agents[i].at = "running"
New == [at |-> "running", turns |-> 0, text |-> <<>>, cites |-> {}, found |-> <<>>]

Ask == At("ask") /\ Yield(IF part < wanted THEN "spawn" ELSE "join")

Heartbeat == /\ \/ At("wait") /\ Task(part + 1)
                \/ At("joining") /\ Task(0)
             /\ Yield(stage)

Say ==
  /\ Ask \/ Heartbeat
  /\ UNCHANGED <<way, taskVars, wanted, part, shown, answerVars, cited, saved>>

Spawn ==
  /\ \/ At("spawn") /\ Go("wait") /\ agents' = [agents EXCEPT ![part + 1] = New]
     \/ At("join") /\ Go("joining") /\ agents' = [agents EXCEPT ![0] = New]
     \/ At("start_agent") /\ Go("stream") /\ agents' = [agents EXCEPT ![1] = New]
  /\ UNCHANGED <<way, wanted, part, buffer, shown, answerVars, cited, saved>>

(* An agent without an answer adds nothing; one that raised ends it all. *)
Collect ==
  LET agent == agents[part + 1] IN
  /\ At("wait") /\ ~Task(part + 1)
  /\ agents' = [agents EXCEPT ![part + 1] = None]
  /\ IF agent.at = "raised"
     THEN Go("raised") /\ UNCHANGED <<part, cites, found>>
     ELSE /\ part' = part + 1 /\ Go("ask")
          /\ cites' = cites \union agent.cites /\ found' = found \o agent.found
  /\ UNCHANGED <<way, buffer, wanted, shown, text, cited, saved>>

Join ==
  /\ At("joining") /\ ~Task(0) /\ Go("show")
  /\ text' = agents[0].text /\ cites' = agents[0].cites
  /\ agents' = [agents EXCEPT ![0] = None]
  /\ UNCHANGED <<way, buffer, wanted, part, shown, found, cited, saved>>

Show ==
  /\ At("show")
  /\ IF Len(shown) < Len(text)
     THEN shown' = Append(shown, text[Len(shown) + 1]) /\ Yield("show")
     ELSE Yield("persist") /\ UNCHANGED shown
  /\ UNCHANGED <<way, taskVars, wanted, part, answerVars, cited, saved>>

-----------------------------------------------------------------------------
(* One search and one call.  Its prompt shows chunk n as [SSn]: the number *)
(* it prefixes with S is named "Sn" already.  The model may copy that.     *)
Retrieve ==
  /\ At("retrieve")
  /\ \/ \E n \in Hits : found' = Chunks(0, 1, n) /\ Yield("generate")
     \/ "retrieve" \in PathFaults /\ Go("raised") /\ UNCHANGED found
  /\ UNCHANGED <<way, taskVars, wanted, part, shown, text, cites, cited, saved>>

Generate ==
  /\ At("generate")
  /\ \/ /\ Len(text) < MaxPieces /\ Yield("generate")
        /\ text' = Append(text, Len(text) + 1) /\ shown' = text' /\ UNCHANGED cites
     \/ /\ Go("persist") /\ UNCHANGED <<text, shown>>
        /\ cites' \in IF text = <<>> THEN {{}}
                      ELSE Few([chunk : Range(found), bare : BOOLEAN])
     \/ "model" \in PathFaults /\ Yield("failed") /\ UNCHANGED <<text, shown, cites>>
  /\ UNCHANGED <<way, taskVars, wanted, part, found, cited, saved>>

-----------------------------------------------------------------------------
(* An agent that streams. *)
Push ==
  /\ At("stream") /\ buffer # <<>> /\ Yield("stream")
  /\ shown' = Append(shown, Head(buffer)) /\ buffer' = Tail(buffer)
  /\ UNCHANGED <<way, agents, wanted, part, answerVars, cited, saved>>

Finish ==
  /\ At("stream") /\ buffer = <<>> /\ ~Task(1)
  /\ CASE agents[1].at = "raised" -> Go("raised") /\ UNCHANGED answerVars
       [] agents[1].at = "empty"  -> Yield("failed") /\ UNCHANGED answerVars
       [] OTHER -> /\ Go("persist") /\ text' = agents[1].text
                   /\ cites' = agents[1].cites /\ found' = agents[1].found
  /\ agents' = [agents EXCEPT ![1] = None]
  /\ UNCHANGED <<way, buffer, wanted, part, shown, cited, saved>>

-----------------------------------------------------------------------------
(* The row is committed before the citations are told. *)
Persist ==
  /\ At("persist")
  /\ \/ saved' = saved + 1 /\ cited' = Resolve /\ Yield("cite")
     \/ "save" \in PathFaults /\ Go("raised") /\ UNCHANGED <<saved, cited>>
  /\ UNCHANGED <<way, taskVars, wanted, part, shown, answerVars>>

Done ==
  /\ At("cite") /\ Yield("end")
  /\ UNCHANGED <<way, taskVars, wanted, part, shown, answerVars, cited, saved>>

-----------------------------------------------------------------------------
(* The tasks, which nobody cancels.  Only one that streams has its tokens  *)
(* in the buffer.                                                          *)
Stream(tokens) == buffer' = IF way = "react" THEN buffer \o tokens ELSE buffer

Search(i) ==
  /\ i # 0 /\ Task(i) /\ agents[i].turns < MaxTurns
  /\ \E n \in Hits :
       agents' = [agents EXCEPT ![i].turns = @ + 1,
                                ![i].found = @ \o Chunks(i, agents[i].turns + 1, n)]
  /\ \E aside \in {<<>>, <<0>>} : Stream(aside)

Conclude(i) ==
  /\ i # 0 /\ Task(i)
  /\ \E said \in Said, cs \in Few([chunk : Range(agents[i].found), bare : {TRUE}]) :
       /\ agents' = [agents EXCEPT ![i].at = "answered", ![i].text = said, ![i].cites = cs]
       /\ Stream(said)

(* A call that fails is no answer; the last one, which nobody guards,      *)
(* raises.                                                                 *)
GiveUp(i) ==
  /\ i # 0 /\ Task(i) /\ "model" \in PathFaults
  /\ \E end \in IF agents[i].turns < MaxTurns THEN {"empty"} ELSE {"empty", "raised"} :
       agents' = [agents EXCEPT ![i].at = end]
  /\ \E aside \in {<<>>, <<0>>} : Stream(aside)

(* synthesize_multi_intent_answer: of the answers there are, and if the    *)
(* model fails the answers themselves.                                     *)
Synthesize ==
  /\ Task(0)
  /\ \E said \in Texts, cs \in SUBSET cites :
       /\ said = <<>> => cs = {}
       /\ agents' = [agents EXCEPT ![0].at = "answered", ![0].text = said, ![0].cites = cs]
  /\ UNCHANGED buffer

Work(i) ==
  /\ Search(i) \/ Conclude(i) \/ GiveUp(i) \/ (i = 0 /\ Synthesize)
  /\ UNCHANGED <<controlVars, way, wanted, part, shown, answerVars, cited, saved>>

(* The worker saves the event it has, or leaves. *)
Read ==
  /\ reader = "holding" /\ reader' \in {"waiting", "gone"}
  /\ UNCHANGED <<stage, way, taskVars, wanted, part, shown, answerVars, cited, saved>>

Proceed == Choose \/ Say \/ Spawn \/ Collect \/ Join \/ Show \/ Retrieve \/ Generate
             \/ Push \/ Finish \/ Persist \/ Done

PathNext == Proceed \/ Read \/ \E i \in Tasks : Work(i)

-----------------------------------------------------------------------------
(* Every variable has its type. *)
PathTypeOK ==
  /\ stage \in Ends \union {"start", "load", "look", "analyze", "ask", "spawn", "wait",
                            "join", "joining", "show", "retrieve", "generate",
                            "start_agent", "stream", "persist", "cite"}
  /\ way \in {None, "metadata", "clarify", "multi", "single", "react"}
  /\ reader \in {"waiting", "holding", "gone"} /\ text \in Texts
  /\ part <= wanted /\ wanted <= MaxParts /\ saved \in 0..1

(* What ChatAnswer takes an answer to be: the whole text, then one commit, *)
(* then the citations and the end, and no commit where an error ends it.   *)
(* The text that is saved is what was streamed; of an agent that streams,  *)
(* what was streamed last, after whatever it said on the way.              *)
AnswerIsWhole ==
  LET last == SubSeq(shown, Len(shown) - Len(text) + 1, Len(shown)) IN
  /\ saved = (IF stage \in {"cite", "end"} THEN 1 ELSE 0)
  /\ saved = 1 => /\ Len(text) <= Len(shown) /\ last = text
                  /\ way # "react" => shown = text
                  /\ buffer = <<>>

(* Expected to fail.  paper_internal.py:257: the numbers of a search are   *)
(* aligned with build_deterministic_citations.  They begin at 1 in every   *)
(* search, and that counts through the chunks of all searches: from the    *)
(* second on, a marker names a chunk of another search.                    *)
CitationsNameWhatWasCited ==
  cited # None => cited = {c.chunk : c \in {c \in cites : c.bare}}

(* While one search has found all there is, a citation names the chunk     *)
(* that was cited (see CitationsNameWhatWasCited).                         *)
OneNumbering ==
  Cardinality({<<c.agent, c.search>> : c \in Range(found)}) <= 1 =>
    CitationsNameWhatWasCited

(* Every answer ends, unless its reader has left, and then no agent that   *)
(* was started for it is still at work.                                    *)
AnswersEnd ==
  <>(/\ stage \in Ends \/ reader = "gone"
     /\ \A i \in Tasks : ~Task(i))

-----------------------------------------------------------------------------
(* Expected to fail: when the worker has seen the stop and leaves, the     *)
(* agents it leaves behind go on.                                          *)
NothingRunsAfterStop == [][reader = "gone" => UNCHANGED agents]_pathVars

(* Expected to fail: an answer without text is refused from an agent that  *)
(* streams, and saved from the other ways.                                 *)
SavedAnswersSaySomething == saved = 1 => text # <<>>
=============================================================================
