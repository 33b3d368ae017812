----------------------------- MODULE MCServices -----------------------------
(***************************************************************************)
(* EvaluationRuns, PaperProfiles, ProjectPreferences, LeadAgent,           *)
(* AnswerPaths, ToolRuntime and QaWorkflow for TLC.  They share no row; the*)
(* initial state says which of them a behaviour is about and the others    *)
(* stay as they start, so that their state spaces add up and do not        *)
(* multiply.                                                               *)
(***************************************************************************)
EXTENDS Naturals, FiniteSets, Sequences, TLC

CONSTANTS
  Admins, Runs, Kinds, MaxAttempts, EvalFaults, MaxEvalDeaths,
  Users, Worker, MaxRegenerations, CardFaults, MaxParses, MaxTouches, MaxSaves,
  MaxRequests, MaxCardDeaths,
  Members, Papers, Preprints, Favorites, MaxKept, ImportFaults, MaxWrites,
  MaxImportDeaths,
  None, MaxTaskAttempts, MaxIterations, MaxRetries, MaxResumeCount,
  MaxModelCalls, MaxToolUses, MaxAnswered, AgentFaults, MayStop, MaxAgentDeaths,
  Tools, Confirmable, Allowed, Permissions, MaxToolCalls, MaxToolDeaths,
  Questions, MaxPieces, QaFaults,
  MaxParts, MaxTurns, Hits, MaxCites, PathFaults,
  Services  \* the services to check

VARIABLES
  focus,
  status, kind, reports, jobsOfRuns, hand, startRequest, deaths,
  paper, card, session, jobs, parses, saves, asked, cardDeaths, spoilt,
  prefs, stored, tagged, linked, broken, preprint, taken, waiting, request,
  import, writes, importDeaths, stuck, dropped, deleted,
  task, attempts, metrics, charged, overspent, stopped, cardMade, checkpoint,
  pc, iteration, talk, chunks, todo, traced, tried, resumed, made, agentDeaths,
  toolCount, traces, call, cancel, effects, toolDeaths,
  node, asker, evidence, reasoning, pieces, said, cited, events, counted, chat,
  messages, pairs,
  stage, way, reader, agents, wanted, part, buffer, shown, text, cites, found,
  pathCited, saved

(* The task may make one model call less and one tool call more than the   *)
(* execution it belongs to.                                                *)
Limit  == [model |-> MaxModelCalls, tool |-> MaxToolUses + 1]
Budget == [model |-> MaxModelCalls + 1, tool |-> MaxToolUses]

(* The tools are named for their effects. *)
Effect == [t \in Tools |-> t]

Eval  == INSTANCE EvaluationRuns
           WITH waiting <- jobsOfRuns, request <- startRequest
Card  == INSTANCE PaperProfiles
Prefs == INSTANCE ProjectPreferences WITH asked <- taken
Agent == INSTANCE LeadAgent
           WITH card <- cardMade, MaxAttempts <- MaxTaskAttempts
Tool  == INSTANCE ToolRuntime
Qa    == INSTANCE QaWorkflow WITH kind <- asker
Path  == INSTANCE AnswerPaths WITH cited <- pathCited

ASSUME ServicesAssumption ==
  /\ Eval!EvaluationAssumption /\ Card!CardAssumption
  /\ Prefs!PreferencesAssumption /\ Agent!AgentAssumption
  /\ Tool!ToolAssumption /\ Qa!QaAssumption /\ Path!PathAssumption

evalVars  == <<status, kind, reports, jobsOfRuns, hand, startRequest, deaths>>
cardVars  == <<paper, card, session, jobs, parses, saves, asked, cardDeaths, spoilt>>
prefsVars == <<prefs, stored, tagged, linked, broken, preprint, taken, waiting,
               request, import, writes, importDeaths, stuck, dropped, deleted>>
agentVars == <<task, attempts, metrics, charged, overspent, stopped, cardMade,
               checkpoint, pc, iteration, talk, chunks, todo, traced, tried,
               resumed, made, agentDeaths>>
toolVars  == <<toolCount, traces, call, cancel, effects, toolDeaths>>
qaVars    == <<node, asker, evidence, reasoning, pieces, said, cited, events,
               counted, chat, messages, pairs>>
pathVars  == <<stage, way, reader, agents, wanted, part, buffer, shown, text,
               cites, found, pathCited, saved>>
vars      == <<focus, evalVars, cardVars, prefsVars, agentVars, toolVars, qaVars,
               pathVars>>

Init ==
  /\ focus \in Services
  /\ Eval!EvalInit /\ Card!CardInit /\ Prefs!PrefsInit
  /\ Agent!AgentInit /\ Tool!ToolInit /\ Qa!QaInit /\ Path!PathInit
  /\ focus = "card" \/ paper = Card!Unparsed

EvalStep(Step) ==
  /\ focus = "evaluation" /\ Step
  /\ UNCHANGED <<focus, cardVars, prefsVars, agentVars, toolVars, qaVars, pathVars>>
CardStep(Step) ==
  /\ focus = "card" /\ Step
  /\ UNCHANGED <<focus, evalVars, prefsVars, agentVars, toolVars, qaVars, pathVars>>
PrefsStep(Step) ==
  /\ focus = "preferences" /\ Step
  /\ UNCHANGED <<focus, evalVars, cardVars, agentVars, toolVars, qaVars, pathVars>>
AgentStep(Step) ==
  /\ focus = "agent" /\ Step
  /\ UNCHANGED <<focus, evalVars, cardVars, prefsVars, toolVars, qaVars, pathVars>>
ToolStep(Step) ==
  /\ focus = "tools" /\ Step
  /\ UNCHANGED <<focus, evalVars, cardVars, prefsVars, agentVars, qaVars, pathVars>>
QaStep(Step) ==
  /\ focus = "questions" /\ Step
  /\ UNCHANGED <<focus, evalVars, cardVars, prefsVars, agentVars, toolVars, pathVars>>
PathStep(Step) ==
  /\ focus = "answers" /\ Step
  /\ UNCHANGED <<focus, evalVars, cardVars, prefsVars, agentVars, toolVars, qaVars>>

Next == EvalStep(Eval!EvalNext) \/ CardStep(Card!CardNext)
          \/ PrefsStep(Prefs!PrefsNext) \/ AgentStep(Agent!AgentNext)
          \/ ToolStep(Tool!ToolNext) \/ QaStep(Qa!QaNext)
          \/ PathStep(Path!PathNext)

Spec == Init /\ [][Next]_vars

(* The worker goes on, a dead one is started again, and requests that came *)
(* are answered.                                                           *)
FairSpec ==
  /\ Spec
  /\ WF_vars(CardStep(Card!WorkerStep))
  /\ \A u \in Users : WF_vars(CardStep(Card!UserStep(u)))
  /\ WF_vars(AgentStep(Agent!AgentStep))
  /\ WF_vars(QaStep(\E q \in Questions : Qa!QaStep(q)))
  /\ WF_vars(PathStep(Path!Proceed \/ Path!Read))
  /\ WF_vars(PathStep(\E i \in Path!Tasks : Path!Work(i)))

(* Every variable of the seven modules has its type. *)
TypeOK == Eval!EvalTypeOK /\ Card!CardTypeOK /\ Prefs!PrefsTypeOK
            /\ Agent!AgentTypeOK /\ Tool!ToolTypeOK /\ Qa!QaTypeOK
            /\ Path!PathTypeOK

(* What is shown as under way, an evaluation run, a profile in the making  *)
(* or an import, has somebody left who will end it.                        *)
WorkIsAttended ==
  Eval!ActiveRunIsAttended /\ Card!ProfileIsAttended /\ Prefs!ImportIsAttended

(* One run of a type is active at a time, a run is evaluated once and a    *)
(* preprint imported once, however often it is asked for or delivered.     *)
DoneOnce == Eval!OneActiveRun /\ Eval!EvaluatedOnce /\ Prefs!ImportedOnce

(* A profile in the making settles, a run of the agent ends whatever the   *)
(* model asks for, and a question is answered or fails, as do the agents   *)
(* that were started for it.                                               *)
WorkSettles == Card!ProfileSettles /\ Agent!RunsEnd /\ Qa!QuestionsEnd
                 /\ (focus = "answers" => Path!AnswersEnd)

(* ProjectPreferences: a ready import is in the project. *)
ReadyIsLinked == Prefs!ReadyIsLinked

(* LeadAgent and ToolRuntime: no model or tool call is made that was not   *)
(* counted before, against every limit there is.                           *)
CallsAreAccountedFor == Agent!CallsArePaidFor /\ Tool!EffectsAreTraced

(* LeadAgent: a conversation is whole, also after a checkpoint.            *)
(* QaWorkflow, AnswerPaths: so is the stream of an answer, and it is what  *)
(* was saved; what one search found is cited by its numbers.               *)
ConversationIsWhole == Agent!ConversationIsWhole /\ Qa!StreamsAreWhole
                         /\ Path!AnswerIsWhole /\ Path!OneNumbering

(* LeadAgent: no call begins once the execution is paused or cancelled. *)
NoCallAfterStop == Agent!NoCallAfterStop

-----------------------------------------------------------------------------
(* EvaluationRuns: every run ends, when the worker and the requests go on. *)
EvaluationFairSpec ==
  /\ Spec
  /\ WF_vars(EvalStep(Eval!WorkerStep))
  /\ \A a \in Admins : WF_vars(EvalStep(Eval!Proceed(a)))

EveryRunEnds == Eval!EveryRunEnds

(* PaperProfiles: a profile gets stale when the paper was parsed again. *)
StaleMeansReparsed == Card!StaleMeansReparsed

(* PaperProfiles: a saved reading card stays. *)
SavedCardStays == Card!SavedCardStays

(* ProjectPreferences: a favorite goes when it is removed. *)
FavoritesStay == Prefs!FavoritesStay

(* ProjectPreferences: a preprint is imported by one job at a time. *)
OneImportAtATime == Prefs!OneImportAtATime

(* LeadAgent: a pause does not fail the task. *)
PauseIsSafe == Agent!PauseIsSafe

(* QaWorkflow: a blank answer is not recorded. *)
BlankIsNoAnswer == Qa!BlankIsNoAnswer

(* QaWorkflow: no two rows of a session or a paper have the same place. *)
PlacesDiffer == Qa!PlacesDiffer

(* AnswerPaths: a citation names the chunk that was cited. *)
CitationsNameWhatWasCited == Path!CitationsNameWhatWasCited

(* AnswerPaths: nothing goes on once the reader has left. *)
NothingRunsAfterStop == Path!NothingRunsAfterStop

(* AnswerPaths: an answer that is saved says something. *)
SavedAnswersSaySomething == Path!SavedAnswersSaySomething
=============================================================================
