----------------------------- MODULE LeadAgent -----------------------------
(***************************************************************************)
(* One READ_PAPER task of a research execution: the executor runs the      *)
(* agent loop (model call, tool calls, checkpoint), every model and tool   *)
(* call asks the task worker's progress callback first, and the loop goes  *)
(* on from its checkpoint in Redis when the job comes back.                *)
(*                                                                         *)
(* The queue gives the job back after a failure and after a death, as      *)
(* JobQueue has it; the execution around the task is ResearchExecution's.  *)
(***************************************************************************)
EXTENDS Naturals

CONSTANTS
  None,           \* no checkpoint
  MaxAttempts,    \* task.max_attempts
  MaxIterations,  \* min(DEFAULT_MAX_ITERATIONS, the scope's model calls)
  MaxRetries,     \* retries of one model call
  MaxResumeCount, \* MAX_RESUME_COUNT
  Limit,          \* [model, tool]: what the task's skill allows
  Budget,         \* [model, tool]: what the whole execution allows
  MaxAnswered,    \* tool calls in one response of the model
  AgentFaults,    \* what may go wrong
  MayStop,        \* whether the user pauses or cancels
  MaxAgentDeaths

AgentAssumption ==
  /\ MaxAttempts \in Nat \ {0} /\ MaxIterations \in Nat \ {0}
  /\ MaxRetries \in Nat /\ MaxResumeCount \in Nat
  /\ Limit \in [{"model", "tool"} -> Nat] /\ Budget \in [{"model", "tool"} -> Nat]
  /\ MaxAnswered \in Nat \ {0}
  /\ AgentFaults \subseteq {"retryable", "permanent", "empty", "tokens", "tool",
                           "save", "time"}
  /\ MayStop \in BOOLEAN /\ MaxAgentDeaths \in Nat

VARIABLES
  task,       \* status of the task
  attempts,   \* task.attempt_count
  metrics,    \* calls by kind in task.completion_payload
  charged,    \* calls by kind of the execution
  overspent,  \* the tokens used have reached the execution's
  stopped,    \* the execution is paused or cancelled
  card,       \* pp.analysis_card has a summary
  checkpoint, \* what Redis has under the task's id
  pc,         \* where the worker is
  iteration,  \* number of the round
  talk,       \* messages: calls asked for, calls answered, findings in answers
  chunks,     \* collected_chunks, how many
  todo,       \* calls of the last response still to do
  traced,     \* len(trace.tool_calls)
  tried,      \* failed attempts of this model call
  resumed,    \* resume_count
  made,       \* calls made by kind, over all runs
  agentDeaths

row    == <<task, attempts, metrics, charged, overspent, card>>
memory == <<iteration, talk, chunks, todo, traced, tried, resumed>>
agentVars == <<row, stopped, checkpoint, pc, memory, made, agentDeaths>>

Blank == [asked |-> 0, answered |-> 0, found |-> 0]

ForgetRun ==
  /\ iteration' = 0 /\ talk' = Blank /\ chunks' = 0 /\ todo' = 0
  /\ traced' = 0 /\ tried' = 0 /\ resumed' = 0

AgentInit ==
  /\ task = "queued" /\ attempts = 0
  /\ metrics = [k \in {"model", "tool"} |-> 0] /\ charged = metrics
  /\ overspent = FALSE /\ stopped = FALSE /\ card = FALSE
  /\ checkpoint = None /\ pc = "idle"
  /\ iteration = 0 /\ talk = Blank /\ chunks = 0 /\ todo = 0
  /\ traced = 0 /\ tried = 0 /\ resumed = 0
  /\ made = metrics /\ agentDeaths = 0

-----------------------------------------------------------------------------
(* Faulty variant, for the mutation runs only: the boundary of a call looks *)
(* at the budgets alone.                                                   *)
RefusalUnlessStopped(kind) ==
  IF overspent \/ metrics[kind] >= Limit[kind] \/ charged[kind] >= Budget[kind]
  THEN "refused" ELSE "none"

(* What the progress callback answers to a stage, and what it writes: the  *)
(* task's count goes up before the execution's limit is compared.          *)
Refusal(kind) ==
  CASE stopped   -> "interrupted"
    [] overspent -> "refused"
    [] metrics[kind] >= Limit[kind] \/ charged[kind] >= Budget[kind] -> "refused"
    [] OTHER -> "none"

(* Faulty variant, for the mutation runs only: a call is counted for its    *)
(* task and not for the execution.                                         *)
ChargeTask(kind) ==
  /\ metrics' = IF stopped \/ overspent \/ metrics[kind] >= Limit[kind]
                  THEN metrics ELSE [metrics EXCEPT ![kind] = @ + 1]
  /\ UNCHANGED charged

Charge(kind) ==
  /\ metrics' = IF stopped \/ overspent \/ metrics[kind] >= Limit[kind]
                  THEN metrics ELSE [metrics EXCEPT ![kind] = @ + 1]
  /\ charged' = IF Refusal(kind) = "none"
                  THEN [charged EXCEPT ![kind] = @ + 1] ELSE charged

(* The handler has an outcome for the task.  A failure that may be retried *)
(* is, as long as attempts are left; the run's memory is gone.             *)
Settle(outcome) ==
  /\ task' = IF outcome = "retry"
               THEN IF attempts < MaxAttempts THEN "retrying" ELSE "failed"
               ELSE outcome
  /\ pc' = "idle" /\ ForgetRun

(* Redis may not answer; nobody minds. *)
DeleteCheckpoint ==
  \/ checkpoint' = None
  \/ "save" \in AgentFaults /\ UNCHANGED checkpoint

ScopeLimit == IF Limit["tool"] < Budget["tool"] THEN Limit["tool"] ELSE Budget["tool"]

-----------------------------------------------------------------------------
(* The worker takes the job of a task that may run. *)
Take ==
  /\ pc = "idle" /\ ~stopped /\ task \in {"queued", "retrying", "running"}
  /\ IF attempts >= MaxAttempts
       THEN task' = "failed" /\ UNCHANGED <<attempts, pc>>
       ELSE task' = "running" /\ attempts' = attempts + 1 /\ pc' = "read"
  /\ UNCHANGED <<metrics, charged, overspent, stopped, checkpoint, card,
                 memory, made, agentDeaths>>

(* TaskExecutors.execute up to the agent: a boundary, and a card that is   *)
(* there already ends the task.                                            *)
Read ==
  /\ pc = "read"
  /\ \/ stopped /\ Settle("queued")
     \/ ~stopped /\ overspent /\ Settle("failed")
     \/ ~stopped /\ ~overspent /\ card /\ Settle("completed")
     \/ /\ ~stopped /\ ~overspent /\ ~card
        /\ pc' = "restore" /\ UNCHANGED <<task, memory>>
  /\ UNCHANGED <<attempts, metrics, charged, overspent, stopped, card,
                 checkpoint, made, agentDeaths>>

(* A checkpoint gives back the conversation and what was collected, unless *)
(* it was used too often: then the run starts with nothing.                *)
Restore ==
  /\ pc = "restore"
  /\ pc' = "model" /\ todo' = 0 /\ traced' = 0 /\ tried' = 0
  /\ IF checkpoint = None
       THEN /\ iteration' = 1 /\ talk' = Blank /\ chunks' = 0 /\ resumed' = 0
       ELSE IF checkpoint.resumed >= MaxResumeCount
       THEN /\ iteration' = 1 /\ talk' = Blank /\ chunks' = 0
            /\ resumed' = checkpoint.resumed
       ELSE /\ iteration' = checkpoint.iteration + 1
            /\ talk' = checkpoint.talk /\ chunks' = checkpoint.chunks
            /\ resumed' = checkpoint.resumed + 1
  /\ UNCHANGED <<row, stopped, checkpoint, made, agentDeaths>>

Last == iteration > MaxIterations

(* One attempt of invoke_with_retry.  The call is charged before it is     *)
(* made; a refusal and an interruption are exceptions that nobody retries. *)
(* The loop turns an exception into an answer without success, which the   *)
(* executor reports as a failure to retry; around the last call, made      *)
(* without tools, nothing catches it.                                      *)
CallRefused ==
  /\ pc = "model" /\ Refusal("model") # "none"
  /\ Charge("model")
  /\ IF ~Last THEN Settle("retry")
     ELSE Settle(IF stopped THEN "queued" ELSE "failed")
  /\ UNCHANGED <<attempts, overspent, stopped, card, checkpoint, made,
                 agentDeaths>>

MakeCall ==
  /\ pc = "model" /\ Refusal("model") = "none"
  /\ Charge("model")
  /\ made' = [made EXCEPT !["model"] = @ + 1]
  /\ UNCHANGED <<attempts, stopped, card, checkpoint, agentDeaths>>

CallFails ==
  /\ MakeCall
  /\ \/ /\ "retryable" \in AgentFaults /\ tried < MaxRetries
        /\ tried' = tried + 1
        /\ UNCHANGED <<task, overspent, pc, iteration, talk, chunks, todo,
                       traced, resumed>>
     \/ /\ \/ "permanent" \in AgentFaults
           \/ "retryable" \in AgentFaults /\ tried = MaxRetries
        /\ Settle("retry") /\ UNCHANGED overspent
     \/ /\ "tokens" \in AgentFaults
        /\ overspent' = TRUE
        /\ Settle(IF Last THEN "failed" ELSE "retry")

(* The model asks for tools. *)
CallForTools ==
  /\ ~Last /\ MakeCall
  /\ \E n \in 1..MaxAnswered :
       /\ todo' = n
       /\ talk' = [talk EXCEPT !.asked = @ + n]
  /\ tried' = 0 /\ pc' = "tools"
  /\ UNCHANGED <<task, overspent, iteration, chunks, traced, resumed>>

(* The model answers.  An answer without findings, an empty one and the    *)
(* forced one do not make a card; the latter and every real answer end the *)
(* life of the checkpoint.                                                 *)
CallAnswers ==
  /\ pc = "model" /\ Refusal("model") = "none"
  /\ Charge("model")
  /\ made' = [made EXCEPT !["model"] = @ + 1]
  /\ \/ /\ "empty" \in AgentFaults /\ ~Last
        /\ Settle("retry") /\ UNCHANGED checkpoint
     \/ /\ DeleteCheckpoint
        /\ IF Last \/ chunks = 0 THEN Settle("retry")
           ELSE pc' = "card" /\ UNCHANGED <<task, memory>>
  /\ UNCHANGED <<attempts, overspent, stopped, card, agentDeaths>>

(* One tool call: scope, budget and the user may refuse it, and the answer *)
(* to the model is then the refusal; it is run with a timeout, and what    *)
(* goes wrong becomes an answer, too.                                      *)
RunTool ==
  /\ pc = "tools" /\ todo > 0
  /\ traced < ScopeLimit /\ Refusal("tool") = "none"
  /\ Charge("tool")
  /\ made' = [made EXCEPT !["tool"] = @ + 1]
  /\ \E found \in IF "tool" \in AgentFaults THEN {0, 1} ELSE {1} :
       /\ talk' = [talk EXCEPT !.answered = @ + 1, !.found = @ + found]
       /\ chunks' = chunks + found
  /\ todo' = todo - 1 /\ traced' = traced + 1
  /\ UNCHANGED <<task, attempts, overspent, stopped, card, checkpoint, pc,
                 iteration, tried, resumed, agentDeaths>>

(* TaskScope.check, for a tool or a paper of another task or after too     *)
(* many calls, and the callback's budgets both refuse with an answer, for  *)
(* which a second callback is asked.                                       *)
RejectTool ==
  /\ pc = "tools" /\ todo > 0 /\ ~stopped /\ ~overspent
  /\ \/ ("tool" \in AgentFaults \/ traced >= ScopeLimit)
          /\ UNCHANGED <<metrics, charged>>
     \/ /\ traced < ScopeLimit /\ Refusal("tool") = "refused"
        /\ Charge("tool")
  /\ talk' = [talk EXCEPT !.answered = @ + 1]
  /\ todo' = todo - 1 /\ traced' = traced + 1
  /\ UNCHANGED <<task, attempts, overspent, stopped, card, checkpoint, pc,
                 iteration, chunks, tried, resumed, made, agentDeaths>>

(* Nobody in the loop catches an interruption of a tool call, nor what the *)
(* second callback raises.                                                 *)
StopAtTool ==
  /\ pc = "tools" /\ todo > 0
  /\ \/ stopped /\ Settle("queued")
     \/ ~stopped /\ overspent /\ Settle("failed")
  /\ UNCHANGED <<attempts, metrics, charged, overspent, stopped, card,
                 checkpoint, made, agentDeaths>>

(* After a round the state goes to Redis, which may not be there. *)
SaveCheckpoint ==
  /\ pc = "tools" /\ todo = 0
  /\ \/ checkpoint' = [iteration |-> iteration, talk |-> talk,
                       chunks |-> chunks, resumed |-> resumed]
     \/ "save" \in AgentFaults /\ UNCHANGED checkpoint
  /\ iteration' = iteration + 1 /\ pc' = "model"
  /\ UNCHANGED <<row, stopped, talk, chunks, todo, traced, tried, resumed,
                 made, agentDeaths>>

(* The card is committed before the task is. *)
SaveCard ==
  /\ pc = "card" /\ card' = TRUE /\ pc' = "complete"
  /\ UNCHANGED <<task, attempts, metrics, charged, overspent, stopped,
                 checkpoint, memory, made, agentDeaths>>

CompleteRead ==
  /\ pc = "complete" /\ Settle("completed")
  /\ UNCHANGED <<attempts, metrics, charged, overspent, stopped, card,
                 checkpoint, made, agentDeaths>>

Stop ==
  /\ MayStop /\ ~stopped /\ task \notin {"completed", "failed"}
  /\ stopped' = TRUE
  /\ UNCHANGED <<row, checkpoint, pc, memory, made, agentDeaths>>

(* The user stops while the call is under way; the callback notices when   *)
(* the tokens are reported, and again the loop takes it for a failure.     *)
StopDuringCall ==
  /\ MayStop /\ pc = "model" /\ Refusal("model") = "none"
  /\ Charge("model")
  /\ made' = [made EXCEPT !["model"] = @ + 1]
  /\ stopped' = TRUE
  /\ Settle(IF Last THEN "queued" ELSE "retry")
  /\ UNCHANGED <<attempts, overspent, card, checkpoint, agentDeaths>>

(* The run takes longer than execution.max_seconds: a timer ends it, or    *)
(* the callback refuses, which the loop does not catch everywhere.         *)
RunOut ==
  /\ "time" \in AgentFaults /\ pc \in {"model", "tools"}
  /\ \/ Settle("retry")
     \/ (pc = "tools" \/ Last) /\ Settle("failed")
  /\ UNCHANGED <<attempts, metrics, charged, overspent, stopped, card,
                 checkpoint, made, agentDeaths>>

(* The worker dies; the queue gives the job back to the next one.  The     *)
(* checkpoint is gone when it comes back after its time to live.           *)
AgentDies ==
  /\ agentDeaths < MaxAgentDeaths /\ pc # "idle"
  /\ agentDeaths' = agentDeaths + 1
  /\ pc' = "idle" /\ ForgetRun
  /\ checkpoint' \in {checkpoint, None}
  /\ UNCHANGED <<row, stopped, made>>

AgentStep ==
  \/ Take \/ Read \/ Restore
  \/ CallRefused \/ CallFails \/ CallForTools \/ CallAnswers
  \/ RunTool \/ RejectTool \/ StopAtTool \/ SaveCheckpoint
  \/ SaveCard \/ CompleteRead

AgentNext == AgentStep \/ StopDuringCall \/ RunOut \/ Stop \/ AgentDies

AgentSpec == AgentInit /\ [][AgentNext]_agentVars /\ WF_agentVars(AgentStep)

-----------------------------------------------------------------------------
Running == {"model", "tools", "card"}

(* Every variable has its type. *)
AgentTypeOK ==
  /\ task \in {"queued", "running", "retrying", "completed", "failed"}
  /\ attempts \in 0..MaxAttempts
  /\ metrics \in [{"model", "tool"} -> Nat] /\ charged \in [{"model", "tool"} -> Nat]
  /\ made \in [{"model", "tool"} -> Nat]
  /\ overspent \in BOOLEAN /\ stopped \in BOOLEAN /\ card \in BOOLEAN
  /\ pc \in {"idle", "read", "restore", "complete"} \union Running
  /\ checkpoint = None \/ checkpoint.iteration \in 1..MaxIterations
  /\ iteration \in 0..MaxIterations + 1
  /\ chunks \in Nat /\ todo \in 0..MaxAnswered /\ traced \in Nat
  /\ tried \in 0..MaxRetries /\ resumed \in 0..MaxResumeCount
  /\ agentDeaths \in 0..MaxAgentDeaths

(* Whatever fails, dies, is retried or goes on from a checkpoint: no model *)
(* call and no tool call is made that task and execution were not charged  *)
(* for, and so none beyond what the skill and the execution allow.         *)
CallsArePaidFor ==
  \A k \in {"model", "tool"} :
    /\ made[k] <= metrics[k] /\ metrics[k] <= Limit[k]
    /\ made[k] <= charged[k] /\ charged[k] <= Budget[k]

(* A conversation is whole whenever the model sees it, also after it came  *)
(* back from a checkpoint: every call the model asked for has its answer,  *)
(* and the findings that become the card's sources are those it was shown. *)
ConversationIsWhole ==
  /\ pc = "model" => talk.asked = talk.answered
  /\ pc \in Running => chunks = talk.found

(* Once the execution is paused or cancelled no further call begins. *)
NoCallAfterStop == [][stopped => made' = made]_agentVars

(* A run ends, whatever the model asks for. *)
RunsEnd == pc # "idle" ~> pc = "idle"

-----------------------------------------------------------------------------
(* docs/spec-v2/execution/IMPLEMENTATION_PROGRESS.md:1665, safe-boundary   *)
(* pause: where nothing goes wrong, a pause does not fail the task.        *)
PauseIsSafe ==
  [][stopped /\ task = "running" => task' \notin {"failed", "retrying"}]_agentVars
=============================================================================
