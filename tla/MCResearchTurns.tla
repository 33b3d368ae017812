-------------------------- MODULE MCResearchTurns --------------------------
(***************************************************************************)
(* ResearchExecution with a memory of whether transactions have overlapped *)
(* so far.  Sessions decide on the rows they read, so what the rows of an  *)
(* execution promise each other holds as long as requests and the worker   *)
(* take turns; the rest holds whatever they do.  And of whether anybody    *)
(* has paused, resumed or cancelled, an output has gone before it was      *)
(* verified or the API has died in a request: until then an execution      *)
(* settles.                                                                *)
(***************************************************************************)
EXTENDS MCResearchExecution

VARIABLES overlapped, controlled

TurnsInit == Init /\ overlapped = FALSE /\ controlled = FALSE

TurnsNext ==
  /\ Next
  /\ overlapped' = (overlapped \/ ~NoOverlap')
  /\ controlled' = \/ controlled
                   \/ \E c \in Clients : request'[c] \in {"pause", "resume", "cancel"}
                   \/ \E w \in Workers : VerifyFails(w)
                   \/ deaths' > deaths /\ \A w \in Workers : pc'[w] = pc[w]

TurnsSpec ==
  /\ TurnsInit /\ [][TurnsNext]_<<vars, overlapped, controlled>>
  /\ Fairness

(* The status of an execution that has stopped is the one its tasks call   *)
(* for, and a cancelled execution leaves no task open: as long as requests *)
(* and worker take turns.                                                  *)
MatchesInTurns == overlapped \/ ExecutionMatchesTasks

(* The stored statuses move along the maps of task_contracts.py only; in   *)
(* particular a terminal status is final: as long as they take turns.      *)
LegalMovesInTurns ==
  [][\/ overlapped'
     \/ /\ MayMove(ExecutionTransitions, exec, exec')
        /\ \A t \in Tasks : MayMove(TaskTransitions, task[t], task'[t])]_vars

(* What an executor returned can be recorded: the moves it calls for, of   *)
(* its task and of the execution, are in the maps, whatever overlaps and   *)
(* dies, as long as nobody paused, resumed or cancelled and one client     *)
(* answers.  Otherwise the completion is rolled back and the work is       *)
(* repeated until its job is dead-lettered.  It says nothing of the        *)
(* failure that the handler makes of a spent task.                         *)
CompletionsAreLegal ==
  \/ controlled
  \/ \A w \in Workers :
       Completing(w) /\ result[w] # Exhausted => LegalCompletion(w)

(* Whatever the worker dies of and whatever the tasks come to, an          *)
(* execution that has a plan ends, waits for the user or spends its        *)
(* attempts, unless it was paused, resumed or cancelled or an output went. *)
SettlesUnlessControlled ==
  planned ~> exec \in Terminal \union Halted \/ Spent \/ controlled
=============================================================================
