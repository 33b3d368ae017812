---------------------------- MODULE TaskContracts ---------------------------
(***************************************************************************)
(* The life cycle shared by research tasks and executions                  *)
(* (backend/app/research/task_contracts.py) and the decision that derives  *)
(* the status of an execution from its tasks (CompletionEvaluator.decide). *)
(***************************************************************************)

Statuses == {"pending", "queued", "running", "waiting_user", "retrying",
             "completed", "partial", "blocked", "failed", "cancelled",
             "paused"}

Terminal == {"completed", "partial", "failed", "cancelled"}

(* Statuses in which the worker and the dispatcher leave an execution      *)
(* alone, besides the terminal ones.                                       *)
Halted == {"paused", "waiting_user", "blocked"}

(* TASK_TRANSITIONS *)
TaskTransitions == [s \in Statuses |->
  CASE s = "pending"      -> {"queued", "blocked", "cancelled", "completed"}
    [] s = "queued"       -> {"running", "paused", "cancelled", "blocked", "failed"}
    [] s = "running"      -> {"queued", "completed", "partial", "blocked",
                              "waiting_user", "retrying", "failed", "cancelled",
                              "paused"}
    [] s = "retrying"     -> {"queued", "running", "failed", "partial",
                              "cancelled", "paused"}
    [] s = "waiting_user" -> {"queued", "cancelled"}
    [] s = "blocked"      -> {"queued", "cancelled"}
    [] s = "paused"       -> {"queued", "cancelled"}
    [] OTHER              -> {}]

(* Faulty variant, for the mutation runs only: nothing running is retried. *)
TransitionsWithoutRetry ==
  [TaskTransitions EXCEPT !["pending"] = {"queued", "blocked", "cancelled"},
                          !["running"] = @ \ {"retrying"}]

(* EXECUTION_TRANSITIONS *)
ExecutionTransitions ==
  [TaskTransitions EXCEPT !["pending"] = {"queued", "blocked", "cancelled"}]

(* transition and transition_execution: staying put is a no-op, any move   *)
(* outside the map raises ValueError.                                      *)
MayMove(transitions, from, to) == to = from \/ to \in transitions[from]

(* decide: tasks maps each task to its status, outputs is the set of tasks *)
(* that have output_refs.  The first condition that holds decides.         *)
Decide(tasks, outputs) ==
  LET statuses == {tasks[t] : t \in DOMAIN tasks}
      some(those) == statuses \intersect those # {}
  IN  IF statuses \subseteq {"completed"} THEN "completed"
      ELSE IF some({"waiting_user"}) THEN "waiting_user"
      ELSE IF some({"blocked"}) THEN "blocked"
      ELSE IF some({"failed", "partial"})
           THEN (IF outputs # {} THEN "partial" ELSE "failed")
      ELSE IF some({"cancelled"}) THEN "cancelled"
      ELSE IF some({"retrying"}) THEN "retrying"
      ELSE "running"
=============================================================================
