-------------------------- MODULE ResearchExecution --------------------------
(***************************************************************************)
(* One research execution from its creation to its end: the orchestrator   *)
(* (backend/app/application/research_orchestrator.py), the worker handler  *)
(* of a research task (research_task_worker.py) and the control API        *)
(* (backend/app/api/executions.py) over one row of agent_executions and    *)
(* its research_tasks.                                                     *)
(*                                                                         *)
(* API requests and workers are sessions of SQLAlchemy with                *)
(* expire_on_commit=False and autoflush=False: a session keeps the rows it *)
(* loaded until it refreshes them, and a commit writes the columns it      *)
(* changed, whatever the table holds by then.  Each read and each commit   *)
(* is a step; so is each LPUSH to the job queue.                           *)
(*                                                                         *)
(* The queue is a bag of jobs that keeps the promise of JobDelivery; what  *)
(* a task's executor does is one of a few outcomes.                        *)
(***************************************************************************)
EXTENDS Naturals, FiniteSets, TaskContracts

CONSTANTS
  Tasks,         \* the tasks of the plan
  Deps,          \* the plan's dependencies, task by task
  Confirm,       \* tasks that wait for the user's selection first
  Workers, Clients,
  None,
  MaxAttempts,   \* max_attempts of a task
  MaxRetry,      \* retries of a failed job by the queue
  Requests,      \* kinds of request the API receives after the creation
  Results,       \* what executors may return or raise
  MayDie,        \* processes that may be killed
  MayVanish,     \* whether an artifact can be gone when it is verified
  MaxRequests, MaxDeaths    \* bounds

Procs == Workers \union Clients
RequestKinds == {"cancel", "pause", "resume", "respond"}

(* TaskResult, or the exception that stands for one.  refs: the result     *)
(* names artifacts; raised: it was made from an exception.                 *)
Result == [status : {"completed", "blocked", "waiting_user", "failed"},
           refs : BOOLEAN, retryable : BOOLEAN, raised : BOOLEAN]

Completed  == [status |-> "completed", refs |-> TRUE, retryable |-> FALSE, raised |-> FALSE]
Blocked    == [status |-> "blocked", refs |-> FALSE, retryable |-> FALSE, raised |-> FALSE]
WaitUser   == [status |-> "waiting_user", refs |-> FALSE, retryable |-> FALSE, raised |-> FALSE]
(* IMPORT_FAILED after some of the papers were imported. *)
PartImport == [status |-> "failed", refs |-> TRUE, retryable |-> TRUE, raised |-> FALSE]
(* RuntimeError, a timeout, ... *)
Transient  == [status |-> "failed", refs |-> FALSE, retryable |-> TRUE, raised |-> TRUE]
(* ValueError, PermissionError (a spent budget), LookupError. *)
Permanent  == [status |-> "failed", refs |-> FALSE, retryable |-> FALSE, raised |-> TRUE]
(* TASK_RETRY_EXHAUSTED, made by the handler itself. *)
Exhausted  == [status |-> "failed", refs |-> FALSE, retryable |-> FALSE, raised |-> FALSE]

Outcomes == {Completed, Blocked, WaitUser, PartImport, Transient, Permanent}

ASSUME ConstantsAssumption ==
  /\ IsFiniteSet(Tasks) /\ Tasks # {}
  /\ Deps \in [Tasks -> SUBSET Tasks]
  /\ Confirm \subseteq Tasks
  /\ Workers \intersect Clients = {}
  /\ None \notin Procs \union Tasks
  /\ MaxAttempts \in Nat \ {0} /\ MaxRetry \in Nat
  /\ Requests \subseteq RequestKinds /\ Results \subseteq Outcomes
  /\ MayDie \subseteq Procs /\ MayVanish \in BOOLEAN
  /\ MaxRequests \in Nat /\ MaxDeaths \in Nat

Job == [task : Tasks, attempts : 0..MaxRetry]

Rows == [exec : Statuses, task : [Tasks -> Statuses], tries : [Tasks -> Nat]]

VARIABLES
  (* PostgreSQL *)
  planned,       \* the plan and its tasks are committed
  exec,          \* agent_executions.status
  task,          \* research_tasks.status
  tries,         \* research_tasks.attempt_count
  outputs,       \* tasks with output_refs
  selected,      \* tasks with selected_result_ids
  lock,          \* holder of the project's advisory lock
  (* Redis *)
  queue,         \* how many copies of each job wait, retries included
  (* processes *)
  pc, then,      \* where a process is, and where it goes after advance
  mem,           \* the rows as the session of the process sees them
  todo,          \* jobs it has yet to enqueue
  job,           \* the job a worker holds
  result,        \* what the executor returned
  request,       \* the request a client handles
  requests, deaths,
  runs           \* history: how often a task's executor was started

database == <<planned, exec, task, tries, outputs, selected>>
vars == <<database, lock, queue, pc, then, mem, todo, job, result, request,
          requests, deaths, runs>>

Table == [exec |-> exec, task |-> task, tries |-> tries]

(* A session that is closed. *)
Blank == [exec |-> "queued", task |-> [t \in Tasks |-> "pending"],
          tries |-> [t \in Tasks |-> 0]]

(* create_execution has just committed the bare row, status "queued", no   *)
(* plan; one client is about to initialize it.                             *)
Init ==
  /\ planned = FALSE
  /\ exec = "queued"
  /\ task = [t \in Tasks |-> "pending"]
  /\ tries = [t \in Tasks |-> 0]
  /\ outputs = {} /\ selected = {}
  /\ lock = None
  /\ queue = [j \in Job |-> 0]
  /\ \E creator \in Clients :
       pc = [p \in Procs |-> IF p = creator THEN "init" ELSE "idle"]
  /\ then = [p \in Procs |-> "idle"]
  /\ mem = [p \in Procs |-> Blank]
  /\ todo = [p \in Procs |-> {}]
  /\ job = [w \in Workers |-> None]
  /\ result = [w \in Workers |-> None]
  /\ request = [c \in Clients |-> "none"]
  /\ requests = 0 /\ deaths = 0
  /\ runs = [t \in Tasks |-> 0]

Goto(p, place) == pc' = [pc EXCEPT ![p] = place]

(* A transaction of p that leaves its session with the rows new: only the  *)
(* columns that differ from what p had loaded are written.                 *)
Commit(p, new) ==
  /\ exec' = IF new.exec # mem[p].exec THEN new.exec ELSE exec
  /\ task' = [t \in Tasks |-> IF new.task[t] # mem[p].task[t]
                              THEN new.task[t] ELSE task[t]]
  /\ tries' = [t \in Tasks |-> IF new.tries[t] # mem[p].tries[t]
                               THEN new.tries[t] ELSE tries[t]]
  /\ mem' = [mem EXCEPT ![p] = new]

Load(p) == mem' = [mem EXCEPT ![p] = Table]

Enqueued(j) == [queue EXCEPT ![j] = @ + 1]

(* A process leaves its handler: the session is closed. *)
Close(p, place) ==
  /\ Goto(p, place)
  /\ mem' = [mem EXCEPT ![p] = Blank]

-----------------------------------------------------------------------------
(* Both sides: advance, then dispatch of the first pending task whose      *)
(* dependencies are completed, all read from the session.                  *)

(* Mutant: a dependency that was started is taken for completed. *)
ReadyOnceStarted(rows) ==
  {t \in Tasks : /\ rows.task[t] = "pending"
                 /\ \A d \in Deps[t] : rows.task[d] # "pending"}

Ready(rows) ==
  {t \in Tasks : /\ rows.task[t] = "pending"
                 /\ \A d \in Deps[t] : rows.task[d] = "completed"}

Dispatchable(rows) ==
  IF rows.exec \in Terminal \union Halted THEN {} ELSE Ready(rows)

(* The task is queued and committed; its job is not enqueued yet. *)
Dispatch(p) ==
  /\ pc[p] = "advance"
  /\ \E t \in Dispatchable(mem[p]) :
       /\ Commit(p, [mem[p] EXCEPT !.task[t] = "queued"])
       /\ todo' = [todo EXCEPT ![p] = {t}]
  /\ Goto(p, "publish")
  /\ UNCHANGED <<planned, outputs, selected, lock, queue, then, job, result,
                 request, requests, deaths, runs>>

NothingToDispatch(p) ==
  /\ pc[p] = "advance"
  /\ Dispatchable(mem[p]) = {}
  /\ Goto(p, then[p])
  /\ UNCHANGED <<database, lock, queue, then, mem, todo, job, result, request,
                 requests, deaths, runs>>

(* enqueue_job, one LPUSH at a time. *)
Publish(p) ==
  /\ pc[p] = "publish"
  /\ \E t \in todo[p] :
       /\ queue' = Enqueued([task |-> t, attempts |-> 0])
       /\ todo' = [todo EXCEPT ![p] = @ \ {t}]
       /\ Goto(p, IF todo[p] = {t} THEN then[p] ELSE "publish")
  /\ UNCHANGED <<database, lock, then, mem, job, result, request, requests,
                 deaths, runs>>

(* resume and respond, and recover_tasks at a worker's start: every task   *)
(* in flight is enqueued (again).                                          *)
Republish(p) ==
  /\ pc[p] = "republish"
  /\ LET inFlight == {t \in Tasks : mem[p].task[t] \in
                                      {"queued", "running", "retrying"}} IN
       /\ todo' = [todo EXCEPT ![p] = inFlight]
       /\ Goto(p, IF inFlight = {} THEN "done" ELSE "publish")
  /\ then' = [then EXCEPT ![p] = "done"]
  /\ UNCHANGED <<database, lock, queue, mem, job, result, request, requests,
                 deaths, runs>>

Done(p) ==
  /\ pc[p] = "done"
  /\ Close(p, "idle")
  /\ then' = [then EXCEPT ![p] = "idle"]
  /\ request' = IF p \in Clients THEN [request EXCEPT ![p] = "none"] ELSE request
  /\ UNCHANGED <<database, lock, queue, todo, job, result, requests, deaths, runs>>

-----------------------------------------------------------------------------
(* The API. *)

(* initialize: the plan is built and committed with its tasks; hard        *)
(* dependencies that are missing block the execution.  A second session    *)
(* that does the same inserts the same task ids and fails.                 *)
Initialize(c) ==
  /\ pc[c] = "init"
  /\ IF planned
     THEN /\ Close(c, "idle")
          /\ then' = [then EXCEPT ![c] = "idle"]
          /\ request' = [request EXCEPT ![c] = "none"]
          /\ UNCHANGED <<planned, exec, task, tries>>
     ELSE /\ planned' = TRUE
          /\ \E missing \in BOOLEAN :
               Commit(c, IF missing THEN [mem[c] EXCEPT !.exec = "blocked"]
                                    ELSE mem[c])
          /\ then' = [then EXCEPT ![c] = IF request[c] = "none" THEN "done"
                                                                ELSE "control"]
          /\ Goto(c, "advance")
          /\ UNCHANGED request
  /\ UNCHANGED <<outputs, selected, lock, queue, todo, job, result, requests,
                 deaths, runs>>

(* A request arrives and the execution and its tasks are loaded.  An       *)
(* execution without a plan is initialized first.                          *)
Receive(c) ==
  /\ pc[c] = "idle"
  /\ requests < MaxRequests
  /\ requests' = requests + 1
  /\ \E kind \in Requests : request' = [request EXCEPT ![c] = kind]
  /\ Load(c)
  /\ Goto(c, IF planned THEN "control" ELSE "init")
  /\ UNCHANGED <<database, lock, queue, then, todo, job, result, deaths, runs>>

(* Mutants: tasks and execution are cancelled whatever their status; only  *)
(* the execution is cancelled.                                             *)
CancelledAgain(rows) ==
  [rows EXCEPT !.exec = "cancelled", !.task = [t \in Tasks |-> "cancelled"]]

CancelledAlone(rows) ==
  [rows EXCEPT !.exec = IF @ \in Terminal THEN @ ELSE "cancelled"]

(* What a request makes of the rows, from what the session loaded. *)
Cancelled(rows) ==
  [rows EXCEPT !.exec = IF @ \in Terminal THEN @ ELSE "cancelled",
               !.task = [t \in Tasks |-> IF @[t] \in Terminal
                                         THEN @[t] ELSE "cancelled"]]

Requeued(rows) ==
  [rows EXCEPT !.exec = "queued",
               !.task = [t \in Tasks |-> IF @[t] = "blocked"
                                         THEN "queued" ELSE @[t]]]

Settle(c, next) ==
  /\ Goto(c, "advance")
  /\ then' = [then EXCEPT ![c] = next]
  /\ UNCHANGED <<planned, outputs, lock, queue, todo, job, result, request,
                 requests, deaths, runs>>

Cancel(c) ==
  /\ pc[c] = "control" /\ request[c] = "cancel"
  /\ Commit(c, Cancelled(mem[c]))
  /\ Settle(c, "done")
  /\ UNCHANGED selected

CanPause(rows) ==
  /\ rows.exec \notin Terminal
  /\ MayMove(ExecutionTransitions, rows.exec, "paused")

Pause(c) ==
  /\ pc[c] = "control" /\ request[c] = "pause"
  /\ CanPause(mem[c])
  /\ Commit(c, [mem[c] EXCEPT !.exec = "paused"])
  /\ Settle(c, "done")
  /\ UNCHANGED selected

CanResume(rows) == rows.exec \in {"paused", "blocked"}

(* resume, and approve of an execution that waits for nobody. *)
Resume(c) ==
  /\ pc[c] = "control" /\ request[c] = "resume"
  /\ CanResume(mem[c])
  /\ Commit(c, Requeued(mem[c]))
  /\ Settle(c, "republish")
  /\ UNCHANGED selected

(* Mutant: any task is taken for the waiting one. *)
WaitingAny(rows) == Tasks

Waiting(rows) == {t \in Tasks : rows.task[t] = "waiting_user"}

(* respond with a valid selection. *)
Respond(c) ==
  /\ pc[c] = "control" /\ request[c] = "respond"
  /\ mem[c].exec = "waiting_user"
  /\ \E t \in Waiting(mem[c]) :
       /\ Commit(c, [Requeued(mem[c]) EXCEPT !.task[t] = "queued"])
       /\ selected' = selected \union {t}
  /\ Settle(c, "republish")

(* 409 or 422: the state does not allow the request, the hard dependencies *)
(* of a blocked goal are still missing, or the selection is not valid.     *)
Reject(c) ==
  /\ pc[c] = "control"
  /\ CASE request[c] = "pause"   -> ~CanPause(mem[c])
       [] request[c] = "resume"  -> ~CanResume(mem[c]) \/ mem[c].exec = "blocked"
       [] request[c] = "respond" -> TRUE
       [] OTHER                  -> FALSE
  /\ Close(c, "idle")
  /\ then' = [then EXCEPT ![c] = "idle"]
  /\ request' = [request EXCEPT ![c] = "none"]
  /\ UNCHANGED <<database, lock, queue, todo, job, result, requests, deaths, runs>>

-----------------------------------------------------------------------------
(* The worker: run_task and _execute. *)

Task(w) == job[w].task

TakeJob(w) ==
  /\ pc[w] = "idle"
  /\ \E j \in Job :
       /\ queue[j] > 0
       /\ queue' = [queue EXCEPT ![j] = @ - 1]
       /\ job' = [job EXCEPT ![w] = j]
  /\ Goto(w, "lock")
  /\ UNCHANGED <<database, lock, then, mem, todo, result, request, requests,
                 deaths, runs>>

(* pg_advisory_lock, then the rows are read. *)
LockProject(w) ==
  /\ pc[w] = "lock"
  /\ lock = None
  /\ lock' = w
  /\ Load(w)
  /\ Goto(w, "loaded")
  /\ UNCHANGED <<database, queue, then, todo, job, result, request, requests,
                 deaths, runs>>

(* The handler returns, and the job is acknowledged ... *)
Return(w) ==
  /\ lock' = None
  /\ job' = [job EXCEPT ![w] = None]
  /\ result' = [result EXCEPT ![w] = None]
  /\ then' = [then EXCEPT ![w] = "idle"]
  /\ Close(w, "idle")
  /\ UNCHANGED queue

(* ... or raises: what it had not committed is lost, and the job is        *)
(* retried or dead-lettered.                                               *)
Raise(w) ==
  /\ lock' = None
  /\ queue' = IF job[w].attempts < MaxRetry
              THEN Enqueued([job[w] EXCEPT !.attempts = @ + 1]) ELSE queue
  /\ job' = [job EXCEPT ![w] = None]
  /\ result' = [result EXCEPT ![w] = None]
  /\ then' = [then EXCEPT ![w] = "idle"]
  /\ Close(w, "idle")

(* The early returns of _execute, in their order. *)
Unfinished(rows, t) ==
  /\ rows.exec \notin Terminal \union Halted
  /\ rows.task[t] \notin Terminal \union {"pending", "waiting_user", "blocked"}
  /\ \A d \in Deps[t] : rows.task[d] = "completed"

Skip(w) ==
  /\ pc[w] = "loaded"
  /\ ~Unfinished(mem[w], Task(w))
  /\ mem[w].exec \in Terminal \union Halted \/ mem[w].task[Task(w)] # "completed"
  /\ Return(w)
  /\ UNCHANGED <<database, todo, request, requests, deaths, runs>>

(* A completed task whose successors may not have been dispatched. *)
RecoverGap(w) ==
  /\ pc[w] = "loaded"
  /\ mem[w].exec \notin Terminal \union Halted
  /\ mem[w].task[Task(w)] = "completed"
  /\ Goto(w, "advance")
  /\ then' = [then EXCEPT ![w] = "finish"]
  /\ UNCHANGED <<database, lock, queue, mem, todo, job, result, request,
                 requests, deaths, runs>>

GiveUp(w) ==
  /\ pc[w] = "loaded"
  /\ Unfinished(mem[w], Task(w))
  /\ mem[w].tries[Task(w)] >= MaxAttempts
  /\ result' = [result EXCEPT ![w] = Exhausted]
  /\ Goto(w, "complete")
  /\ UNCHANGED <<database, lock, queue, then, mem, todo, job, request, requests,
                 deaths, runs>>

(* Execution and task become running and the attempt is counted, in one    *)
(* commit; then the executor starts.                                       *)
Begin(w) ==
  /\ pc[w] = "loaded"
  /\ Unfinished(mem[w], Task(w))
  /\ mem[w].tries[Task(w)] < MaxAttempts
  /\ Commit(w, [mem[w] EXCEPT !.exec = "running", !.task[Task(w)] = "running",
                              !.tries[Task(w)] = @ + 1])
  /\ runs' = [runs EXCEPT ![Task(w)] = @ + 1]
  /\ Goto(w, "run")
  /\ UNCHANGED <<planned, outputs, selected, lock, queue, then, todo, job,
                 result, request, requests, deaths>>

(* progress: the execution is refreshed, and a pause or a cancellation     *)
(* interrupts the executor.  execute always calls it before any work.      *)
Checkpoint(w) ==
  /\ pc[w] = "run"
  /\ mem' = [mem EXCEPT ![w].exec = exec]
  /\ Goto(w, IF exec \in {"cancelled", "paused"} THEN "interrupt" ELSE "work")
  /\ UNCHANGED <<database, lock, queue, then, todo, job, result, request,
                 requests, deaths, runs>>

(* The executor goes on to another checkpoint ... *)
Work(w) ==
  /\ pc[w] = "work"
  /\ exec \in {"cancelled", "paused"}
  /\ Goto(w, "run")
  /\ UNCHANGED <<database, lock, queue, then, mem, todo, job, result, request,
                 requests, deaths, runs>>

(* ... or ends.  A task that needs a selection waits until it has one.     *)
Execute(w) ==
  /\ pc[w] = "work"
  /\ \E r \in Results :
       /\ r = WaitUser => Task(w) \in Confirm \ selected
       /\ r \in {Completed, Blocked, PartImport} => Task(w) \notin Confirm \ selected
       /\ result' = [result EXCEPT ![w] = r]
  /\ Goto(w, "complete")
  /\ UNCHANGED <<database, lock, queue, then, mem, todo, job, request, requests,
                 deaths, runs>>

(* The worker's event loop is cancelled while the executor runs. *)
ShutDown(w) ==
  /\ pc[w] \in {"run", "work"}
  /\ w \in MayDie /\ deaths < MaxDeaths
  /\ deaths' = deaths + 1
  /\ Goto(w, "interrupt")
  /\ then' = [then EXCEPT ![w] = "down"]
  /\ UNCHANGED <<database, lock, queue, mem, todo, job, result, request,
                 requests, runs>>

(* TaskInterrupted or CancelledError: both rows are refreshed, then the    *)
(* task is put back.                                                       *)
ReadInterrupted(w) ==
  /\ pc[w] = "interrupt"
  /\ Load(w)
  /\ Goto(w, "interrupted")
  /\ UNCHANGED <<database, lock, queue, then, todo, job, result, request,
                 requests, deaths, runs>>

(* Mutant: an interrupted attempt is not counted. *)
PutBackUncounted(rows, t) ==
  IF rows.task[t] = "running"
  THEN [rows EXCEPT !.task[t] = "queued", !.tries[t] = @ - 1] ELSE rows

PutBack(rows, t) ==
  IF rows.exec = "cancelled" /\ rows.task[t] \notin Terminal
  THEN [rows EXCEPT !.task[t] = "cancelled"]
  ELSE IF rows.task[t] = "running" THEN [rows EXCEPT !.task[t] = "queued"]
  ELSE rows

Interrupt(w) ==
  /\ pc[w] = "interrupted"
  /\ Commit(w, PutBack(mem[w], Task(w)))
  /\ Goto(w, IF then[w] = "down" THEN "stopping" ELSE "finish")
  /\ UNCHANGED <<planned, outputs, selected, lock, queue, then, todo, job,
                 result, request, requests, deaths, runs>>

(* After a CancelledError the process ends with the job unacknowledged. *)
Stopped(w) ==
  /\ pc[w] = "stopping"
  /\ lock' = None
  /\ then' = [then EXCEPT ![w] = "idle"]
  /\ Close(w, "down")
  /\ UNCHANGED <<database, queue, todo, job, result, request, requests, deaths,
                 runs>>

-----------------------------------------------------------------------------
(* complete: refresh, verify, apply, decide, commit. *)

(* The execution and the task are refreshed.  The other tasks are what the *)
(* session loaded at the start, unless an exception rolled it back.        *)
ReadCompletion(w) ==
  /\ pc[w] = "complete"
  /\ mem' = [mem EXCEPT ![w] =
       IF result[w].raised THEN Table
       ELSE [@ EXCEPT !.exec = exec, !.task[Task(w)] = task[Task(w)],
                      !.tries[Task(w)] = tries[Task(w)]]]
  /\ Goto(w, "completing")
  /\ UNCHANGED <<database, lock, queue, then, todo, job, result, request,
                 requests, deaths, runs>>

(* A task that is already terminal: only advance. *)
AlreadyTerminal(w) ==
  /\ pc[w] = "completing"
  /\ mem[w].task[Task(w)] \in Terminal
  /\ Goto(w, "advance")
  /\ then' = [then EXCEPT ![w] = "finish"]
  /\ UNCHANGED <<database, lock, queue, mem, todo, job, result, request,
                 requests, deaths, runs>>

CancelledMeanwhile(w) ==
  /\ pc[w] = "completing"
  /\ mem[w].task[Task(w)] \notin Terminal
  /\ mem[w].exec = "cancelled"
  /\ Commit(w, [mem[w] EXCEPT !.task[Task(w)] = "cancelled"])
  /\ Goto(w, "finish")
  /\ UNCHANGED <<planned, outputs, selected, lock, queue, then, todo, job,
                 result, request, requests, deaths, runs>>

Completing(w) ==
  /\ pc[w] = "completing"
  /\ mem[w].task[Task(w)] \notin Terminal
  /\ mem[w].exec # "cancelled"

(* OUTPUT_ARTIFACT_NOT_FOUND.  A failure made by the handler names the    *)
(* task's earlier artifacts again.                                         *)
NamesArtifacts(w) ==
  result[w].refs \/ (result[w].status = "failed" /\ Task(w) \in outputs)

VerifyFails(w) ==
  /\ Completing(w)
  /\ MayVanish /\ NamesArtifacts(w)
  /\ Raise(w)
  /\ UNCHANGED <<database, todo, request, requests, deaths, runs>>

(* apply *)
Target(w) ==
  IF result[w].retryable /\ mem[w].tries[Task(w)] < MaxAttempts
  THEN "retrying" ELSE result[w].status

Applied(w) == [mem[w].task EXCEPT ![Task(w)] = Target(w)]

OutputsAfter(w) == IF result[w].refs THEN outputs \union {Task(w)} ELSE outputs

Goal(w) == Decide(Applied(w), OutputsAfter(w))

LegalCompletion(w) ==
  /\ MayMove(TaskTransitions, mem[w].task[Task(w)], Target(w))
  /\ mem[w].exec = "paused" \/ MayMove(ExecutionTransitions, mem[w].exec, Goal(w))

Complete(w) ==
  /\ Completing(w)
  /\ LegalCompletion(w)
  /\ Commit(w, [mem[w] EXCEPT !.task = Applied(w),
                              !.exec = IF @ = "paused" THEN @ ELSE Goal(w)])
  /\ outputs' = OutputsAfter(w)
  /\ Goto(w, "advance")
  /\ then' = [then EXCEPT ![w] = "finish"]
  /\ UNCHANGED <<planned, selected, lock, queue, todo, job, result, request,
                 requests, deaths, runs>>

(* ILLEGAL_STATE_TRANSITION: nothing is committed and the job is retried. *)
IllegalCompletion(w) ==
  /\ Completing(w)
  /\ ~LegalCompletion(w)
  /\ Raise(w)
  /\ UNCHANGED <<database, todo, request, requests, deaths, runs>>

(* Mutant: a task to be retried is acknowledged. *)
FinishQuietly(w) ==
  /\ pc[w] = "finish"
  /\ Return(w)
  /\ UNCHANGED <<database, todo, request, requests, deaths, runs>>

(* run_task raises when the task is to be retried. *)
Finish(w) ==
  /\ pc[w] = "finish"
  /\ IF mem[w].task[Task(w)] = "retrying" THEN Raise(w) ELSE Return(w)
  /\ UNCHANGED <<database, todo, request, requests, deaths, runs>>

-----------------------------------------------------------------------------
(* A process is killed: PostgreSQL rolls back and frees the lock, the job  *)
(* stays in the processing list.                                           *)
Die(p) ==
  /\ p \in MayDie
  /\ pc[p] \notin {"idle", "down"}
  /\ deaths < MaxDeaths
  /\ deaths' = deaths + 1
  /\ Close(p, IF p \in Workers THEN "down" ELSE "idle")
  /\ then' = [then EXCEPT ![p] = "idle"]
  /\ todo' = [todo EXCEPT ![p] = {}]
  /\ lock' = IF lock = p THEN None ELSE lock
  /\ result' = IF p \in Workers THEN [result EXCEPT ![p] = None] ELSE result
  /\ request' = IF p \in Clients THEN [request EXCEPT ![p] = "none"] ELSE request
  /\ UNCHANGED <<database, queue, job, requests, runs>>

(* A worker starts: recover_processing_jobs gives its job back, then       *)
(* recover_tasks loads an execution that is in flight, without the         *)
(* advisory lock, advances it and enqueues its tasks in flight.            *)
Restart(w) ==
  /\ pc[w] = "down"
  /\ queue' = IF job[w] = None THEN queue ELSE Enqueued(job[w])
  /\ job' = [job EXCEPT ![w] = None]
  /\ IF planned /\ exec \in {"queued", "running", "retrying"}
     THEN /\ Load(w)
          /\ Goto(w, "advance")
          /\ then' = [then EXCEPT ![w] = "republish"]
     ELSE Goto(w, "idle") /\ UNCHANGED <<mem, then>>
  /\ UNCHANGED <<database, lock, todo, result, request, requests, deaths, runs>>

-----------------------------------------------------------------------------
SessionStep(p) ==
  \/ Dispatch(p) \/ NothingToDispatch(p)
  \/ Publish(p) \/ Republish(p) \/ Done(p)

ClientStep(c) ==
  \/ Initialize(c) \/ Cancel(c) \/ Pause(c) \/ Resume(c) \/ Respond(c)
  \/ Reject(c)

WorkerStep(w) ==
  \/ TakeJob(w) \/ LockProject(w)
  \/ Skip(w) \/ RecoverGap(w) \/ GiveUp(w) \/ Begin(w)
  \/ Checkpoint(w) \/ Work(w) \/ Execute(w)
  \/ ReadInterrupted(w) \/ Interrupt(w) \/ Stopped(w)
  \/ ReadCompletion(w) \/ AlreadyTerminal(w) \/ CancelledMeanwhile(w)
  \/ VerifyFails(w) \/ Complete(w) \/ IllegalCompletion(w) \/ Finish(w)
  \/ Restart(w)

Next ==
  \/ \E p \in Procs : SessionStep(p) \/ Die(p)
  \/ \E c \in Clients : ClientStep(c) \/ Receive(c)
  \/ \E w \in Workers : WorkerStep(w) \/ ShutDown(w)

Spec == Init /\ [][Next]_vars

(* Workers and requests that were received go on, and a dead worker is     *)
(* restarted.  Whether requests arrive and processes die is left open.     *)
Fairness ==
  /\ \A w \in Workers : WF_vars(WorkerStep(w) \/ SessionStep(w))
  /\ \A c \in Clients : WF_vars(ClientStep(c) \/ SessionStep(c))

FairSpec == Spec /\ Fairness

-----------------------------------------------------------------------------
(* Properties. *)

Places == {"idle", "init", "control", "advance", "publish", "republish", "done",
           "lock", "loaded", "run", "work", "interrupt", "interrupted",
           "stopping", "complete", "completing", "finish", "down"}

TypeOK ==
  /\ planned \in BOOLEAN
  /\ exec \in Statuses /\ task \in [Tasks -> Statuses] /\ tries \in [Tasks -> Nat]
  /\ outputs \subseteq Tasks /\ selected \subseteq Confirm
  /\ lock \in Workers \union {None}
  /\ queue \in [Job -> Nat]
  /\ pc \in [Procs -> Places]
  /\ then \in [Procs -> {"idle", "control", "republish", "done", "finish", "down"}]
  /\ mem \in [Procs -> Rows]
  /\ todo \in [Procs -> SUBSET Tasks]
  /\ job \in [Workers -> Job \union {None}]
  /\ result \in [Workers -> Result \union {None}]
  /\ request \in [Clients -> RequestKinds \union {"none"}]
  /\ requests \in 0..MaxRequests /\ deaths \in 0..MaxDeaths
  /\ runs \in [Tasks -> Nat]

(* A task leaves "pending", other than by cancellation, only when every    *)
(* task it depends on has produced its artifacts: no executor ever misses  *)
(* an input, whatever the interleaving of API requests, duplicated jobs    *)
(* and deaths, and no later write takes the artifacts away again.          *)
DependenciesProduced ==
  \A t \in Tasks : task[t] \notin {"pending", "cancelled"} => Deps[t] \subseteq outputs

(* The budget of attempts is a budget of executor starts: duplicated jobs, *)
(* crashes, pauses and queue retries together never start an executor for  *)
(* the (MaxAttempts + 1)th time.                                           *)
RunsBounded == \A t \in Tasks : runs[t] <= MaxAttempts

(* The stored statuses move along the maps of task_contracts.py only; in   *)
(* particular a terminal status is final.                                  *)
LegalMoves ==
  [][/\ MayMove(ExecutionTransitions, exec, exec')
     /\ \A t \in Tasks : MayMove(TaskTransitions, task[t], task'[t])]_vars

(* No executor starts for an execution that is paused, waiting, blocked or *)
(* over, nor for a task that is over.                                      *)
NoStartAfterStop ==
  [][\A t \in Tasks : runs'[t] # runs[t] =>
        /\ exec \notin Terminal \union Halted
        /\ task[t] \notin Terminal]_vars

(* The status of an execution that has stopped is the one its tasks call   *)
(* for, and a cancelled execution leaves no task open.                     *)
ExecutionMatchesTasks ==
  /\ exec \in {"completed", "partial", "failed", "waiting_user"}
       => exec = Decide(task, outputs)
  /\ exec = "cancelled" => \A t \in Tasks : task[t] \in Terminal

(* An execution that was planned comes to rest: it ends, or it waits for   *)
(* the user, or it is one whose re-queued task has no attempt left.        *)
Spent == /\ exec \in {"queued", "retrying"}
         /\ \E t \in Tasks : task[t] \notin Terminal /\ tries[t] >= MaxAttempts

ExecutionSettles == planned ~> exec \in Terminal \union Halted \/ Spent

(* research_orchestrator.py, line 166: "API cancellation wins over late    *)
(* output".                                                                *)
CancellationWins == [][exec = "cancelled" => exec' = "cancelled"]_vars

(* docs/API.md, line 291, and the "pause" scenario of                      *)
(* test_research_orchestrator.py: resume makes the execution go on, so it  *)
(* does not stay queued.                                                   *)
ResumeGoesOn ==
  \A c \in Clients : (request[c] = "resume" /\ exec = "queued") ~> exec # "queued"

(* docs/API.md, line 293: respond submits the selection of papers and      *)
(* makes the same execution go on.                                         *)
RespondGoesOn ==
  \A c \in Clients : (request[c] = "respond" /\ exec = "queued") ~> exec # "queued"
=============================================================================
