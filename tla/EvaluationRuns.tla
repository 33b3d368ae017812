--------------------------- MODULE EvaluationRuns ---------------------------
(***************************************************************************)
(* The evaluation runs of the administrators: start_evaluation of          *)
(* backend/app/api/admin.py and handle_admin_evaluation of                 *)
(* backend/app/worker.py, over the rows of evaluation_runs.                *)
(*                                                                         *)
(* A session reads a row and commits its change later; an UPDATE overwrites*)
(* what others committed in between.  The job of a run waits in the queue  *)
(* (JobQueue; its order does not matter here) or is in the worker's hand,  *)
(* and is given back with its old attempt count when the worker restarts.  *)
(***************************************************************************)
EXTENDS Naturals, FiniteSets

CONSTANTS
  Admins,        \* requests in progress at the same time
  Runs,          \* bound: the rows there can be
  Kinds,         \* evaluation types
  MaxAttempts,   \* MAX_RETRY_ATTEMPTS of the job queue
  EvalFaults,    \* "enqueue" raises, "reply" of an enqueue is lost, "perform"
  MaxEvalDeaths  \* bound: deaths of the worker

(* What the constants have to satisfy; EvalInit needs a run and a kind for *)
(* requests and a hand that are idle.                                      *)
EvaluationAssumption ==
  /\ EvalFaults \subseteq {"enqueue", "reply", "perform"}
  /\ MaxAttempts \in Nat /\ MaxEvalDeaths \in Nat
  /\ Runs # {} /\ Kinds # {}

Active == {"queued", "running", "retrying"}
Over   == {"completed", "failed", "cancelled"}

(* EVALUATION_STATUS_TRANSITIONS; a status may also stay what it is. *)
Transitions ==
  [queued    |-> {"running", "failed", "cancelled"},
   running   |-> {"running", "retrying", "completed", "failed", "cancelled"},
   retrying  |-> {"running", "failed", "cancelled"},
   completed |-> {}, failed |-> {}, cancelled |-> {}]

MayBecome(from, to) == to = from \/ to \in Transitions[from]

Job  == [run : Runs, attempts : 0..MaxAttempts]
Hand == [pc : {"idle", "load", "start", "perform", "finish", "complete",
               "error", "fault", "ack", "nack"},
         job : Job, target : {"failed", "retrying"}]
Request == [pc : {"idle", "insert", "enqueue", "refresh", "giveUp"},
            run : Runs, kind : Kinds]

VARIABLES
  status,  \* of each row; "none" when there is no row
  kind,    \* its evaluation_type
  reports, \* history: how often the report of a run was produced
  waiting, \* jobs in the waiting list or the retry set
  hand,    \* what the worker does
  request, \* where each request is
  deaths

rows     == <<status, kind>>
evalVars == <<status, kind, reports, waiting, hand, request, deaths>>

EvalInit ==
  /\ status = [r \in Runs |-> "none"]
  /\ kind \in [Runs -> {CHOOSE k \in Kinds : TRUE}]
  /\ reports = [r \in Runs |-> 0]
  /\ waiting = {}
  /\ hand = [pc |-> "idle", target |-> "failed",
             job |-> [run |-> CHOOSE r \in Runs : TRUE, attempts |-> 0]]
  /\ request = [a \in Admins |-> [pc |-> "idle", run |-> CHOOSE r \in Runs : TRUE,
                                  kind |-> CHOOSE k \in Kinds : TRUE]]
  /\ deaths = 0

ActiveRuns(k) == {r \in Runs : status[r] \in Active /\ kind[r] = k}

(* uq_evaluation_runs_active_type: at most one active row of a type. *)
UniqueIndex(r, k) == ActiveRuns(k) \subseteq {r}

-----------------------------------------------------------------------------
(* start_evaluation *)

At(a, place)       == request[a].pc = place
Continue(a, place) == request' = [request EXCEPT ![a].pc = place]

(* 409 when an active run was found; otherwise the row is prepared. *)
Ask(a) ==
  /\ At(a, "idle")
  /\ \E r \in Runs, k \in Kinds :
       /\ status[r] = "none"
       /\ \A b \in Admins \ {a} : ~(At(b, "insert") /\ request[b].run = r)
       /\ ActiveRuns(k) = {}
       /\ request' = [request EXCEPT ![a] = [pc |-> "insert", run |-> r,
                                             kind |-> k]]
  /\ UNCHANGED <<rows, reports, waiting, hand, deaths>>

(* Faulty variant: no unique index. *)
InsertUnguarded(a) ==
  LET r == request[a].run IN
  /\ At(a, "insert")
  /\ Continue(a, "enqueue")
  /\ status' = [status EXCEPT ![r] = "queued"]
  /\ kind' = [kind EXCEPT ![r] = request[a].kind]
  /\ UNCHANGED <<reports, waiting, hand, deaths>>

(* The commit of the row; an IntegrityError answers 409 as well. *)
Insert(a) ==
  LET r == request[a].run IN
  /\ At(a, "insert")
  /\ IF UniqueIndex(r, request[a].kind)
     THEN /\ Continue(a, "enqueue")
          /\ status' = [status EXCEPT ![r] = "queued"]
          /\ kind' = [kind EXCEPT ![r] = request[a].kind]
     ELSE Continue(a, "idle") /\ UNCHANGED rows
  /\ UNCHANGED <<reports, waiting, hand, deaths>>

NewJob(r) == [run |-> r, attempts |-> 0]

Enqueue(a) ==
  /\ At(a, "enqueue")
  /\ \/ Continue(a, "idle") /\ waiting' = waiting \union {NewJob(request[a].run)}
     \/ "enqueue" \in EvalFaults /\ Continue(a, "refresh") /\ UNCHANGED waiting
     \/ /\ "reply" \in EvalFaults
        /\ Continue(a, "refresh")
        /\ waiting' = waiting \union {NewJob(request[a].run)}
  /\ UNCHANGED <<rows, reports, hand, deaths>>

(* db.refresh after a failed enqueue; the transition raises when the worker*)
(* has completed the run by then.                                          *)
Refresh(a) ==
  /\ At(a, "refresh")
  /\ Continue(a, IF MayBecome(status[request[a].run], "failed") THEN "giveUp"
                 ELSE "idle")
  /\ UNCHANGED <<rows, reports, waiting, hand, deaths>>

GiveUp(a) ==
  /\ At(a, "giveUp")
  /\ status' = [status EXCEPT ![request[a].run] = "failed"]
  /\ Continue(a, "idle")
  /\ UNCHANGED <<kind, reports, waiting, hand, deaths>>

-----------------------------------------------------------------------------
(* handle_admin_evaluation *)

Working(place) == hand.pc = place
Go(place)      == hand' = [hand EXCEPT !.pc = place]
Handled        == hand.job.run
Row            == status[Handled]

Take ==
  /\ Working("idle")
  /\ \E j \in waiting : /\ waiting' = waiting \ {j}
                        /\ hand' = [hand EXCEPT !.pc = "load", !.job = j]
  /\ UNCHANGED <<rows, reports, request, deaths>>

(* A run that is over is skipped; the transition of a failed one raises. *)
Load ==
  /\ Working("load")
  /\ Go(IF Row \in {"completed", "cancelled"} THEN "ack"
        ELSE IF MayBecome(Row, "running") THEN "start" ELSE "nack")
  /\ UNCHANGED <<rows, reports, waiting, request, deaths>>

Start ==
  /\ Working("start")
  /\ IF UniqueIndex(Handled, kind[Handled])
     THEN Go("perform") /\ status' = [status EXCEPT ![Handled] = "running"]
     ELSE Go("nack") /\ UNCHANGED status
  /\ UNCHANGED <<kind, reports, waiting, request, deaths>>

(* Faulty variant: the report is not looked for. *)
PerformAgain ==
  /\ Working("perform")
  /\ \/ Go("finish") /\ reports' = [reports EXCEPT ![Handled] = @ + 1]
     \/ "perform" \in EvalFaults /\ Go("error") /\ UNCHANGED reports
  /\ UNCHANGED <<rows, waiting, request, deaths>>

(* run_admin_evaluation: a report that is there is used again. *)
Perform ==
  /\ Working("perform")
  /\ \/ reports[Handled] > 0 /\ Go("finish") /\ UNCHANGED reports
     \/ /\ reports[Handled] = 0
        /\ Go("finish")
        /\ reports' = [reports EXCEPT ![Handled] = @ + 1]
     \/ /\ reports[Handled] = 0 /\ "perform" \in EvalFaults
        /\ Go("error")
        /\ UNCHANGED reports
  /\ UNCHANGED <<rows, waiting, request, deaths>>

Finish ==
  /\ Working("finish")
  /\ Go(IF Row = "cancelled" THEN "ack"
        ELSE IF MayBecome(Row, "completed") THEN "complete" ELSE "nack")
  /\ UNCHANGED <<rows, reports, waiting, request, deaths>>

Complete ==
  /\ Working("complete")
  /\ status' = [status EXCEPT ![Handled] = "completed"]
  /\ Go("ack")
  /\ UNCHANGED <<kind, reports, waiting, request, deaths>>

(* Faulty variant: one delivery too late. *)
FinalFailureLate == hand.job.attempts > MaxAttempts

(* job.attempts counts the failures before this delivery. *)
FinalFailure == hand.job.attempts >= MaxAttempts

Error ==
  LET target == IF FinalFailure THEN "failed" ELSE "retrying" IN
  /\ Working("error")
  /\ hand' = [hand EXCEPT !.target = target,
       !.pc = IF Row \notin {"completed", "cancelled"} /\ MayBecome(Row, target)
              THEN "fault" ELSE "nack"]
  /\ UNCHANGED <<rows, reports, waiting, request, deaths>>

Fault ==
  /\ Working("fault")
  /\ status' = IF hand.target \in Active => UniqueIndex(Handled, kind[Handled])
               THEN [status EXCEPT ![Handled] = hand.target] ELSE status
  /\ Go("nack")
  /\ UNCHANGED <<kind, reports, waiting, request, deaths>>

Ack ==
  /\ Working("ack")
  /\ Go("idle")
  /\ UNCHANGED <<rows, reports, waiting, request, deaths>>

(* Faulty variant: the count before the failure is compared. *)
NackLate ==
  /\ Working("nack")
  /\ Go("idle")
  /\ waiting' = IF hand.job.attempts <= MaxAttempts
                THEN waiting \union {[hand.job EXCEPT !.attempts = @ + 1]}
                ELSE waiting
  /\ UNCHANGED <<rows, reports, request, deaths>>

(* fail_or_retry_job: back to the queue, or to the dead letters. *)
Nack ==
  /\ Working("nack")
  /\ Go("idle")
  /\ waiting' = IF hand.job.attempts + 1 <= MaxAttempts
                THEN waiting \union {[hand.job EXCEPT !.attempts = @ + 1]}
                ELSE waiting
  /\ UNCHANGED <<rows, reports, request, deaths>>

(* The worker dies and finds its job in the processing list at its start. *)
Die ==
  /\ ~Working("idle") /\ deaths < MaxEvalDeaths
  /\ Go("idle")
  /\ waiting' = waiting \union {hand.job}
  /\ deaths' = deaths + 1
  /\ UNCHANGED <<rows, reports, request>>

-----------------------------------------------------------------------------
Proceed(a) == Insert(a) \/ Enqueue(a) \/ Refresh(a) \/ GiveUp(a)

WorkerStep == Take \/ Load \/ Start \/ Perform \/ Finish \/ Complete \/ Error
                \/ Fault \/ Ack \/ Nack

EvalNext == WorkerStep \/ Die \/ \E a \in Admins : Ask(a) \/ Proceed(a)

(* What the proofs are about: these actions alone, without fairness. *)
EvalSpec == EvalInit /\ [][EvalNext]_evalVars

-----------------------------------------------------------------------------
(* Every variable has its type. *)
EvalTypeOK ==
  /\ status \in [Runs -> {"none"} \union Active \union Over]
  /\ kind \in [Runs -> Kinds] /\ reports \in [Runs -> Nat]
  /\ waiting \subseteq Job /\ hand \in Hand
  /\ request \in [Admins -> Request] /\ deaths \in 0..MaxEvalDeaths

(* Two administrators who start the same evaluation get one run, whoever   *)
(* commits first.                                                          *)
OneActiveRun == \A k \in Kinds : Cardinality(ActiveRuns(k)) <= 1

(* A run that says it is under way keeps every later one of its type out,  *)
(* so somebody has to end it: its job waits, is in the worker's hand, or   *)
(* the request that made it is not done.                                   *)
ActiveRunIsAttended ==
  \A r \in Runs : status[r] \in Active =>
    \/ \E j \in waiting : j.run = r
    \/ ~Working("idle") /\ Handled = r
    \/ \E a \in Admins : request[a].run = r /\ ~At(a, "idle")

(* However often the job is delivered, the evaluation, which costs hours   *)
(* of model calls, produces one report.                                    *)
EvaluatedOnce == \A r \in Runs : reports[r] <= 1

(* Every run ends: no type of evaluation is refused for ever. *)
EveryRunEnds ==
  \A r \in Runs : status[r] \in Active ~> status[r] \in {"none"} \union Over
=============================================================================
