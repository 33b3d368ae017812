------------------------ MODULE EvaluationRunsProofs ------------------------
(***************************************************************************)
(* What holds of EvaluationRuns for every number of administrators, rows,  *)
(* types of evaluation, attempts and deaths.                               *)
(*                                                                         *)
(* EInv extends the types by three facts: Unique is OneActiveRun row by    *)
(* row; Rows says for which requests and jobs there is a row; Course ties  *)
(* the status of the run in hand to the place the worker has come to.      *)
(***************************************************************************)
EXTENDS EvaluationRuns, FiniteSetTheorems, TLAPS

(* Two active rows of one type are the same row. *)
Unique ==
  \A r, s \in Runs :
    status[r] \in Active /\ status[s] \in Active /\ kind[r] = kind[s] => r = s

(* Before its insert a request has a row of its own that does not exist;   *)
(* later the row exists, as does that of every job.                        *)
Rows ==
  /\ \A a \in Admins :
       IF At(a, "insert")
       THEN /\ status[request[a].run] = "none"
            /\ \A b \in Admins \ {a} : At(b, "insert") => request[b].run # request[a].run
       ELSE ~At(a, "idle") => status[request[a].run] # "none"
  /\ \A j \in waiting : status[j.run] # "none"
  /\ ~Working("idle") => Row # "none"

(* While a run is performed only a request can fail it.  A job is          *)
(* acknowledged when its run is over, and given up when it is over or      *)
(* another attempt follows.                                                *)
Course ==
  /\ hand.pc \in {"perform", "finish", "error"} => Row \in {"running", "failed"}
  /\ Working("fault") /\ hand.target = "retrying" => ~FinalFailure
  /\ Working("ack") => Row \in Over
  /\ Working("nack") => Row \in Over \/ ~FinalFailure

EInv == EvalTypeOK /\ Unique /\ Rows /\ Course /\ ActiveRunIsAttended

-----------------------------------------------------------------------------
(* EvalInit has no row, no job and no request. *)
LEMMA EInvInit ==
  ASSUME EvaluationAssumption, EvalInit
  PROVE  EInv /\ EvaluatedOnce
<1>1. /\ (CHOOSE k \in Kinds : TRUE) \in Kinds
      /\ (CHOOSE r \in Runs : TRUE) \in Runs
  BY DEF EvaluationAssumption
<1> DEFINE k == CHOOSE k \in Kinds : TRUE
           r == CHOOSE r \in Runs : TRUE
<1>2. /\ status = [x \in Runs |-> "none"] /\ reports = [x \in Runs |-> 0]
      /\ kind \in [Runs -> {k}] /\ waiting = {} /\ deaths = 0
      /\ hand = [pc |-> "idle", target |-> "failed", job |-> [run |-> r, attempts |-> 0]]
      /\ request = [a \in Admins |-> [pc |-> "idle", run |-> r, kind |-> k]]
  BY DEF EvalInit
<1>3. EvalTypeOK
  <2>1. k \in Kinds /\ r \in Runs
    BY <1>1
  <2> HIDE DEF k, r
  <2> QED
    BY <1>2, <2>1 DEF EvaluationAssumption, EvalTypeOK, Hand, Job, Request
<1>4. Unique /\ Rows /\ Course /\ ActiveRunIsAttended /\ EvaluatedOnce
  BY DEF EvalInit, Unique, Rows, Course, ActiveRunIsAttended, EvaluatedOnce, Active,
         At, Working
<1> QED
  BY <1>3, <1>4 DEF EInv

(* Every step keeps the types. *)
LEMMA TypeStep ==
  ASSUME EvaluationAssumption, EvalTypeOK, [EvalNext]_evalVars
  PROVE  EvalTypeOK'
<1> USE DEF EvaluationAssumption, EvalTypeOK, Active, Over, At, Continue, Working, Go
<1>1. ASSUME NEW a \in Admins, Ask(a) PROVE EvalTypeOK'
  BY <1>1 DEF Ask, Request, rows
<1>2. ASSUME NEW a \in Admins, Insert(a) PROVE EvalTypeOK'
  BY <1>2 DEF Insert, Request, rows
<1>3. ASSUME NEW a \in Admins, Enqueue(a) PROVE EvalTypeOK'
  BY <1>3 DEF Enqueue, NewJob, Request, Job, rows
<1>4. ASSUME NEW a \in Admins, Refresh(a) PROVE EvalTypeOK'
  BY <1>4 DEF Refresh, Request, rows
<1>5. ASSUME NEW a \in Admins, GiveUp(a) PROVE EvalTypeOK'
  BY <1>5 DEF GiveUp, Request
<1>6. ASSUME Take PROVE EvalTypeOK'
  BY <1>6 DEF Take, Hand, rows
<1>7. ASSUME Load \/ Start \/ Finish \/ Complete \/ Ack PROVE EvalTypeOK'
  BY <1>7 DEF Load, Start, Finish, Complete, Ack, Hand, Job, Handled, rows
<1>8. ASSUME Perform PROVE EvalTypeOK'
  BY <1>8 DEF Perform, Hand, Job, Handled, rows
<1>9. ASSUME Error \/ Fault PROVE EvalTypeOK'
  BY <1>9 DEF Error, Fault, Hand, Job, Handled, rows
<1>10. ASSUME Nack \/ Die PROVE EvalTypeOK'
  BY <1>10 DEF Nack, Die, Hand, Job, rows
<1>11. ASSUME UNCHANGED evalVars PROVE EvalTypeOK'
  BY <1>11 DEF evalVars, rows
<1> QED
  BY <1>1, <1>2, <1>3, <1>4, <1>5, <1>6, <1>7, <1>8, <1>9, <1>10, <1>11
  DEF EvalNext, WorkerStep, Proceed

-----------------------------------------------------------------------------
(* The unique index, and transitions that go back to an active status only *)
(* under it, keep Unique.                                                  *)
LEMMA UniqueStep ==
  ASSUME EvaluationAssumption, EvalTypeOK, Unique, [EvalNext]_evalVars
  PROVE  Unique'
<1> USE DEF EvalTypeOK, Unique, UniqueIndex, ActiveRuns
<1>1. ASSUME UNCHANGED rows PROVE Unique'
  BY <1>1 DEF rows
<1>2. ASSUME NEW a \in Admins, Insert(a) PROVE Unique'
  <2>1. CASE UniqueIndex(request[a].run, request[a].kind)
    <3>1. request[a].run \in Runs /\ request[a].kind \in Kinds
      BY DEF Request
    <3> QED
      BY <1>2, <2>1, <3>1 DEF Insert
  <2>2. CASE ~UniqueIndex(request[a].run, request[a].kind)
    BY <1>1, <1>2, <2>2 DEF Insert
  <2> QED
    BY <2>1, <2>2
<1>3. ASSUME NEW a \in Admins, GiveUp(a) PROVE Unique'
  BY <1>3 DEF GiveUp, Active
<1>4. ASSUME Start PROVE Unique'
  BY <1>4 DEF Start, Handled
<1>5. ASSUME Complete PROVE Unique'
  BY <1>5 DEF Complete, Active
<1>6. ASSUME Fault PROVE Unique'
  BY <1>6 DEF Fault, Handled
<1> QED
  BY <1>1, <1>2, <1>3, <1>4, <1>5, <1>6
  DEF EvalNext, WorkerStep, Proceed, Ask, Enqueue, Refresh, Take, Load, Perform,
      Finish, Error, Ack, Nack, Die, evalVars, rows

(* A row comes before its job, and before the request that made it goes on;*)
(* no row goes away.                                                       *)
LEMMA RowsStep ==
  ASSUME EvaluationAssumption, EvalTypeOK, Rows, [EvalNext]_evalVars
  PROVE  Rows'
<1> USE DEF EvalTypeOK, Rows, At, Continue, Working, Go, Handled, Row, Request, Hand, Job
<1>0. /\ \A a \in Admins : request[a].run \in Runs
      /\ \A j \in waiting : j.run \in Runs
      /\ hand.job.run \in Runs
  BY DEF Request, Hand, Job
<1>1. ASSUME NEW a \in Admins, Ask(a) PROVE Rows'
  BY <1>0, <1>1 DEF Ask, rows
<1>2. ASSUME NEW a \in Admins, Insert(a) PROVE Rows'
  BY <1>0, <1>2 DEF Insert, rows
<1>3. ASSUME NEW a \in Admins, Enqueue(a) PROVE Rows'
  BY <1>0, <1>3 DEF Enqueue, NewJob, rows
<1>4. ASSUME NEW a \in Admins, Refresh(a) \/ GiveUp(a) PROVE Rows'
  BY <1>0, <1>4 DEF Refresh, GiveUp, rows
<1>5. ASSUME Take PROVE Rows'
  BY <1>0, <1>5 DEF Take, rows
<1>6. ASSUME Load \/ Perform \/ Finish \/ Ack PROVE Rows'
  BY <1>0, <1>6 DEF Load, Perform, Finish, Ack, rows
<1>7. ASSUME Start \/ Complete PROVE Rows'
  BY <1>0, <1>7 DEF Start, Complete
<1>8. ASSUME Error PROVE Rows'
  BY <1>0, <1>8 DEF Error, rows
<1>9. ASSUME Fault PROVE Rows'
  BY <1>0, <1>9 DEF Fault
<1>10. ASSUME Nack \/ Die PROVE Rows'
  BY <1>0, <1>10 DEF Nack, Die, rows
<1>11. ASSUME UNCHANGED evalVars PROVE Rows'
  BY <1>11 DEF evalVars, rows
<1> QED
  BY <1>1, <1>2, <1>3, <1>4, <1>5, <1>6, <1>7, <1>8, <1>9, <1>10, <1>11
  DEF EvalNext, WorkerStep, Proceed

-----------------------------------------------------------------------------
(* The worker's place and the status of the run it handles.  A request can *)
(* only fail that run: the row it is about to insert is another one.       *)
LEMMA CourseStep ==
  ASSUME EvaluationAssumption, EvalTypeOK, Unique, Rows, Course, [EvalNext]_evalVars
  PROVE  Course'
<1> USE DEF Course, At, Continue, Working, Go, Handled, Row, FinalFailure
<1>0. /\ \A a \in Admins : request[a].run \in Runs
      /\ hand.job.run \in Runs /\ hand.job.attempts \in Nat /\ MaxAttempts \in Nat
      /\ Row \in {"none"} \union Active \union Over
  BY DEF EvaluationAssumption, EvalTypeOK, Request, Hand, Job
<1>1. ASSUME NEW a \in Admins, Insert(a) PROVE Course'
  <2>1. status'[Handled] = Row \/ Working("idle")
    BY <1>0, <1>1 DEF Insert, Rows, rows, EvalTypeOK
  <2>2. hand' = hand
    BY <1>1 DEF Insert
  <2> QED
    BY <2>1, <2>2
<1>2. ASSUME NEW a \in Admins, GiveUp(a) PROVE Course'
  BY <1>0, <1>2 DEF GiveUp, EvalTypeOK, Over
<1>3. ASSUME UNCHANGED <<status, hand>> PROVE Course'
  BY <1>3
<1>4. ASSUME Take \/ Ack \/ Nack \/ Die PROVE Course'
  BY <1>4 DEF Take, Ack, Nack, Die, EvalTypeOK, Hand
<1>5. ASSUME Load PROVE Course'
  <2>1. Row # "none"
    BY <1>5 DEF Load, Rows
  <2> QED
    BY <1>0, <1>5, <2>1 DEF Load, EvalTypeOK, Hand, rows, MayBecome, Transitions, Active, Over
<1>6. ASSUME Start PROVE Course'
  <2>1. CASE UniqueIndex(Handled, kind[Handled])
    BY <1>0, <1>6, <2>1 DEF Start, EvalTypeOK, Hand
  <2>2. CASE ~UniqueIndex(Handled, kind[Handled])
    <3>1. Row \in Over
      <4>1. Row \notin Active
        BY <1>0, <2>2 DEF UniqueIndex, ActiveRuns, Unique
      <4>2. Row # "none"
        BY <1>6 DEF Start, Rows
      <4> QED
        BY <1>0, <4>1, <4>2
    <3> QED
      BY <1>6, <2>2, <3>1 DEF Start, EvalTypeOK, Hand
  <2> QED
    BY <2>1, <2>2
<1>7. ASSUME Perform PROVE Course'
  BY <1>7 DEF Perform, EvalTypeOK, Hand, rows
<1>8. ASSUME Finish PROVE Course'
  BY <1>8 DEF Finish, EvalTypeOK, Hand, rows, MayBecome, Transitions, Over
<1>9. ASSUME Complete PROVE Course'
  BY <1>0, <1>9 DEF Complete, EvalTypeOK, Hand, Over
<1>10. ASSUME Error PROVE Course'
  <2>1. Row \in {"running", "failed"}
    BY <1>10 DEF Error
  <2> QED
    BY <1>0, <1>10, <2>1 DEF Error, EvalTypeOK, Hand, rows, MayBecome, Transitions, Over
<1>11. ASSUME Fault PROVE Course'
  <2>1. CASE hand.target \in Active => UniqueIndex(Handled, kind[Handled])
    BY <1>0, <1>11, <2>1 DEF Fault, EvalTypeOK, Hand, Over
  <2>2. CASE ~(hand.target \in Active => UniqueIndex(Handled, kind[Handled]))
    <3>1. Row \in Over
      <4>1. Row \notin Active
        BY <1>0, <2>2 DEF UniqueIndex, ActiveRuns, Unique
      <4>2. Row # "none"
        BY <1>11 DEF Fault, Rows
      <4> QED
        BY <1>0, <4>1, <4>2
    <3> QED
      BY <1>11, <2>2, <3>1 DEF Fault, EvalTypeOK, Hand
  <2> QED
    BY <2>1, <2>2
<1> QED
  BY <1>1, <1>2, <1>3, <1>4, <1>5, <1>6, <1>7, <1>8, <1>9, <1>10, <1>11
  DEF EvalNext, WorkerStep, Proceed, Ask, Enqueue, Refresh, evalVars, rows

(* What says it is under way is attended to: who leaves a run has ended it *)
(* or has handed it on.                                                    *)
LEMMA AttendedStep ==
  ASSUME EvaluationAssumption, EvalTypeOK, Rows, Course, ActiveRunIsAttended,
         [EvalNext]_evalVars
  PROVE  ActiveRunIsAttended'
<1> DEFINE Attended(r) == \/ \E j \in waiting : j.run = r
                          \/ ~Working("idle") /\ Handled = r
                          \/ \E a \in Admins : request[a].run = r /\ ~At(a, "idle")
<1> SUFFICES ASSUME NEW r \in Runs, status'[r] \in Active
             PROVE  Attended(r)'
  BY DEF ActiveRunIsAttended
<1>0. status[r] \in Active => Attended(r)
  BY DEF ActiveRunIsAttended
<1> USE DEF At, Continue, Working, Go, Handled, Row
<1>1. ASSUME NEW a \in Admins, Ask(a) PROVE Attended(r)'
  BY <1>0, <1>1 DEF Ask, rows, EvalTypeOK, Request
<1>2. ASSUME NEW a \in Admins, Insert(a) PROVE Attended(r)'
  <2>1. request[a].run = r => status[r] = "none"
    BY <1>2 DEF Insert, Rows
  <2> QED
    BY <1>0, <1>2, <2>1 DEF Insert, rows, EvalTypeOK, Request, Active
<1>3. ASSUME NEW a \in Admins, Enqueue(a) PROVE Attended(r)'
  <2>1. waiting \subseteq waiting' /\ status' = status /\ hand' = hand
    BY <1>3 DEF Enqueue, rows
  <2>2. CASE request[a].run = r /\ request'[a].pc = "idle"
    <3>1. NewJob(r) \in waiting'
      BY <1>3, <2>2 DEF Enqueue, EvalTypeOK, Request
    <3> QED
      BY <3>1 DEF NewJob
  <2>3. CASE ~(request[a].run = r /\ request'[a].pc = "idle")
    <3>1. \A b \in Admins : request[b].run = r /\ request[b].pc # "idle"
                              => request'[b].run = r /\ request'[b].pc # "idle"
      BY <1>3, <2>3 DEF Enqueue, EvalTypeOK, Request
    <3> QED
      BY <1>0, <2>1, <3>1
  <2> QED
    BY <2>2, <2>3
<1>4. ASSUME NEW a \in Admins, Refresh(a) PROVE Attended(r)'
  BY <1>0, <1>4 DEF Refresh, rows, EvalTypeOK, Request, MayBecome, Transitions, Active
<1>5. ASSUME NEW a \in Admins, GiveUp(a) PROVE Attended(r)'
  BY <1>0, <1>5 DEF GiveUp, EvalTypeOK, Request, Active
<1>6. ASSUME Take PROVE Attended(r)'
  BY <1>0, <1>6 DEF Take, rows, EvalTypeOK, Hand, Job
<1>7. ASSUME Load \/ Perform \/ Finish PROVE Attended(r)'
  BY <1>0, <1>7 DEF Load, Perform, Finish, rows, EvalTypeOK, Hand
<1>8. ASSUME Start \/ Complete PROVE Attended(r)'
  BY <1>0, <1>8 DEF Start, Complete, EvalTypeOK, Hand
<1>9. ASSUME Error PROVE Attended(r)'
  BY <1>0, <1>9 DEF Error, rows, EvalTypeOK, Hand
<1>10. ASSUME Fault PROVE Attended(r)'
  BY <1>0, <1>10 DEF Fault, EvalTypeOK, Hand
<1>11. ASSUME Ack PROVE Attended(r)'
  BY <1>0, <1>11 DEF Ack, rows, Course, Active, Over
<1>12. ASSUME Nack PROVE Attended(r)'
  <2>1. Handled = r /\ Row \notin Over => hand.job.attempts + 1 <= MaxAttempts
    BY <1>12 DEF Nack, Course, FinalFailure, EvaluationAssumption, EvalTypeOK, Hand, Job
  <2>2. status[r] \in Active /\ status[r] \notin Over
    BY <1>12 DEF Nack, rows, Active, Over
  <2>3. waiting \subseteq waiting' /\ status' = status /\ request' = request
    BY <1>12 DEF Nack, rows
  <2>4. CASE Handled = r
    <3> DEFINE again == [hand.job EXCEPT !.attempts = @ + 1]
    <3>1. again \in waiting'
      BY <1>12, <2>1, <2>2, <2>4 DEF Nack
    <3>2. again.run = r
      BY <2>4 DEF EvalTypeOK, Hand, Job
    <3> HIDE DEF again
    <3> QED
      BY <3>1, <3>2
  <2>5. CASE Handled # r
    BY <1>0, <2>2, <2>3, <2>5
  <2> QED
    BY <2>4, <2>5
<1>13. ASSUME Die PROVE Attended(r)'
  BY <1>0, <1>13 DEF Die, rows
<1>14. ASSUME UNCHANGED evalVars PROVE Attended(r)'
  BY <1>0, <1>14 DEF evalVars, rows
<1> HIDE DEF Attended
<1> QED
  BY <1>1, <1>2, <1>3, <1>4, <1>5, <1>6, <1>7, <1>8, <1>9, <1>10, <1>11, <1>12,
     <1>13, <1>14
  DEF EvalNext, WorkerStep, Proceed

LEMMA EInvStep ==
  ASSUME EvaluationAssumption, EInv, [EvalNext]_evalVars
  PROVE  EInv'
BY TypeStep, UniqueStep, RowsStep, CourseStep, AttendedStep DEF EInv

(* Only Perform produces a report, and only when there is none. *)
LEMMA ReportStep ==
  ASSUME EvalTypeOK, EvaluatedOnce, [EvalNext]_evalVars
  PROVE  EvaluatedOnce'
<1> USE DEF EvaluatedOnce
<1>1. ASSUME UNCHANGED reports PROVE EvaluatedOnce'
  BY <1>1
<1>2. ASSUME Perform PROVE EvaluatedOnce'
  BY <1>2 DEF Perform, EvalTypeOK
<1> QED
  BY <1>1, <1>2
  DEF EvalNext, WorkerStep, Proceed, Ask, Insert, Enqueue, Refresh, GiveUp, Take,
      Load, Start, Finish, Complete, Error, Fault, Ack, Nack, Die, evalVars

(* Unique counted: at most one run of a type is active. *)
LEMMA UniqueCounts ==
  ASSUME Unique PROVE OneActiveRun
<1> SUFFICES ASSUME NEW k \in Kinds PROVE Cardinality(ActiveRuns(k)) <= 1
  BY DEF OneActiveRun
<1>1. CASE ActiveRuns(k) = {}
  BY <1>1, FS_EmptySet
<1>2. CASE ActiveRuns(k) # {}
  <2>1. PICK r : r \in ActiveRuns(k)
    BY <1>2
  <2>2. ActiveRuns(k) = {r}
    BY <2>1 DEF Unique, ActiveRuns
  <2>3. Cardinality({r}) = 1
    BY FS_Singleton
  <2> QED
    BY <2>2, <2>3
<1> QED
  BY <1>1, <1>2

-----------------------------------------------------------------------------
(* The invariant of every behaviour. *)
LEMMA EvaluationInvariant ==
  ASSUME EvaluationAssumption PROVE EvalSpec => [](EInv /\ EvaluatedOnce)
<1>1. EvalInit => EInv /\ EvaluatedOnce
  BY EInvInit
<1>2. EInv /\ EvaluatedOnce /\ [EvalNext]_evalVars => (EInv /\ EvaluatedOnce)'
  BY EInvStep, ReportStep DEF EInv
<1> QED
  BY <1>1, <1>2, PTL DEF EvalSpec

(* Every variable of the evaluation runs keeps its type. *)
THEOREM EvaluationTypes ==
  ASSUME EvaluationAssumption PROVE EvalSpec => []EvalTypeOK
<1>1. EInv => EvalTypeOK
  BY DEF EInv
<1> QED
  BY <1>1, EvaluationInvariant, PTL

(* Two administrators who start the same evaluation, with a worker that    *)
(* puts failed runs back to running at the same time, never get two active *)
(* runs of one type (uq_evaluation_runs_active_type).                      *)
THEOREM OneRunOfAType ==
  ASSUME EvaluationAssumption PROVE EvalSpec => []OneActiveRun
<1>1. EInv => OneActiveRun
  BY UniqueCounts DEF EInv
<1> QED
  BY <1>1, EvaluationInvariant, PTL

(* Through lost replies, failed evaluations, crossing transitions and any  *)
(* number of deaths, a run that keeps the later ones out is never without  *)
(* a request, a waiting job or the worker to end it (start_evaluation,     *)
(* handle_admin_evaluation).                                               *)
THEOREM RunsAreAttended ==
  ASSUME EvaluationAssumption PROVE EvalSpec => []ActiveRunIsAttended
<1>1. EInv => ActiveRunIsAttended
  BY DEF EInv
<1> QED
  BY <1>1, EvaluationInvariant, PTL

(* However often the job of a run is delivered, run_admin_evaluation       *)
(* produces one report at most.                                            *)
THEOREM ReportsAreProducedOnce ==
  ASSUME EvaluationAssumption PROVE EvalSpec => []EvaluatedOnce
BY EvaluationInvariant, PTL
=============================================================================
