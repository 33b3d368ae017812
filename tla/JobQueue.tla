------------------------------ MODULE JobQueue ------------------------------
(***************************************************************************)
(* The Redis queue between the API and the worker processes                *)
(* (backend/app/job_queue.py) and the worker's main loop                   *)
(* (worker_loop in backend/app/worker.py).                                 *)
(*                                                                         *)
(* Every Redis command is one step, because a worker can be killed between *)
(* any two of them.  What a handler does is left to the modules about the  *)
(* handlers: here it ends, with or without an exception.                   *)
(*                                                                         *)
(* The lists of Redis are sequences whose head is the right end of the     *)
(* list, so LPUSH is Append and RPOP is Head/Tail.                         *)
(***************************************************************************)
EXTENDS Naturals, FiniteSets, SequencesExt

CONSTANTS
  Jobs,          \* the jobs the API may enqueue, one WorkerJob each
  Workers,       \* worker processes
  None,          \* "no job in hand"
  MaxRetry,      \* MAX_RETRY_ATTEMPTS
  DrainBatch,    \* num=10 of zrangebyscore
  CrashPoints,   \* places of the loop where a process may die
  MaxRestarts    \* bound: how often workers die or stop altogether

ASSUME QueueAssumption ==
  /\ MaxRetry \in Nat /\ DrainBatch \in Nat \ {0} /\ MaxRestarts \in Nat
  /\ IsFiniteSet(Jobs) /\ IsFiniteSet(Workers)

(* What is stored in Redis is the JSON text of the job; two texts are      *)
(* equal exactly when the job and its attempt count are.                   *)
Raw == [id : Jobs, attempts : 0..MaxRetry + 1]

ASSUME NoneAssumption == None \notin Raw

(* Where a worker is: process not running; recovering; before the scan of  *)
(* the retry set; moving due jobs; between zrem and lpush of a due job;    *)
(* waiting for a job; in the handler; before the ack; before and after the *)
(* lrem of a failed job.                                                   *)
Places == {"down", "recover", "poll", "drain", "drainPush", "reserve",
           "run", "ack", "fail", "failPush"}

ASSUME CrashAssumption == CrashPoints \subseteq Places \ {"down"}

VARIABLES
  waiting,       \* QUEUE_KEY
  processing,    \* PROCESSING_KEY
  retry,         \* RETRY_KEY, a sorted set
  due,           \* the members of RETRY_KEY whose score has passed
  dead,          \* DEAD_LETTER_KEY
  pc,            \* where each worker is
  hand,          \* the raw job a worker holds
  batch,         \* due_jobs of drain_retry_queue
  restarts,
  (* history, read by no action *)
  arrivals,      \* jobs in the order they were enqueued
  deliveries,    \* how often each job was reserved
  succeeded,     \* jobs one of whose deliveries ended without exception
  failures       \* deliveries of a job that raised

redis == <<waiting, processing, retry, due, dead>>
history == <<arrivals, deliveries, succeeded, failures>>
vars == <<redis, pc, hand, batch, restarts, history>>

Init ==
  /\ waiting = <<>> /\ processing = <<>> /\ dead = <<>>
  /\ retry = {} /\ due = {}
  /\ pc = [w \in Workers |-> "down"]
  /\ hand = [w \in Workers |-> None]
  /\ batch = [w \in Workers |-> {}]
  /\ restarts = 0
  /\ arrivals = <<>> /\ succeeded = {}
  /\ deliveries = [j \in Jobs |-> 0] /\ failures = [j \in Jobs |-> 0]

Goto(w, place) == pc' = [pc EXCEPT ![w] = place]
Take(w, raw)   == hand' = [hand EXCEPT ![w] = raw]

-----------------------------------------------------------------------------
(* Faulty variants of the actions below, for the mutation runs only: each  *)
(* is a mistake the properties must notice.                                *)

(* enqueue_job with RPUSH instead of LPUSH. *)
EnqueueAtFront(j) ==
  /\ j \notin ToSet(arrivals)
  /\ waiting' = <<[id |-> j, attempts |-> 0]>> \o waiting
  /\ arrivals' = Append(arrivals, j)
  /\ UNCHANGED <<processing, retry, due, dead, pc, hand, batch, restarts,
                 deliveries, succeeded, failures>>

(* Recovery that copies the processing list without emptying it. *)
RecoverByCopy(w) ==
  /\ pc[w] = "recover"
  /\ processing # <<>>
  /\ waiting' = Append(waiting, Head(processing))
  /\ UNCHANGED <<processing, retry, due, dead, pc, hand, batch, restarts,
                 history>>

(* Recovery that charges the restart to the job. *)
RecoverAndCharge(w) ==
  /\ pc[w] = "recover"
  /\ processing # <<>>
  /\ Head(processing).attempts <= MaxRetry
  /\ waiting' = Append(waiting, [Head(processing) EXCEPT !.attempts = @ + 1])
  /\ processing' = Tail(processing)
  /\ UNCHANGED <<retry, due, dead, pc, hand, batch, restarts, history>>

(* Recovery that may stop before the processing list is empty. *)
RecoverSome(w) ==
  /\ pc[w] = "recover"
  /\ Goto(w, "poll")
  /\ UNCHANGED <<redis, hand, batch, restarts, history>>

(* The drain without the zrem. *)
DrainWithoutRemove(w) ==
  /\ pc[w] = "drain"
  /\ \E raw \in batch[w] :
       /\ batch' = [batch EXCEPT ![w] = @ \ {raw}]
       /\ Take(w, raw)
  /\ Goto(w, "drainPush")
  /\ UNCHANGED <<redis, restarts, history>>

(* A loop that acknowledges whatever the handler did. *)
FailAndAcknowledge(w) ==
  /\ pc[w] = "run"
  /\ failures' = [failures EXCEPT ![hand[w].id] = @ + 1]
  /\ Goto(w, "ack")
  /\ UNCHANGED <<redis, hand, batch, restarts, arrivals, deliveries, succeeded>>

(* The retry limit read as a limit on the retries already made. *)
ScheduleOneMore(w) ==
  /\ pc[w] = "failPush"
  /\ hand[w].attempts <= MaxRetry + 1
  /\ retry' = retry \union {hand[w]}
  /\ due' = due \ {hand[w]}
  /\ Take(w, None)
  /\ Goto(w, "poll")
  /\ UNCHANGED <<waiting, processing, dead, batch, restarts, history>>

-----------------------------------------------------------------------------
(* The API side: enqueue_job. *)
Enqueue(j) ==
  /\ j \notin ToSet(arrivals)
  /\ waiting' = Append(waiting, [id |-> j, attempts |-> 0])
  /\ arrivals' = Append(arrivals, j)
  /\ UNCHANGED <<processing, retry, due, dead, pc, hand, batch, restarts,
                 deliveries, succeeded, failures>>

-----------------------------------------------------------------------------
(* Process start: recover_processing_jobs moves whatever is in the         *)
(* processing list back to the waiting list, one rpoplpush at a time.      *)
Start(w) ==
  /\ pc[w] = "down"
  /\ Goto(w, "recover")
  /\ UNCHANGED <<redis, hand, batch, restarts, history>>

RecoverOne(w) ==
  /\ pc[w] = "recover"
  /\ processing # <<>>
  /\ waiting' = Append(waiting, Head(processing))
  /\ processing' = Tail(processing)
  /\ UNCHANGED <<retry, due, dead, pc, hand, batch, restarts, history>>

RecoverDone(w) ==
  /\ pc[w] = "recover"
  /\ processing = <<>>
  /\ Goto(w, "poll")
  /\ UNCHANGED <<redis, hand, batch, restarts, history>>

-----------------------------------------------------------------------------
(* drain_retry_queue: a scan, then zrem and lpush for each job found.      *)
(* zrangebyscore returns the lowest scores first; which ones those are is  *)
(* left open.                                                              *)
BecomeDue(raw) ==
  /\ raw \in retry \ due
  /\ due' = due \union {raw}
  /\ UNCHANGED <<waiting, processing, retry, dead, pc, hand, batch, restarts,
                 history>>

DrainScan(w) ==
  /\ pc[w] = "poll"
  /\ \E found \in SUBSET due :
       /\ \/ found = due /\ Cardinality(due) <= DrainBatch
          \/ Cardinality(due) > DrainBatch /\ Cardinality(found) = DrainBatch
       /\ batch' = [batch EXCEPT ![w] = found]
  /\ Goto(w, "drain")
  /\ UNCHANGED <<redis, hand, restarts, history>>

DrainRemove(w) ==
  /\ pc[w] = "drain"
  /\ \E raw \in batch[w] :
       /\ batch' = [batch EXCEPT ![w] = @ \ {raw}]
       /\ retry' = retry \ {raw}
       /\ due' = due \ {raw}
       /\ IF raw \in retry
          THEN Take(w, raw) /\ Goto(w, "drainPush")
          ELSE UNCHANGED <<hand, pc>>       \* another worker removed it
  /\ UNCHANGED <<waiting, processing, dead, restarts, history>>

DrainPush(w) ==
  /\ pc[w] = "drainPush"
  /\ waiting' = Append(waiting, hand[w])
  /\ Take(w, None)
  /\ Goto(w, "drain")
  /\ UNCHANGED <<processing, retry, due, dead, batch, restarts, history>>

DrainDone(w) ==
  /\ pc[w] = "drain"
  /\ batch[w] = {}
  /\ Goto(w, "reserve")
  /\ UNCHANGED <<redis, hand, batch, restarts, history>>

-----------------------------------------------------------------------------
(* reserve_job: an atomic brpoplpush, or a timeout after a second. *)
Reserve(w) ==
  /\ pc[w] = "reserve"
  /\ waiting # <<>>
  /\ LET raw == Head(waiting) IN
       /\ processing' = Append(processing, raw)
       /\ Take(w, raw)
       /\ deliveries' = [deliveries EXCEPT ![raw.id] = @ + 1]
  /\ waiting' = Tail(waiting)
  /\ Goto(w, "run")
  /\ UNCHANGED <<retry, due, dead, batch, restarts, arrivals, succeeded,
                 failures>>

ReserveTimeout(w) ==
  /\ pc[w] = "reserve"
  /\ waiting = <<>>
  /\ Goto(w, "poll")
  /\ UNCHANGED <<redis, hand, batch, restarts, history>>

(* dispatch_job returns ... *)
DispatchOk(w) ==
  /\ pc[w] = "run"
  /\ succeeded' = succeeded \union {hand[w].id}
  /\ Goto(w, "ack")
  /\ UNCHANGED <<redis, hand, batch, restarts, arrivals, deliveries, failures>>

(* ... or raises, an unknown job type included. *)
DispatchFail(w) ==
  /\ pc[w] = "run"
  /\ failures' = [failures EXCEPT ![hand[w].id] = @ + 1]
  /\ Goto(w, "fail")
  /\ UNCHANGED <<redis, hand, batch, restarts, arrivals, deliveries, succeeded>>

(* acknowledge_job: LREM of one occurrence of the raw text. *)
Acknowledge(w) ==
  /\ pc[w] = "ack"
  /\ processing' = RemoveFirst(processing, hand[w])
  /\ Take(w, None)
  /\ Goto(w, "poll")
  /\ UNCHANGED <<waiting, retry, due, dead, batch, restarts, history>>

(* fail_or_retry_job: LREM first, the new attempt count only in memory ... *)
FailRemove(w) ==
  /\ pc[w] = "fail"
  /\ processing' = RemoveFirst(processing, hand[w])
  /\ hand' = [hand EXCEPT ![w].attempts = @ + 1]
  /\ Goto(w, "failPush")
  /\ UNCHANGED <<waiting, retry, due, dead, batch, restarts, history>>

(* ... then the delayed retry, its score in the future, ... *)
ScheduleRetry(w) ==
  /\ pc[w] = "failPush"
  /\ hand[w].attempts <= MaxRetry
  /\ retry' = retry \union {hand[w]}
  /\ due' = due \ {hand[w]}
  /\ Take(w, None)
  /\ Goto(w, "poll")
  /\ UNCHANGED <<waiting, processing, dead, batch, restarts, history>>

(* ... or the dead letter list. *)
DeadLetter(w) ==
  /\ pc[w] = "failPush"
  /\ hand[w].attempts > MaxRetry
  /\ dead' = Append(dead, hand[w])
  /\ Take(w, None)
  /\ Goto(w, "poll")
  /\ UNCHANGED <<waiting, processing, retry, due, batch, restarts, history>>

-----------------------------------------------------------------------------
(* SIGTERM: the loop ends before it polls again, the job in hand is done.  *)
Stop(w) ==
  /\ pc[w] = "poll"
  /\ restarts < MaxRestarts
  /\ restarts' = restarts + 1
  /\ Goto(w, "down")
  /\ UNCHANGED <<redis, hand, batch, history>>

(* The process is killed, or an exception of the Redis client leaves the   *)
(* loop: what it held in memory is gone.                                   *)
Crash(w) ==
  /\ pc[w] \in CrashPoints
  /\ restarts < MaxRestarts
  /\ restarts' = restarts + 1
  /\ Goto(w, "down")
  /\ Take(w, None)
  /\ batch' = [batch EXCEPT ![w] = {}]
  /\ UNCHANGED <<redis, history>>

Handle(w) == DispatchOk(w) \/ DispatchFail(w)

WorkerStep(w) ==
  \/ Start(w) \/ RecoverOne(w) \/ RecoverDone(w)
  \/ DrainScan(w) \/ DrainRemove(w) \/ DrainPush(w) \/ DrainDone(w)
  \/ Reserve(w) \/ ReserveTimeout(w) \/ Handle(w)
  \/ Acknowledge(w) \/ FailRemove(w) \/ ScheduleRetry(w) \/ DeadLetter(w)

Next ==
  \/ \E j \in Jobs : Enqueue(j)
  \/ \E raw \in retry : BecomeDue(raw)
  \/ \E w \in Workers : WorkerStep(w) \/ Stop(w) \/ Crash(w)

Spec == Init /\ [][Next]_vars

(* A running worker takes its steps, a stopped one is restarted (restart:  *)
(* unless-stopped in docker-compose.yml), handlers end, and time passes.   *)
(* Nothing is assumed of the API, of stops or of crashes.                  *)
Fairness ==
  /\ \A w \in Workers : WF_vars(WorkerStep(w))
  /\ WF_vars(\E raw \in retry : BecomeDue(raw))

FairSpec == Spec /\ Fairness

-----------------------------------------------------------------------------
(* Every variable has its type; a worker past its reservation holds a job *)
(* that may still be delivered.                                            *)
TypeOK ==
  /\ waiting \in Seq(Raw) /\ processing \in Seq(Raw) /\ dead \in Seq(Raw)
  /\ retry \subseteq Raw /\ due \subseteq retry
  /\ pc \in [Workers -> Places]
  /\ hand \in [Workers -> Raw \union {None}]
  /\ \A w \in Workers :
       /\ pc[w] \in {"drainPush", "run", "ack", "fail", "failPush"}
            => hand[w] \in Raw
       /\ pc[w] = "fail" => hand[w].attempts <= MaxRetry
  /\ batch \in [Workers -> SUBSET Raw]
  /\ restarts \in Nat
  /\ arrivals \in Seq(Jobs) /\ succeeded \subseteq Jobs
  /\ deliveries \in [Jobs -> Nat] /\ failures \in [Jobs -> Nat]

Stored == ToSet(waiting) \union ToSet(processing) \union retry \union ToSet(dead)

(* The two places where a job is in no list of Redis at all. *)
Windows == {"drainPush", "failPush"}
HeldInWindow == {hand[w] : w \in {v \in Workers : pc[v] \in Windows}}

(* No job is dropped: whatever happened to the workers, an enqueued job    *)
(* has succeeded, or is in one of the four lists, or is in the hand of a   *)
(* worker between the two commands of fail_or_retry_job or of              *)
(* drain_retry_queue.                                                      *)
NoJobVanishes ==
  \A j \in ToSet(arrivals) \ succeeded :
    \E raw \in Stored \union HeldInWindow : raw.id = j

Occurrences(list, j) == Cardinality({i \in DOMAIN list : list[i].id = j})

(* With one worker a job is never in two places: neither recovery, nor the *)
(* drain, nor a retry duplicates it, so it is not run twice in a row.      *)
OneCopy ==
  \A j \in Jobs :
    Occurrences(waiting, j) + Occurrences(processing, j)
      + Occurrences(dead, j)
      + Cardinality({raw \in retry : raw.id = j})
      + Cardinality({w \in Workers : pc[w] \in Windows /\ hand[w].id = j}) <= 1

(* A job is dead-lettered only after MaxRetry + 1 of its deliveries raised *)
(* an exception: restarts, steals and lost acks are never charged to it.   *)
DeadLetterEarned ==
  \A raw \in ToSet(dead) : /\ raw.attempts = MaxRetry + 1
                           /\ failures[raw.id] >= MaxRetry + 1

(* With one worker, each redelivery has its cause: a failed delivery, or a *)
(* worker that stopped.  Without a restart a job that succeeded is never   *)
(* handed out again.                                                       *)
RedeliveryHasCause ==
  \A j \in Jobs : deliveries[j] <= 1 + failures[j] + restarts

(* FIFO for first deliveries: retries and recovered jobs, which go to the  *)
(* end of the waiting list, never let a newer job overtake an older one    *)
(* that has not been tried yet.                                            *)
FirstDeliveryInOrder ==
  \A i, k \in DOMAIN arrivals :
    i < k /\ deliveries[arrivals[k]] > 0 => deliveries[arrivals[i]] > 0

Settled(j) == j \in succeeded \/ \E raw \in ToSet(dead) : raw.id = j

(* Every enqueued job is eventually handled with success or dead-lettered. *)
EveryJobSettles == \A j \in Jobs : j \in ToSet(arrivals) ~> Settled(j)

(* What docs/WORKER_ARCHITECTURE.md says of retries (line 28): a failed    *)
(* job is retried at most twice, then it goes to the failed queue.         *)
DocRetriesAtMostTwice == \A raw \in retry : raw.attempts <= 2

(* What the same document says of restarts (lines 27 and 29): a job not    *)
(* yet acknowledged is in the processing list, for the next start of a     *)
(* worker to recover.                                                      *)
DocUnackedJobIsRecoverable ==
  (\A w \in Workers : pc[w] = "down")
    => \A j \in ToSet(arrivals) \ succeeded :
         \E raw \in Stored : raw.id = j

-----------------------------------------------------------------------------
(* The queue implements JobDelivery when there is one worker. *)

CopyOf(j) == CHOOSE raw \in Stored \union HeldInWindow : raw.id = j
IdsIn(raws) == {raw.id : raw \in raws}
FailWindow == {hand[w] : w \in {v \in Workers : pc[v] = "failPush"}}
DrainWindow == {hand[w] : w \in {v \in Workers : pc[v] = "drainPush"}}

JobState(j) ==
  CASE j \notin ToSet(arrivals) -> "new"
    [] j \in IdsIn(ToSet(processing) \union FailWindow) -> "active"
    [] j \in IdsIn(ToSet(waiting) \union retry \union DrainWindow) -> "pending"
    [] j \in IdsIn(ToSet(dead)) -> "dead"
    [] j \in succeeded /\ j \notin IdsIn(Stored \union HeldInWindow) -> "done"
    [] OTHER -> "lost"

(* attempts is raised in memory before the job is stored again, and the    *)
(* count is gone with the job.                                             *)
JobTries(j) ==
  IF j \in IdsIn(FailWindow) THEN CopyOf(j).attempts - 1
  ELSE IF j \in IdsIn(Stored \union HeldInWindow) THEN CopyOf(j).attempts
  ELSE 0

Delivery == INSTANCE JobDelivery WITH
              state <- [j \in Jobs |-> JobState(j)],
              tries <- [j \in Jobs |-> JobTries(j)]

(* The queue delivers each job as JobDelivery promises. *)
ImplementsDelivery == Delivery!Spec
=============================================================================
