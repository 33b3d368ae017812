----------------------------- MODULE ChatAnswer -----------------------------
(***************************************************************************)
(* The answers to one question of a chat session: the streaming requests   *)
(* of backend/app/api/chat.py, the handler of the job chat_answer in       *)
(* backend/app/worker.py and the events of stream_lead_agent.              *)
(*                                                                         *)
(* The API process and the worker share a record per answer task in Redis, *)
(* which both overwrite as a whole from a copy in memory, a key that names *)
(* the task answering the question and a key that asks for a stop.  A step *)
(* is what a coroutine does up to the Redis command it awaits.             *)
(*                                                                         *)
(* A text is the number of complete runs it comes from, 2 for several.     *)
(* Asking again, with the same words in the same session, is what the      *)
(* duplicate check is about: it is the only question.  Not modelled: a     *)
(* restart of the API, which ends its streams and forgets _answer_tasks,   *)
(* and the keys' expiry after a day.                                       *)
(***************************************************************************)
EXTENDS Naturals, FiniteSets, Sequences

CONSTANTS
  Clients,      \* requests in progress at the same time
  None,
  MaxRetry,     \* retries of a failed job by the queue
  MaxTasks,     \* bound: answer tasks
  MaxStops,     \* bound: stop requests
  MaxDeaths,    \* bound: deaths of the worker
  MayFail       \* the failures that may happen

Failures == {"enqueue", "agent", "raise"}
Tasks    == 1..MaxTasks

(* _AnswerTask and the JSON of it. *)
Status  == {"running", "completed", "stopped", "failed"}
Answer  == [status : Status, text : 0..2]
NewTask == [status |-> "running", text |-> 0]

Job == [task : Tasks, attempts : 0..MaxRetry]

(* A stop request between its commands. *)
Stopping == [task : Tasks, record : Answer, saved : BOOLEAN]

ASSUME ChatAssumption ==
  /\ IsFiniteSet(Clients)
  /\ MaxRetry \in Nat /\ MaxTasks \in Nat \ {0} /\ MaxStops \in Nat /\ MaxDeaths \in Nat
  /\ MayFail \subseteq Failures

ASSUME NoneAssumption ==
  None \notin Tasks /\ None \notin Answer \union Job \union Stopping

VARIABLES
  (* Redis and PostgreSQL *)
  stored,       \* the record of each task
  cancel,       \* tasks whose cancel key is set
  dedupe,       \* the task the duplicate key names
  messages,     \* how many ChatMessage rows each task has written
  jobs, hand,   \* the queue and the job in the worker's hand
  (* the worker *)
  work,         \* where the worker is
  event,        \* the event of the agent it handles
  at,           \* events of this run so far
  data,         \* task_data
  (* the API process *)
  tasks,        \* _answer_tasks
  place,        \* where each client's request is
  asked,        \* the task it is about
  own,          \* its _AnswerTask when that is not the one in _answer_tasks
  holder,       \* the task it found in the duplicate key
  sent,         \* text sent to the client
  stopping,     \* a stop request between its commands
  stops,        \* for the bound
  (* what went wrong *)
  deaths,       \* deaths of the worker
  again,        \* deliveries that failed after they had committed the message
  unsaved       \* failures that could not be saved either

redis  == <<stored, cancel, dedupe, messages>>
queue  == <<jobs, hand>>
worker == <<work, event, at, data>>
api    == <<tasks, place, asked, own, holder, sent>>
stop   == <<stopping, stops>>
counts == <<deaths, again, unsaved>>
vars   == <<redis, queue, worker, api, stop, counts>>

Init ==
  /\ stored = [t \in Tasks |-> None] /\ cancel = {} /\ dedupe = None
  /\ messages = [t \in Tasks |-> 0]
  /\ jobs = <<>> /\ hand = None
  /\ work = "idle" /\ event = "status" /\ at = 0 /\ data = NewTask
  /\ tasks = [t \in Tasks |-> None]
  /\ place = [c \in Clients |-> "idle"]
  /\ asked = [c \in Clients |-> None]
  /\ own = [c \in Clients |-> None]
  /\ holder = [c \in Clients |-> None]
  /\ sent = [c \in Clients |-> 0]
  /\ stopping = None
  /\ stops = 0 /\ deaths = 0 /\ again = 0 /\ unsaved = 0

Go(c, where) == place' = [place EXCEPT ![c] = where]

(* The object a request works with.  Requests that found it in             *)
(* _answer_tasks share it; loading the task again puts a new object there. *)
Object(c) == IF own[c] = None THEN tasks[asked[c]] ELSE own[c]

SetObject(c, value) ==
  IF own[c] = None
  THEN tasks' = [tasks EXCEPT ![asked[c]] = value] /\ UNCHANGED own
  ELSE own' = [own EXCEPT ![c] = value] /\ UNCHANGED tasks

Reload(t, value) ==
  /\ tasks' = [tasks EXCEPT ![t] = value]
  /\ own' = [c \in Clients |-> IF asked[c] = t /\ own[c] = None
                               THEN tasks[t] ELSE own[c]]

-----------------------------------------------------------------------------
(* Faulty variants of the actions below, for the mutation runs only.       *)

(* The message is flushed but not committed. *)
PersistUncommitted ==
  /\ work = "run" /\ at = 2
  /\ at' = at + 1
  /\ UNCHANGED <<redis, queue, work, event, data, api, stop, counts>>

(* A job is retried until its answer is completed, although the answer was *)
(* stopped.                                                                *)
LeaveUncompleted ==
  /\ work = "leave"
  /\ jobs' = IF event = "raised" \/ data.status # "completed"
             THEN IF hand.attempts < MaxRetry
                  THEN Append(jobs, [hand EXCEPT !.attempts = @ + 1]) ELSE jobs
             ELSE jobs
  /\ hand' = None
  /\ work' = "idle" /\ event' = "status" /\ at' = 0 /\ data' = NewTask
  /\ UNCHANGED <<redis, api, stop, counts>>

(* The stream looks at the new status before it has sent the new text. *)
RefreshStatus(c) ==
  /\ place[c] = "refresh"
  /\ SetObject(c, IF stored[asked[c]] = None THEN Object(c)
                                            ELSE stored[asked[c]])
  /\ sent' = [sent EXCEPT ![c] = Object(c).text]
  /\ Go(c, "answer")
  /\ UNCHANGED <<redis, queue, worker, asked, holder, stop, counts>>

(* A failed job is retried without a limit. *)
LeaveForRetry ==
  /\ work = "leave"
  /\ jobs' = IF event = "raised"
             THEN Append(jobs, [hand EXCEPT !.attempts = @ + 1]) ELSE jobs
  /\ hand' = None
  /\ work' = "idle" /\ event' = "status" /\ at' = 0 /\ data' = NewTask
  /\ UNCHANGED <<redis, api, stop, counts>>

-----------------------------------------------------------------------------
(* POST /sessions/{id}/ask/stream: the task of the question that is still  *)
(* running in this process, or a new one.                                  *)
RunningHere == {t \in Tasks : tasks[t] # None /\ tasks[t].status = "running"}
Taken(t) == tasks[t] # None \/ \E c \in Clients : asked[c] = t

AskAgain(c) ==
  /\ place[c] = "idle"
  /\ RunningHere # {}
  /\ asked' = [asked EXCEPT ![c] = CHOOSE t \in RunningHere :
                                     \A u \in RunningHere : t <= u]
  /\ Go(c, "refresh")
  /\ UNCHANGED <<redis, queue, worker, tasks, own, holder, sent, stop, counts>>

Ask(c) ==
  /\ place[c] = "idle"
  /\ RunningHere = {}
  /\ \E t \in Tasks : /\ ~Taken(t) /\ \A u \in 1..(t - 1) : Taken(u)
                      /\ asked' = [asked EXCEPT ![c] = t]
  /\ Go(c, "claim")
  /\ UNCHANGED <<redis, queue, worker, tasks, own, holder, sent, stop, counts>>

Register(c) ==
  /\ dedupe' = asked[c]
  /\ tasks' = [tasks EXCEPT ![asked[c]] = NewTask]
  /\ Go(c, "save")

(* SET NX of the duplicate key, ... *)
Claim(c) ==
  /\ place[c] = "claim"
  /\ IF dedupe = None THEN Register(c)
                      ELSE Go(c, "holder") /\ UNCHANGED <<dedupe, tasks>>
  /\ UNCHANGED <<stored, cancel, messages, queue, worker, asked, own, holder,
                 sent, stop, counts>>

(* ... then who holds it, ... *)
ReadHolder(c) ==
  /\ place[c] = "holder"
  /\ holder' = [holder EXCEPT ![c] = dedupe]
  /\ Go(c, IF dedupe = None THEN "seize" ELSE "load")
  /\ UNCHANGED <<redis, queue, worker, tasks, asked, own, sent, stop, counts>>

(* ... whether that task is running, ... *)
LoadHolder(c) ==
  /\ place[c] = "load"
  /\ LET found == stored[holder[c]]
     IN  /\ IF found = None THEN UNCHANGED <<tasks, own>>
                            ELSE Reload(holder[c], found)
         /\ IF found # None /\ found.status = "running"
            THEN /\ asked' = [asked EXCEPT ![c] = holder[c]]
                 /\ Go(c, "refresh")
            ELSE Go(c, "seize") /\ UNCHANGED asked
  /\ holder' = [holder EXCEPT ![c] = None]
  /\ UNCHANGED <<redis, queue, worker, sent, stop, counts>>

(* ... and the key is taken over when it is not. *)
Seize(c) ==
  /\ place[c] = "seize"
  /\ Register(c)
  /\ UNCHANGED <<stored, cancel, messages, queue, worker, asked, own, holder,
                 sent, stop, counts>>

Save(c) ==
  /\ place[c] = "save"
  /\ stored' = [stored EXCEPT ![asked[c]] = Object(c)]
  /\ Go(c, "enqueue")
  /\ UNCHANGED <<cancel, dedupe, messages, queue, worker, tasks, asked, own,
                 holder, sent, stop, counts>>

Enqueue(c) ==
  /\ place[c] = "enqueue"
  /\ \/ /\ jobs' = Append(jobs, [task |-> asked[c], attempts |-> 0])
        /\ UNCHANGED <<tasks, own>>
     \/ /\ "enqueue" \in MayFail
        /\ SetObject(c, [Object(c) EXCEPT !.status = "failed"])
        /\ UNCHANGED jobs
  /\ Go(c, "queued")
  /\ UNCHANGED <<redis, hand, worker, asked, holder, sent, stop,
                 counts>>

(* The stage "queued", or the failure, is saved with everything else in    *)
(* the object, although the worker may have begun by now.                  *)
SaveQueued(c) ==
  /\ place[c] = "queued"
  /\ stored' = [stored EXCEPT ![asked[c]] = Object(c)]
  /\ Go(c, "refresh")
  /\ UNCHANGED <<cancel, dedupe, messages, queue, worker, tasks, asked, own,
                 holder, sent, stop, counts>>

-----------------------------------------------------------------------------
(* _stream_answer_task: the stored record replaces the object, the text    *)
(* not sent yet goes out, ...                                              *)
Shows(c, record) ==
  /\ SetObject(c, record)
  /\ sent' = [sent EXCEPT ![c] = IF @ < record.text
                                 THEN record.text ELSE @]

Refresh(c) ==
  /\ place[c] = "refresh"
  /\ Shows(c, IF stored[asked[c]] = None THEN Object(c) ELSE stored[asked[c]])
  /\ Go(c, "answer")
  /\ UNCHANGED <<redis, queue, worker, asked, holder, stop, counts>>

(* ... a record without a recent update is declared failed, ...            *)
Overdue(c) ==
  /\ place[c] = "refresh"
  /\ stored[asked[c]] # None /\ stored[asked[c]].status = "running"
  /\ Shows(c, [stored[asked[c]] EXCEPT !.status = "failed"])
  /\ Go(c, "expire")
  /\ UNCHANGED <<redis, queue, worker, asked, holder, stop, counts>>

Expire(c) ==
  /\ place[c] = "expire"
  /\ stored' = [stored EXCEPT ![asked[c]] = Object(c)]
  /\ Go(c, "answer")
  /\ UNCHANGED <<cancel, dedupe, messages, queue, worker, tasks, asked, own,
                 holder, sent, stop, counts>>

(* ... and the stream goes on until the status is final.  The client may   *)
(* have kept it waiting since the text was sent.                           *)
Continue(c) ==
  /\ place[c] = "answer" /\ Object(c).status = "running"
  /\ Go(c, "refresh")
  /\ UNCHANGED <<redis, queue, worker, tasks, asked, own, holder, sent, stop,
                 counts>>

Ending(c) == place[c] = "answer" /\ Object(c).status # "running"

End(c) ==
  /\ Ending(c)
  /\ Go(c, "idle")
  /\ asked' = [asked EXCEPT ![c] = None]
  /\ own' = [own EXCEPT ![c] = None]
  /\ sent' = [sent EXCEPT ![c] = 0]
  /\ UNCHANGED <<redis, queue, worker, tasks, holder, stop, counts>>

(* The client goes away and the stream is cancelled; the task is not. *)
Disconnect(c) ==
  /\ place[c] \in {"refresh", "expire", "answer"} /\ ~Ending(c)
  /\ Go(c, "idle")
  /\ asked' = [asked EXCEPT ![c] = None]
  /\ own' = [own EXCEPT ![c] = None]
  /\ sent' = [sent EXCEPT ![c] = 0]
  /\ UNCHANGED <<redis, queue, worker, tasks, holder, stop, counts>>

-----------------------------------------------------------------------------
(* POST /answer-tasks/{id}/stop: the record as it was read, with the       *)
(* status "stopped", then the cancel key.                                  *)
Stop(t) ==
  /\ stopping = None /\ stops < MaxStops
  /\ stored[t] # None /\ stored[t].status = "running"
  /\ LET stopped == [stored[t] EXCEPT !.status = "stopped"]
     IN  /\ Reload(t, stopped)
         /\ stopping' = [task |-> t, record |-> stopped, saved |-> FALSE]
  /\ stops' = stops + 1
  /\ UNCHANGED <<redis, queue, worker, place, asked, holder, sent, counts>>

StopSave ==
  /\ stopping # None /\ ~stopping.saved
  /\ stored' = [stored EXCEPT ![stopping.task] = stopping.record]
  /\ stopping' = [stopping EXCEPT !.saved = TRUE]
  /\ UNCHANGED <<cancel, dedupe, messages, queue, worker, api, stops, counts>>

StopSignal ==
  /\ stopping # None /\ stopping.saved
  /\ cancel' = cancel \union {stopping.task}
  /\ stopping' = None
  /\ UNCHANGED <<stored, dedupe, messages, queue, worker, api, stops, counts>>

-----------------------------------------------------------------------------
(* handle_chat_answer.  A record that cannot be read fails the delivery    *)
(* before anything is done.                                                *)
Take ==
  /\ work = "idle" /\ jobs # <<>>
  /\ hand' = Head(jobs) /\ jobs' = Tail(jobs)
  /\ \/ /\ data' = stored[hand'.task]
        /\ work' = "run" /\ UNCHANGED event
     \/ /\ "raise" \in MayFail
        /\ event' = "raised" /\ data' = NewTask
        /\ work' = "leave"
  /\ at' = 0
  /\ UNCHANGED <<redis, api, stop, counts>>

(* The agent's events in their order: a status, the text, the citations    *)
(* once the message is committed, and done.  An error event ends the run   *)
(* before the message.                                                     *)
PersistAt == 2

EventsAt(n) ==
  IF n < PersistAt
  THEN {IF n = 0 THEN "status" ELSE "text"}
       \union (IF "agent" \in MayFail THEN {"error"} ELSE {})
  ELSE {IF n = PersistAt + 1 THEN "citations" ELSE "done"}

Persist ==
  /\ work = "run" /\ at = PersistAt
  /\ messages' = [messages EXCEPT ![hand.task] = @ + 1]
  /\ at' = at + 1
  /\ UNCHANGED <<stored, cancel, dedupe, queue, work, event, data, api, stop,
                 counts>>

(* Before it handles an event the worker asks for the cancel key. *)
Obey ==
  /\ work = "run" /\ at # PersistAt
  /\ hand.task \in cancel
  /\ data' = [data EXCEPT !.status = "stopped"]
  /\ work' = "conclude"
  /\ UNCHANGED <<redis, queue, event, at, api, stop, counts>>

Apply ==
  /\ work = "run" /\ at # PersistAt
  /\ hand.task \notin cancel
  /\ event' \in EventsAt(at)
  /\ data' = CASE event' = "text" -> [data EXCEPT !.text = IF @ = 0 THEN 1 ELSE 2]
               [] event' = "done"  -> [data EXCEPT !.status = "completed"]
               [] event' = "error" -> [data EXCEPT !.status = "failed"]
               [] OTHER            -> data
  /\ at' = at + 1
  /\ work' = "keep"
  /\ UNCHANGED <<redis, queue, api, stop, counts>>

(* Pieces of text that follow each other closely are saved together. *)
Keep ==
  /\ work = "keep"
  /\ \/ stored' = [stored EXCEPT ![hand.task] = data]
     \/ event = "text" /\ UNCHANGED stored
  /\ work' = IF event \in {"done", "error"} THEN "conclude" ELSE "run"
  /\ event' = "status"
  /\ UNCHANGED <<cancel, dedupe, messages, queue, at, data, api, stop, counts>>

(* The agent, the database or Redis raises, in the loop or in the save     *)
(* behind it: the message may be committed by then.                        *)
Raise ==
  /\ work \in {"run", "keep", "conclude"} /\ event # "raised"
  /\ "raise" \in MayFail
  /\ event' = "raised"
  /\ data' = [data EXCEPT !.status = "failed"]
  /\ work' = "conclude"
  /\ again' = IF at > PersistAt THEN again + 1 ELSE again
  /\ UNCHANGED <<redis, queue, at, api, stop, deaths, unsaved>>

(* The last save, with the trace, ... *)
Conclude ==
  /\ work = "conclude"
  /\ stored' = [stored EXCEPT ![hand.task] = data]
  /\ work' = "release"
  /\ UNCHANGED <<cancel, dedupe, messages, queue, event, at, data, api, stop,
                 counts>>

(* ... both keys, whichever task the duplicate key names by now, ... *)
Release ==
  /\ work = "release"
  /\ cancel' = cancel \ {hand.task}
  /\ dedupe' = None
  /\ work' = "leave"
  /\ UNCHANGED <<stored, messages, queue, event, at, data, api, stop, counts>>

(* ... unless Redis raises there as well, before the failure is saved or   *)
(* with the keys left or gone, ...                                         *)
Break ==
  /\ "raise" \in MayFail
  /\ \/ /\ work = "conclude" /\ event = "raised"
        /\ unsaved' = unsaved + 1
        /\ UNCHANGED <<cancel, dedupe>>
     \/ /\ work = "release"
        /\ \/ UNCHANGED <<cancel, dedupe>>
           \/ cancel' = cancel \ {hand.task} /\ dedupe' = None
        /\ UNCHANGED unsaved
  /\ event' = "raised"
  /\ work' = "leave"
  /\ again' = IF event # "raised" /\ at > PersistAt THEN again + 1 ELSE again
  /\ UNCHANGED <<stored, messages, queue, at, data, api, stop, deaths>>

(* ... and the job is acknowledged, retried or given up. *)
Leave ==
  /\ work = "leave"
  /\ jobs' = IF event = "raised" /\ hand.attempts < MaxRetry
             THEN Append(jobs, [hand EXCEPT !.attempts = @ + 1]) ELSE jobs
  /\ hand' = None
  /\ work' = "idle" /\ event' = "status" /\ at' = 0 /\ data' = NewTask
  /\ UNCHANGED <<redis, api, stop, counts>>

Die ==
  /\ work # "down" /\ deaths < MaxDeaths
  /\ deaths' = deaths + 1
  /\ work' = "down" /\ event' = "status" /\ at' = 0 /\ data' = NewTask
  /\ UNCHANGED <<redis, queue, api, stop, again, unsaved>>

(* recover_processing_jobs *)
Restart ==
  /\ work = "down"
  /\ jobs' = IF hand = None THEN jobs ELSE Append(jobs, hand)
  /\ hand' = None
  /\ work' = "idle"
  /\ UNCHANGED <<redis, event, at, data, api, stop, counts>>

-----------------------------------------------------------------------------
Receive(c) == AskAgain(c) \/ Ask(c)

Proceed(c) ==
  \/ Claim(c) \/ ReadHolder(c) \/ LoadHolder(c) \/ Seize(c)
  \/ Save(c) \/ Enqueue(c) \/ SaveQueued(c)
  \/ Refresh(c) \/ Expire(c) \/ Continue(c) \/ End(c)

StopStep == StopSave \/ StopSignal

WorkerStep ==
  \/ Take \/ Persist \/ Obey \/ Apply \/ Keep \/ Raise
  \/ Conclude \/ Release \/ Break \/ Leave \/ Restart

Next ==
  \/ \E c \in Clients : Receive(c) \/ Proceed(c) \/ Overdue(c) \/ Disconnect(c)
  \/ \E t \in Tasks : Stop(t)
  \/ StopStep \/ WorkerStep \/ Die

Spec == Init /\ [][Next]_vars

(* What was received goes on, the worker works and is restarted, and a     *)
(* record that stays as it is while its stream keeps looking is overdue at *)
(* some time.                                                              *)
FairSpec ==
  /\ Spec
  /\ WF_vars(WorkerStep) /\ WF_vars(StopStep)
  /\ \A c \in Clients : WF_vars(Proceed(c)) /\ SF_vars(Overdue(c))

-----------------------------------------------------------------------------
(* Every variable has its type. *)
TypeOK ==
  /\ stored \in [Tasks -> Answer \union {None}] /\ cancel \subseteq Tasks
  /\ dedupe \in Tasks \union {None} /\ messages \in [Tasks -> Nat]
  /\ jobs \in Seq(Job) /\ hand \in Job \union {None}
  /\ work \in {"idle", "run", "keep", "conclude", "release", "leave",
               "down"}
  /\ event \in {"status", "text", "citations", "done", "error", "raised"}
  /\ at \in 0..5 /\ data \in Answer
  /\ tasks \in [Tasks -> Answer \union {None}]
  /\ place \in [Clients -> {"idle", "claim", "holder", "load", "seize", "save",
                            "enqueue", "queued", "refresh", "expire", "answer"}]
  /\ asked \in [Clients -> Tasks \union {None}]
  /\ own \in [Clients -> Answer \union {None}]
  /\ holder \in [Clients -> Tasks \union {None}]
  /\ sent \in [Clients -> Nat]
  /\ stopping \in {None} \union Stopping
  /\ stops \in 0..MaxStops /\ deaths \in 0..MaxDeaths
  /\ again \in Nat /\ unsaved \in Nat

(* An answer that is shown as completed is in the session's history,       *)
(* whichever of the two processes wrote the record last.                   *)
CompletedIsSaved ==
  \A t \in Tasks : stored[t] # None /\ stored[t].status = "completed"
                     => messages[t] >= 1

(* A question is in the history once, and once more for each death of the  *)
(* worker and each delivery that failed when its message was committed:    *)
(* neither a stop, an error of the agent nor a retry of what failed before *)
(* the commit writes it again.                                             *)
RetriesSaveOnce == \A t \in Tasks : messages[t] <= 1 + deaths + again

(* A stream that ends with "done" has sent the whole text.  It holds while *)
(* no other stream of the process refreshes the same object, and no stop   *)
(* meets a death of the worker or a failure that was not saved.            *)
DoneIsWhole ==
  \A c \in Clients : Ending(c) /\ Object(c).status = "completed"
                       => sent[c] > 0 /\ sent[c] = Object(c).text

(* Whatever dies, fails, is stopped or written over, every request gets    *)
(* its last event.                                                         *)
StreamsEnd == \A c \in Clients : place[c] # "idle" ~> place[c] = "idle"

-----------------------------------------------------------------------------
(* What documentation and comments say.                                    *)

(* docs/QA_WORKFLOW.md:46: Redis holds a lock against duplicates.  Two     *)
(* tasks of the question that both say they are running are not in the     *)
(* queue together.                                                         *)
InQueue == {jobs[i].task : i \in DOMAIN jobs}
           \union (IF hand = None THEN {} ELSE {hand.task})

OneAnswerAtATime ==
  \A t, u \in InQueue :
    stored[t].status = "running" /\ stored[u].status = "running" => t = u

(* docs/WORKER_ARCHITECTURE.md:31: a stop reaches the worker through the   *)
(* cancel key, so a stopped answer is not completed after all.             *)
StoppedStays ==
  [][\A t \in Tasks : stored[t] # None /\ stored[t].status = "stopped"
                         => stored'[t].status # "completed"]_vars

(* Not a promise, but what a reader of the record relies on: "running"     *)
(* means that a job is queued or at work, or about to be enqueued.         *)
RunningIsAttended ==
  \A t \in Tasks : stored[t] # None /\ stored[t].status = "running" =>
    t \in InQueue \/ \E c \in Clients : asked[c] = t /\ place[c] = "enqueue"
=============================================================================
