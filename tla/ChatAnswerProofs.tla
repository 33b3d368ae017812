--------------------------- MODULE ChatAnswerProofs ---------------------------
(***************************************************************************)
(* What holds of ChatAnswer for any number of clients, tasks, retries,     *)
(* stops and deaths of the worker.                                         *)
(*                                                                         *)
(* The invariant CInv extends the types by facts about the four            *)
(* places that hold a copy of an answer (the record in Redis, the object   *)
(* of the API process, a request's own object, the worker's data) and      *)
(* about the one job there is of a task.  SInv adds, for a process with    *)
(* one stream, how much of the text each copy holds and the stream has     *)
(* sent.                                                                   *)
(***************************************************************************)
EXTENDS ChatAnswer, SequenceTheorems, WellFoundedInduction, TLAPS

(* Places of a request before the job of its task is enqueued; at the      *)
(* first four the task is only a number the request has chosen.            *)
Choosing == {"claim", "holder", "load", "seize"}
Early    == Choosing \union {"save", "enqueue"}
Holding  == {"save", "enqueue", "queued", "refresh", "expire", "answer"}

TasksOf(list)  == {list[i].task : i \in DOMAIN list}
Distinct(list) == \A i, k \in DOMAIN list : list[i].task = list[k].task => i = k
QueuedTasks    == TasksOf(jobs)
Handled(t)  == hand # None /\ hand.task = t

(* The places of the worker and of the requests say which variables hold a *)
(* value.                                                                  *)
WorkerDefined ==
  /\ work \in {"run", "keep", "conclude", "release", "leave"} => hand # None
  /\ work = "idle" => hand = None
  /\ work \in {"idle", "down"} => event = "status"
  /\ work = "run" => at <= 4
  /\ work = "keep" => at <= 4 \/ event = "done"
  /\ event = "raised" => work \in {"conclude", "release", "leave"}

RequestDefined(c) ==
  /\ place[c] # "idle" <=> asked[c] # None
  /\ place[c] = "load" => holder[c] # None
  /\ place[c] \notin Holding => own[c] = None
  /\ place[c] \in Holding => tasks[asked[c]] # None
  /\ holder[c] # None => tasks[holder[c]] # None
  /\ place[c] = "enqueue" => stored[asked[c]] # None

Defined == WorkerDefined /\ \A c \in Clients : RequestDefined(c)

(* A task that the process has not registered is nowhere yet; one that is  *)
(* queued has its record.                                                  *)
Registered ==
  /\ dedupe # None => tasks[dedupe] # None
  /\ stopping # None => tasks[stopping.task] # None
  /\ \A t \in Tasks :
       /\ tasks[t] = None => stored[t] = None /\ messages[t] = 0
       /\ t \in QueuedTasks \/ Handled(t) => stored[t] # None

(* A request that has not enqueued its job yet is alone in that, with a    *)
(* task no job is about; while it chooses, nobody else knows of the task.  *)
Alone ==
  \A c \in Clients :
    /\ place[c] \in Early =>
         /\ asked[c] \notin QueuedTasks /\ ~Handled(asked[c])
         /\ messages[asked[c]] = 0
         /\ \A d \in Clients \ {c} : place[d] \in Early => asked[d] # asked[c]
    /\ place[c] \in Choosing =>
         /\ tasks[asked[c]] = None
         /\ \A d \in Clients \ {c} : asked[d] # asked[c]

(* There is one job of a task. *)
OneJob ==
  /\ Distinct(jobs)
  /\ hand # None => hand.task \notin QueuedTasks

(* No copy of an answer is completed before its message is committed.      *)
Claims(record, t) ==
  record # None /\ record.status = "completed" => messages[t] >= 1

Honest ==
  /\ \A t \in Tasks : Claims(stored[t], t) /\ Claims(tasks[t], t)
  /\ \A c \in Clients : own[c] # None => Claims(own[c], asked[c])
  /\ stopping # None => stopping.record.status # "completed"
  /\ hand # None => Claims(data, hand.task)
  /\ work \in {"run", "keep"} /\ at > PersistAt => messages[hand.task] >= 1

(* Somebody may still commit the message of a task. *)
Pending(t) ==
  \/ t \in QueuedTasks
  \/ /\ Handled(t)
     /\ work = "down" \/ event = "raised" \/ at <= PersistAt

(* Only a death, or a failure of a delivery that has committed it, leaves  *)
(* a task pending whose message is committed.                              *)
Budget ==
  \A t \in Tasks : /\ messages[t] <= 1 + deaths + again
                   /\ Pending(t) => messages[t] <= deaths + again

CInv == TypeOK /\ Defined /\ Registered /\ Alone /\ OneJob /\ Honest /\ Budget

USE DEF PersistAt, counts

-----------------------------------------------------------------------------
(* The queue as a set of tasks: LPUSH adds a task, RPOP takes one, and     *)
(* neither makes two jobs of a task out of one.                            *)
LEMMA AppendJob ==
  ASSUME NEW s \in Seq(Job), NEW e \in Job
  PROVE  /\ Append(s, e) \in Seq(Job)
         /\ TasksOf(Append(s, e)) = TasksOf(s) \union {e.task}
         /\ Distinct(s) /\ e.task \notin TasksOf(s) => Distinct(Append(s, e))
<1>1. /\ Append(s, e) \in Seq(Job)
      /\ DOMAIN Append(s, e) = 1..Len(s) + 1
      /\ \A i \in 1..Len(s) : Append(s, e)[i] = s[i]
      /\ Append(s, e)[Len(s) + 1] = e
  BY AppendProperties
<1>2. DOMAIN s = 1..Len(s) /\ Len(s) \in Nat
  OBVIOUS
<1>3. 1..Len(s) + 1 = (1..Len(s)) \union {Len(s) + 1}
  BY <1>2
<1> HIDE DEF Job
<1>4. TasksOf(Append(s, e)) = TasksOf(s) \union {e.task}
  BY <1>1, <1>2, <1>3 DEF TasksOf
<1>5. ASSUME Distinct(s), e.task \notin TasksOf(s) PROVE Distinct(Append(s, e))
  BY <1>1, <1>2, <1>3, <1>5 DEF TasksOf, Distinct
<1> QED
  BY <1>1, <1>4, <1>5

LEMMA TailJob ==
  ASSUME NEW s \in Seq(Job), s # <<>>
  PROVE  /\ Head(s) \in Job /\ Tail(s) \in Seq(Job)
         /\ Head(s).task \in TasksOf(s)
         /\ TasksOf(Tail(s)) \subseteq TasksOf(s)
         /\ Distinct(s) => Distinct(Tail(s)) /\ Head(s).task \notin TasksOf(Tail(s))
<1>1. /\ Head(s) \in Job /\ Tail(s) \in Seq(Job)
      /\ Len(Tail(s)) = Len(s) - 1
      /\ \A i \in 1..Len(Tail(s)) : Tail(s)[i] = s[i + 1]
  BY HeadTailProperties
<1>2. Len(s) \in Nat \ {0} /\ Head(s) = s[1]
  OBVIOUS
<1>3. DOMAIN s = 1..Len(s) /\ DOMAIN Tail(s) = 1..Len(s) - 1
  BY <1>1
<1>4. \A i \in 1..Len(s) - 1 : /\ i + 1 \in 1..Len(s) /\ i + 1 # 1
                                /\ Tail(s)[i] = s[i + 1]
  BY <1>1, <1>2
<1>5. 1 \in DOMAIN s
  BY <1>2, <1>3
<1>6. Head(s).task \in TasksOf(s) /\ TasksOf(Tail(s)) \subseteq TasksOf(s)
  BY <1>2, <1>3, <1>4, <1>5 DEF TasksOf
<1>7. ASSUME Distinct(s)
      PROVE  Distinct(Tail(s)) /\ Head(s).task \notin TasksOf(Tail(s))
  <2>1. Distinct(Tail(s))
    <3> SUFFICES ASSUME NEW i \in 1..Len(s) - 1, NEW k \in 1..Len(s) - 1,
                        Tail(s)[i].task = Tail(s)[k].task
                 PROVE  i = k
      BY <1>3 DEF Distinct
    <3>1. i + 1 = k + 1
      BY <1>3, <1>4, <1>7 DEF Distinct
    <3> QED
      BY <3>1, <1>2
  <2>2. Head(s).task \notin TasksOf(Tail(s))
    BY <1>2, <1>3, <1>4, <1>5, <1>7 DEF TasksOf, Distinct
  <2> QED
    BY <2>1, <2>2
<1> QED
  BY <1>1, <1>6, <1>7

(* What SetObject and Reload do to the copies of the API process. *)
LEMMA SetObjectSets ==
  ASSUME TypeOK, NEW c \in Clients, asked[c] \in Tasks, NEW value \in Answer,
         SetObject(c, value)
  PROVE  /\ tasks' \in [Tasks -> Answer \union {None}]
         /\ own' \in [Clients -> Answer \union {None}]
         /\ own[c] = None => tasks'[asked[c]] = value
         /\ \A t \in Tasks : tasks'[t] = tasks[t] \/ (t = asked[c] /\ tasks'[t] = value)
         /\ \A d \in Clients : own'[d] = own[d] \/ (d = c /\ own'[d] = value)
         /\ \A d \in Clients : own'[d] = None <=> own[d] = None
<1>1. CASE own[c] = None
  BY <1>1 DEF SetObject, TypeOK
<1>2. CASE own[c] # None
  <2>1. value # None
    BY NoneAssumption
  <2> QED
    BY <1>2, <2>1 DEF SetObject, TypeOK
<1> QED
  BY <1>1, <1>2

LEMMA ReloadSets ==
  ASSUME TypeOK, NEW t \in Tasks, NEW value \in Answer, Reload(t, value)
  PROVE  /\ tasks' \in [Tasks -> Answer \union {None}]
         /\ own' \in [Clients -> Answer \union {None}]
         /\ \A u \in Tasks : tasks'[u] = IF u = t THEN value ELSE tasks[u]
         /\ \A d \in Clients : \/ own'[d] = own[d]
                               \/ asked[d] = t /\ own'[d] = tasks[t]
<1>1. /\ tasks' = [tasks EXCEPT ![t] = value]
      /\ own' = [c \in Clients |-> IF asked[c] = t /\ own[c] = None
                                   THEN tasks[t] ELSE own[c]]
  BY DEF Reload
<1>2. /\ tasks \in [Tasks -> Answer \union {None}]
      /\ own \in [Clients -> Answer \union {None}]
  BY DEF TypeOK
<1>3. own' \in [Clients -> Answer \union {None}]
  BY <1>1, <1>2
<1>4. ASSUME NEW d \in Clients
      PROVE  own'[d] = own[d] \/ (asked[d] = t /\ own'[d] = tasks[t])
  <2>1. own'[d] = IF asked[d] = t /\ own[d] = None THEN tasks[t] ELSE own[d]
    BY <1>1
  <2> QED
    BY <2>1
<1> QED
  BY <1>1, <1>2, <1>3, <1>4

(* A request that streams an answer works with an object. *)
LEMMA ObjectIsAnswer ==
  ASSUME TypeOK, Defined, NEW c \in Clients, place[c] \in Holding
  PROVE  asked[c] \in Tasks /\ Object(c) \in Answer
<1>1. asked[c] \in Tasks
  BY DEF TypeOK, Defined, RequestDefined, Holding
<1>2. tasks[asked[c]] # None
  BY DEF Defined, RequestDefined, Holding
<1> QED
  BY <1>1, <1>2 DEF Object, TypeOK

-----------------------------------------------------------------------------
LEMMA CInvInit == Init => CInv
<1> SUFFICES ASSUME Init PROVE CInv
  OBVIOUS
<1>1. TypeOK
  <2>1. NewTask \in Answer
    BY DEF NewTask, Answer, Status
  <2>2. <<>> \in Seq(Job)
    BY EmptySeq
  <2> QED
    BY <2>1, <2>2, ChatAssumption DEF Init, TypeOK
<1>2. QueuedTasks = {}
  BY DEF Init, QueuedTasks, TasksOf
<1>3. Distinct(jobs)
  BY DEF Init, Distinct
<1>4. Defined /\ Registered /\ Alone /\ OneJob
  BY <1>2, <1>3 DEF Init, Defined, WorkerDefined, RequestDefined, Registered, Alone, OneJob, Handled, Early, Choosing, Holding
<1>5. Honest
  BY DEF Init, Honest, Claims
<1>6. Budget
  BY <1>2 DEF Init, Budget, Pending, Handled
<1> QED
  BY <1>1, <1>4, <1>5, <1>6 DEF CInv

-----------------------------------------------------------------------------
(* Every step keeps the types. *)
LEMMA TypeStep ==
  ASSUME TypeOK, Defined, Registered, [Next]_vars
  PROVE  TypeOK'
<1> USE NoneAssumption, ChatAssumption
<1>0. /\ \A c \in Clients : place[c] # "idle" => asked[c] \in Tasks
      /\ NewTask \in Answer
      /\ jobs \in Seq(Job) /\ hand \in Job \union {None} /\ data \in Answer
  BY DEF TypeOK, Defined, RequestDefined, NewTask, Answer, Status
<1>1. ASSUME UNCHANGED vars PROVE TypeOK'
  BY <1>1 DEF TypeOK, vars, redis, queue, worker, api, stop
<1>2. ASSUME NEW c \in Clients, Receive(c) PROVE TypeOK'
  <2>1. CASE AskAgain(c)
    <3>1. asked' \in [Clients -> Tasks \union {None}]
      <4>1. RunningHere \subseteq Tasks /\ RunningHere # {}
        BY <2>1 DEF AskAgain, RunningHere
      <4> QED
        BY <2>1, <4>1 DEF AskAgain, TypeOK
    <3> QED
      BY <2>1, <3>1 DEF AskAgain, Go, TypeOK, redis, queue, worker, stop
  <2>2. CASE Ask(c)
    BY <2>2 DEF Ask, Go, TypeOK, redis, queue, worker, stop
  <2> QED
    BY <1>2, <2>1, <2>2 DEF Receive
<1>3. ASSUME NEW c \in Clients, Claim(c) \/ Seize(c) PROVE TypeOK'
  <2>1. asked[c] \in Tasks
    BY <1>0, <1>3 DEF Claim, Seize
  <2>2. CASE Register(c)
    BY <1>0, <1>3, <2>1, <2>2 DEF Claim, Seize, Register, Go, TypeOK, queue, worker, stop
  <2>3. CASE ~Register(c)
    BY <1>3, <2>3 DEF Claim, Seize, Go, TypeOK, queue, worker, stop
  <2> QED
    BY <2>2, <2>3
<1>4. ASSUME NEW c \in Clients, ReadHolder(c) PROVE TypeOK'
  BY <1>4 DEF ReadHolder, Go, TypeOK, redis, queue, worker, stop
<1>5. ASSUME NEW c \in Clients, LoadHolder(c) PROVE TypeOK'
  <2>1. holder[c] \in Tasks
    BY <1>5 DEF LoadHolder, Defined, RequestDefined, TypeOK
  <2>2. /\ tasks' \in [Tasks -> Answer \union {None}]
        /\ own' \in [Clients -> Answer \union {None}]
    <3>1. CASE stored[holder[c]] = None
      BY <1>5, <3>1 DEF LoadHolder, TypeOK
    <3>2. CASE stored[holder[c]] # None
      <4>1. stored[holder[c]] \in Answer /\ Reload(holder[c], stored[holder[c]])
        BY <1>5, <2>1, <3>2 DEF LoadHolder, TypeOK
      <4> QED
        BY <2>1, <4>1, ReloadSets
    <3> QED
      BY <3>1, <3>2
  <2> QED
    BY <1>5, <2>1, <2>2 DEF LoadHolder, Go, TypeOK, redis, queue, worker, stop
<1>6. ASSUME NEW c \in Clients, Save(c) \/ SaveQueued(c) \/ Expire(c) PROVE TypeOK'
  <2>1. asked[c] \in Tasks /\ Object(c) \in Answer
    BY <1>6, ObjectIsAnswer DEF Save, SaveQueued, Expire, Holding
  <2> QED
    <3>1. stored' \in [Tasks -> Answer \union {None}]
      BY <1>6, <2>1 DEF Save, SaveQueued, Expire, TypeOK
    <3>2. PICK where \in {"enqueue", "refresh", "answer"} : Go(c, where)
      BY <1>6 DEF Save, SaveQueued, Expire
    <3>3. UNCHANGED <<cancel, dedupe, messages, queue, worker, tasks, asked, own,
                      holder, sent, stop, counts>>
      BY <1>6 DEF Save, SaveQueued, Expire
    <3> QED
      BY <3>1, <3>2, <3>3 DEF Go, TypeOK, queue, worker, stop
<1>7. ASSUME NEW c \in Clients, Enqueue(c) PROVE TypeOK'
  <2>1. asked[c] \in Tasks /\ Object(c) \in Answer
    BY <1>7, ObjectIsAnswer DEF Enqueue, Holding
  <2>2. jobs' \in Seq(Job)
    <3>1. [task |-> asked[c], attempts |-> 0] \in Job
      BY <2>1 DEF Job
    <3> QED
      BY <1>0, <1>7, <3>1, AppendJob DEF Enqueue
  <2>3. /\ tasks' \in [Tasks -> Answer \union {None}]
        /\ own' \in [Clients -> Answer \union {None}]
    <3>1. [Object(c) EXCEPT !.status = "failed"] \in Answer
      BY <2>1 DEF Answer, Status
    <3> QED
      BY <1>7, <2>1, <3>1, SetObjectSets DEF Enqueue, TypeOK
  <2> QED
    BY <1>7, <2>2, <2>3 DEF Enqueue, Go, TypeOK, redis, worker, stop
<1>8. ASSUME NEW c \in Clients, Refresh(c) \/ Overdue(c) PROVE TypeOK'
  <2>1. asked[c] \in Tasks /\ Object(c) \in Answer
    BY <1>8, ObjectIsAnswer DEF Refresh, Overdue, Holding
  <2>2. PICK value \in Answer : Shows(c, value)
    <3>1. CASE Refresh(c)
      BY <2>1, <3>1 DEF Refresh, TypeOK
    <3>2. CASE Overdue(c)
      <4>1. stored[asked[c]] \in Answer
        BY <2>1, <3>2 DEF Overdue, TypeOK
      <4>2. [stored[asked[c]] EXCEPT !.status = "failed"] \in Answer
        BY <4>1 DEF Answer, Status
      <4> QED
        BY <3>2, <4>2 DEF Overdue
    <3> QED
      BY <1>8, <3>1, <3>2
  <2>3. /\ tasks' \in [Tasks -> Answer \union {None}]
        /\ own' \in [Clients -> Answer \union {None}]
    BY <2>1, <2>2, SetObjectSets DEF Shows
  <2>4. sent' \in [Clients -> Nat]
    BY <2>2 DEF Shows, TypeOK, Answer
  <2> QED
    BY <1>8, <2>3, <2>4 DEF Refresh, Overdue, Go, TypeOK, redis, queue, worker, stop
<1>9. ASSUME NEW c \in Clients, Continue(c) \/ End(c) \/ Disconnect(c) PROVE TypeOK'
  <2>1. CASE Continue(c)
    BY <2>1 DEF Continue, Go, TypeOK, redis, queue, worker, stop
  <2>2. CASE End(c) \/ Disconnect(c)
    <3>1. UNCHANGED <<redis, queue, worker, tasks, holder, stop, counts>>
      BY <2>2 DEF End, Disconnect
    <3>2. /\ Go(c, "idle") /\ asked' = [asked EXCEPT ![c] = None]
          /\ own' = [own EXCEPT ![c] = None] /\ sent' = [sent EXCEPT ![c] = 0]
      BY <2>2 DEF End, Disconnect
    <3> QED
      BY <3>1, <3>2 DEF Go, TypeOK, redis, queue, worker, stop
  <2> QED
    BY <1>9, <2>1, <2>2
<1>10. ASSUME NEW t \in Tasks, Stop(t) PROVE TypeOK'
  <2> DEFINE stopped == [stored[t] EXCEPT !.status = "stopped"]
  <2>1. stored[t] \in Answer
    BY <1>10 DEF Stop, TypeOK
  <2>2. stopped \in Answer
    BY <2>1 DEF Answer, Status
  <2>3. Reload(t, stopped) /\ stopping' = [task |-> t, record |-> stopped, saved |-> FALSE]
    BY <1>10 DEF Stop
  <2> HIDE DEF stopped
  <2>4. /\ tasks' \in [Tasks -> Answer \union {None}]
        /\ own' \in [Clients -> Answer \union {None}]
    BY <2>2, <2>3, ReloadSets
  <2>5. stopping' \in Stopping
    BY <2>2, <2>3 DEF Stopping
  <2> QED
    BY <1>10, <2>4, <2>5 DEF Stop, TypeOK, redis, queue, worker
<1>11. ASSUME StopStep PROVE TypeOK'
  <2>1. CASE StopSave
    <3>1. stopping \in Stopping /\ stopping.task \in Tasks /\ stopping.record \in Answer
      BY <2>1 DEF StopSave, TypeOK, Stopping
    <3>2. stopping' \in Stopping /\ stored' \in [Tasks -> Answer \union {None}]
      BY <2>1, <3>1 DEF StopSave, TypeOK, Stopping
    <3> QED
      BY <2>1, <3>2 DEF StopSave, TypeOK, queue, worker, api
  <2>2. CASE StopSignal
    <3>1. cancel' \subseteq Tasks
      BY <2>2 DEF StopSignal, TypeOK, Stopping
    <3> QED
      BY <2>2, <3>1 DEF StopSignal, TypeOK, queue, worker, api
  <2> QED
    BY <1>11, <2>1, <2>2 DEF StopStep
<1>12. ASSUME Take PROVE TypeOK'
  <2>1. hand' \in Job /\ hand'.task \in QueuedTasks /\ jobs' \in Seq(Job)
    BY <1>0, <1>12, TailJob DEF Take, QueuedTasks
  <2>2. hand'.task \in Tasks /\ stored[hand'.task] \in Answer
    BY <2>1 DEF Registered, TypeOK, Job
  <2>3. data' \in Answer
    BY <1>0, <1>12, <2>2 DEF Take
  <2> QED
    BY <1>12, <2>1, <2>3 DEF Take, TypeOK, redis, api, stop
<1>13. ASSUME Persist \/ Keep \/ Conclude \/ Release PROVE TypeOK'
  <2>1. hand \in Job
    BY <1>0, <1>13 DEF Persist, Keep, Conclude, Release, Defined, WorkerDefined
  <2>2. hand.task \in Tasks
    BY <2>1 DEF Job
  <2> QED
    <3>1. CASE Persist
      BY <2>2, <3>1 DEF Persist, TypeOK, queue, api, stop
    <3>2. CASE Keep \/ Conclude
      <4>1. stored' \in [Tasks -> Answer \union {None}]
        BY <1>0, <2>2, <3>2 DEF Keep, Conclude, TypeOK
      <4>2. event' = event \/ event' = "status"
        BY <3>2 DEF Keep, Conclude
      <4>3. work' \in {"conclude", "run", "release"}
        BY <3>2 DEF Keep, Conclude
      <4>4. UNCHANGED <<cancel, dedupe, messages, queue, at, data, api, stop, counts>>
        BY <3>2 DEF Keep, Conclude
      <4> QED
        BY <4>1, <4>2, <4>3, <4>4 DEF TypeOK, queue, api, stop
    <3>3. CASE Release
      BY <2>2, <3>3 DEF Release, TypeOK, queue, api, stop
    <3> QED
      BY <1>13, <3>1, <3>2, <3>3
<1>14. ASSUME Obey \/ Raise PROVE TypeOK'
  <2>1. again' \in Nat
    BY <1>14 DEF Obey, Raise, TypeOK
  <2> QED
    BY <1>14, <2>1 DEF Obey, Raise, TypeOK, Answer, Status, redis, queue, api, stop
<1>15. ASSUME Apply PROVE TypeOK'
  <2>1. event' \in {"status", "text", "error", "citations", "done"}
    BY <1>15 DEF Apply, EventsAt
  <2>2. data' \in Answer
    <3>1. /\ [data EXCEPT !.text = IF @ = 0 THEN 1 ELSE 2] \in Answer
          /\ [data EXCEPT !.status = "completed"] \in Answer
          /\ [data EXCEPT !.status = "failed"] \in Answer
      BY <1>0 DEF Answer, Status
    <3> QED
      BY <1>0, <1>15, <2>1, <3>1 DEF Apply
  <2>3. at' \in 0..5
    BY <1>15 DEF Apply, TypeOK, Defined, WorkerDefined
  <2> QED
    BY <1>15, <2>1, <2>2, <2>3 DEF Apply, TypeOK, redis, queue, api, stop
<1>16. ASSUME Leave PROVE TypeOK'
  <2>1. hand \in Job
    BY <1>0, <1>16 DEF Leave, Defined, WorkerDefined
  <2>2. jobs' \in Seq(Job)
    <3>1. CASE event = "raised" /\ hand.attempts < MaxRetry
      <4>1. [hand EXCEPT !.attempts = @ + 1] \in Job
        BY <2>1, <3>1 DEF Job
      <4> QED
        BY <1>0, <1>16, <3>1, <4>1, AppendJob DEF Leave
    <3>2. CASE ~(event = "raised" /\ hand.attempts < MaxRetry)
      BY <1>0, <1>16, <3>2 DEF Leave
    <3> QED
      BY <3>1, <3>2
  <2> QED
    BY <1>0, <1>16, <2>2 DEF Leave, TypeOK, redis, api, stop
<1>17. ASSUME Die PROVE TypeOK'
  BY <1>0, <1>17 DEF Die, TypeOK, redis, queue, api, stop
<1>18. ASSUME Restart PROVE TypeOK'
  <2>1. jobs' \in Seq(Job)
    BY <1>0, <1>18, AppendJob DEF Restart
  <2> QED
    BY <1>18, <2>1 DEF Restart, TypeOK, redis, api, stop
<1>19. ASSUME Break PROVE TypeOK'
  <2>1. again' \in Nat /\ unsaved' \in Nat
    BY <1>19 DEF Break, TypeOK
  <2>2. cancel' \subseteq Tasks /\ dedupe' \in Tasks \union {None}
    BY <1>19 DEF Break, TypeOK
  <2> QED
    BY <1>19, <2>1, <2>2 DEF Break, TypeOK, queue, api, stop
<1> QED
  BY <1>1, <1>2, <1>3, <1>4, <1>5, <1>6, <1>7, <1>8, <1>9, <1>10, <1>11, <1>12,
     <1>13, <1>14, <1>15, <1>16, <1>17, <1>18, <1>19
  DEF Next, Proceed, WorkerStep

(* Where the worker and the requests are keeps saying what they have.      *)
LEMMA WorkerDefinedStep ==
  ASSUME TypeOK, Defined, [Next]_vars
  PROVE  WorkerDefined'
<1> USE NoneAssumption DEF WorkerDefined
<1>0. WorkerDefined
  BY DEF Defined
<1>1. ASSUME UNCHANGED <<hand, worker>> PROVE WorkerDefined'
  BY <1>0, <1>1 DEF worker
<1>2. ASSUME NEW c \in Clients,
             Receive(c) \/ Proceed(c) \/ Overdue(c) \/ Disconnect(c)
      PROVE  WorkerDefined'
  BY <1>1, <1>2 DEF Receive, AskAgain, Ask, Proceed, Claim, ReadHolder, LoadHolder,
     Seize, Save, Enqueue, SaveQueued, Refresh, Expire, Continue, End, Overdue,
     Disconnect, queue
<1>3. ASSUME (\E t \in Tasks : Stop(t)) \/ StopStep PROVE WorkerDefined'
  BY <1>1, <1>3 DEF Stop, StopStep, StopSave, StopSignal, queue
<1>4. ASSUME Take PROVE WorkerDefined'
  <2>1. hand' \in Job
    BY <1>4, TailJob DEF Take, TypeOK
  <2> QED
    BY <1>0, <1>4, <2>1 DEF Take
<1>5. ASSUME Apply PROVE WorkerDefined'
  <2>1. hand' = hand /\ work' = "keep" /\ at' = at + 1 /\ at \in 0..4 /\ hand # None
    BY <1>0, <1>5 DEF Apply, TypeOK, queue
  <2>2. /\ event' \in {"status", "text", "error", "citations", "done"}
        /\ at = 4 => event' = "done"
    BY <1>5 DEF Apply, EventsAt
  <2> QED
    BY <2>1, <2>2
<1>6. ASSUME Persist \/ Obey \/ Raise PROVE WorkerDefined'
  BY <1>0, <1>6 DEF Persist, Obey, Raise, queue
<1>7. ASSUME Keep PROVE WorkerDefined'
  BY <1>0, <1>7 DEF Keep, queue
<1>8. ASSUME Conclude \/ Release \/ Break PROVE WorkerDefined'
  BY <1>0, <1>8 DEF Conclude, Release, Break, queue
<1>9. ASSUME Leave \/ Die PROVE WorkerDefined'
  BY <1>0, <1>9 DEF Leave, Die, queue
<1>10. ASSUME Restart PROVE WorkerDefined'
  BY <1>0, <1>10 DEF Restart
<1>11. ASSUME UNCHANGED vars PROVE WorkerDefined'
  BY <1>1, <1>11 DEF vars, queue
<1> QED
  BY <1>2, <1>3, <1>4, <1>5, <1>6, <1>7, <1>8, <1>9, <1>10, <1>11 DEF Next, WorkerStep

(* An object is handed on only to requests that stream the answer. *)
LEMMA ReloadKeeps ==
  ASSUME TypeOK, Defined, Alone, NEW t \in Tasks, tasks[t] # None,
         NEW value \in Answer, Reload(t, value)
  PROVE  /\ \A c \in Clients : place[c] \notin Holding => own'[c] = own[c]
         /\ \A u \in Tasks : tasks[u] # None => tasks'[u] # None
<1>1. ASSUME NEW c \in Clients, place[c] \notin Holding PROVE asked[c] # t
  <2>1. place[c] = "idle" \/ place[c] \in Choosing
    BY <1>1 DEF TypeOK, Holding, Choosing
  <2>2. CASE place[c] = "idle"
    BY <2>2, NoneAssumption DEF Defined, RequestDefined
  <2>3. CASE place[c] \in Choosing
    BY <2>3 DEF Alone
  <2> QED
    BY <2>1, <2>2, <2>3
<1> QED
  BY <1>1, ReloadSets, NoneAssumption

(* Of several tasks AskAgain finds the first. *)
LEMMA SmallestTask ==
  ASSUME NEW T \in SUBSET Tasks, T # {}
  PROVE  (CHOOSE t \in T : \A u \in T : t <= u) \in T
<1>1. T \subseteq Nat
  BY ChatAssumption DEF Tasks
<1>2. PICK t \in T : \A u \in T : ~ (<<u, t>> \in OpToRel(<, Nat))
  BY <1>1, NatLessThanWellFounded, WFMin
<1>3. \A u \in T : t \in Nat /\ u \in Nat /\ ~ (u < t)
  BY <1>1, <1>2 DEF OpToRel
<1>4. \A u \in T : t <= u
  BY <1>3
<1> QED
  BY <1>4

LEMMA RequestDefinedStep ==
  ASSUME TypeOK, Defined, Registered, Alone, [Next]_vars
  PROVE  \A c \in Clients : RequestDefined(c)'
<1> SUFFICES ASSUME NEW c \in Clients PROVE RequestDefined(c)'
  OBVIOUS
<1> USE NoneAssumption DEF RequestDefined
<1>0. /\ RequestDefined(c) /\ NewTask \in Answer
      /\ asked[c] \in Tasks \union {None} /\ holder[c] \in Tasks \union {None}
      /\ \A d \in Clients : asked[d] \in Tasks \union {None}
      /\ place[c] \in {"idle"} \union Choosing \union Holding
  BY DEF Defined, TypeOK, NewTask, Answer, Status, Choosing, Holding
(* What the other requests and the worker may do.                          *)
<1>1. ASSUME place'[c] = place[c], asked'[c] = asked[c], holder'[c] = holder[c],
             place[c] \notin Holding => own'[c] = own[c],
             \A t \in Tasks : tasks[t] # None => tasks'[t] # None,
             \A t \in Tasks : stored[t] # None => stored'[t] # None
      PROVE  RequestDefined(c)'
  BY <1>0, <1>1 DEF Holding
<1>2. ASSUME NEW d \in Clients, Receive(d) PROVE RequestDefined(c)'
  <2>1. CASE d = c
    <3>1. CASE AskAgain(c)
      <4>1. RunningHere \subseteq Tasks /\ RunningHere # {}
        BY <3>1 DEF AskAgain, RunningHere
      <4>2. asked'[c] \in RunningHere
        <5>1. asked'[c] = CHOOSE t \in RunningHere : \A u \in RunningHere : t <= u
          BY <3>1 DEF AskAgain, TypeOK
        <5>2. PICK k \in RunningHere : TRUE
          BY <4>1
        <5> HIDE DEF RunningHere
        <5> QED
          BY <4>1, <5>1, <5>2, SmallestTask
      <4> QED
        BY <1>0, <3>1, <4>1, <4>2 DEF AskAgain, Go, TypeOK, RunningHere, Holding, Choosing
    <3>2. CASE Ask(c)
      BY <1>0, <3>2 DEF Ask, Go, TypeOK, Holding, Choosing
    <3> QED
      BY <1>2, <2>1, <3>1, <3>2 DEF Receive
  <2>2. CASE d # c
    BY <1>1, <1>2, <2>2 DEF Receive, AskAgain, Ask, Go, TypeOK, redis
  <2> QED
    BY <2>1, <2>2
<1>3. ASSUME NEW d \in Clients, Claim(d) \/ Seize(d) PROVE RequestDefined(c)'
  <2>1. asked[d] \in Tasks
    BY <1>0, <1>3 DEF Claim, Seize, Defined
  <2>2. UNCHANGED <<asked, own, holder, stored>>
    BY <1>3 DEF Claim, Seize
  <2>3. CASE d = c
    <3>1. CASE Register(c)
      BY <1>0, <1>3, <2>1, <2>2, <2>3, <3>1 DEF Claim, Seize, Register, Go, TypeOK, Holding, Choosing
    <3>2. CASE ~Register(c)
      BY <1>0, <1>3, <2>2, <2>3, <3>2 DEF Claim, Seize, Go, TypeOK, Holding, Choosing
    <3> QED
      BY <3>1, <3>2
  <2>4. CASE d # c
    <3>1. place'[c] = place[c]
      BY <1>3, <2>4 DEF Claim, Seize, Register, Go, TypeOK
    <3>2. \A t \in Tasks : tasks[t] # None => tasks'[t] # None
      BY <1>0, <1>3, <2>1 DEF Claim, Seize, Register, TypeOK
    <3> QED
      BY <1>1, <2>2, <3>1, <3>2
  <2> QED
    BY <2>3, <2>4
<1>4. ASSUME NEW d \in Clients, ReadHolder(d) PROVE RequestDefined(c)'
  <2>1. dedupe # None => tasks[dedupe] # None
    BY DEF Registered
  <2>2. UNCHANGED <<tasks, stored, asked, own>>
    BY <1>4 DEF ReadHolder, redis
  <2>3. CASE d = c
    BY <1>0, <1>4, <2>1, <2>2, <2>3 DEF ReadHolder, Go, TypeOK, Holding, Choosing
  <2>4. CASE d # c
    BY <1>1, <1>4, <2>2, <2>4 DEF ReadHolder, Go, TypeOK
  <2> QED
    BY <2>3, <2>4
<1>5. ASSUME NEW d \in Clients, LoadHolder(d) PROVE RequestDefined(c)'
  <2>1. holder[d] \in Tasks /\ tasks[holder[d]] # None /\ stored' = stored
    BY <1>5 DEF LoadHolder, Defined, TypeOK, redis
  <2>2. /\ place[c] \notin Holding => own'[c] = own[c]
        /\ \A t \in Tasks : tasks[t] # None => tasks'[t] # None
    <3>1. CASE stored[holder[d]] = None
      BY <1>5, <3>1 DEF LoadHolder
    <3>2. CASE stored[holder[d]] # None
      <4>1. stored[holder[d]] \in Answer /\ Reload(holder[d], stored[holder[d]])
        BY <1>5, <2>1, <3>2 DEF LoadHolder, TypeOK
      <4> QED
        BY <2>1, <4>1, ReloadKeeps
    <3> QED
      BY <3>1, <3>2
  <2>3. CASE d = c
    BY <1>0, <1>5, <2>1, <2>2, <2>3 DEF LoadHolder, Go, TypeOK, Holding, Choosing
  <2>4. CASE d # c
    BY <1>1, <1>5, <2>1, <2>2, <2>4 DEF LoadHolder, Go, TypeOK
  <2> QED
    BY <2>3, <2>4
<1>6. ASSUME NEW d \in Clients,
             Save(d) \/ Enqueue(d) \/ SaveQueued(d) \/ Refresh(d) \/ Overdue(d) \/ Expire(d)
      PROVE  RequestDefined(c)'
  <2>1. asked[d] \in Tasks /\ Object(d) \in Answer /\ place[d] \in Holding
    BY <1>6, ObjectIsAnswer
    DEF Save, Enqueue, SaveQueued, Refresh, Overdue, Expire, Holding
  <2>2. /\ UNCHANGED <<asked, holder>>
        /\ \A e \in Clients \ {d} : place'[e] = place[e]
        /\ place'[d] \in Holding
    BY <1>6
    DEF Save, Enqueue, SaveQueued, Refresh, Overdue, Expire, Go, TypeOK, Holding
  <2>3. \A t \in Tasks : stored[t] # None => stored'[t] # None
    BY <1>6, <2>1 DEF Save, Enqueue, SaveQueued, Refresh, Overdue, Expire, TypeOK, redis
  <2>4. /\ \A t \in Tasks : tasks[t] # None => tasks'[t] # None
        /\ \A e \in Clients \ {d} : own'[e] = own[e]
    <3>1. CASE UNCHANGED <<tasks, own>>
      BY <3>1
    <3>2. ASSUME NEW value \in Answer, SetObject(d, value)
          PROVE  /\ \A t \in Tasks : tasks[t] # None => tasks'[t] # None
                 /\ \A e \in Clients \ {d} : own'[e] = own[e]
      BY <2>1, <3>2, SetObjectSets
    <3>3. /\ [Object(d) EXCEPT !.status = "failed"] \in Answer
          /\ stored[asked[d]] # None =>
               /\ stored[asked[d]] \in Answer
               /\ [stored[asked[d]] EXCEPT !.status = "failed"] \in Answer
      BY <2>1 DEF TypeOK, Answer, Status
    <3>4. CASE Save(d) \/ SaveQueued(d) \/ Expire(d)
      BY <3>1, <3>4 DEF Save, SaveQueued, Expire
    <3>5. CASE Enqueue(d)
      BY <3>1, <3>2, <3>3, <3>5 DEF Enqueue
    <3>6. CASE Refresh(d)
      BY <2>1, <3>2, <3>3, <3>6 DEF Refresh, Shows
    <3>7. CASE Overdue(d)
      BY <3>2, <3>3, <3>7 DEF Overdue, Shows
    <3> QED
      BY <1>6, <3>4, <3>5, <3>6, <3>7
  <2>5. CASE d = c
    <3>1. place'[c] = "enqueue" => stored'[asked[c]] # None
      BY <1>6, <2>1, <2>5
      DEF Save, Enqueue, SaveQueued, Refresh, Overdue, Expire, Go, TypeOK
    <3>2. place'[c] \notin {"idle", "load"}
      BY <2>2, <2>5 DEF Holding
    <3> QED
      BY <1>0, <2>1, <2>2, <2>4, <2>5, <3>1, <3>2
  <2>6. CASE d # c
    BY <1>1, <2>2, <2>3, <2>4, <2>6
  <2> QED
    BY <2>5, <2>6
<1>7. ASSUME NEW d \in Clients, Continue(d) \/ End(d) \/ Disconnect(d)
      PROVE  RequestDefined(c)'
  <2>1. UNCHANGED <<stored, tasks, holder>>
    BY <1>7 DEF Continue, End, Disconnect, redis
  <2>2. CASE d # c
    BY <1>1, <1>7, <2>1, <2>2 DEF Continue, End, Disconnect, Go, TypeOK
  <2>3. CASE d = c
    BY <1>0, <1>7, <2>1, <2>3 DEF Continue, End, Disconnect, Go, TypeOK, Holding
  <2> QED
    BY <2>2, <2>3
<1>8. ASSUME NEW t \in Tasks, Stop(t) PROVE RequestDefined(c)'
  <2>1. stored[t] \in Answer /\ tasks[t] # None
    BY <1>8 DEF Stop, TypeOK, Registered
  <2>2. PICK value \in Answer : Reload(t, value)
    <3>1. [stored[t] EXCEPT !.status = "stopped"] \in Answer
      BY <2>1 DEF Answer, Status
    <3> QED
      BY <1>8, <3>1 DEF Stop
  <2> QED
    BY <1>1, <1>8, <2>1, <2>2, ReloadKeeps DEF Stop, redis
<1>9. ASSUME StopStep \/ WorkerStep \/ Die \/ UNCHANGED vars PROVE RequestDefined(c)'
  <2>1. UNCHANGED api
    BY <1>9 DEF StopStep, StopSave, StopSignal, WorkerStep, Take, Persist, Obey, Apply,
       Keep, Raise, Conclude, Release, Break, Leave, Restart, Die, vars
  <2>2. \A t \in Tasks : stored[t] # None => stored'[t] # None
    <3>1. CASE StopSave
      BY <3>1 DEF StopSave, TypeOK, Stopping
    <3>2. CASE Keep \/ Conclude
      BY <3>2 DEF Keep, Conclude, TypeOK
    <3>3. CASE UNCHANGED stored
      BY <3>3
    <3> QED
      BY <1>9, <3>1, <3>2, <3>3 DEF StopStep, StopSignal, WorkerStep, Take, Persist, Obey,
         Apply, Raise, Release, Break, Leave, Restart, Die, vars, redis
  <2> QED
    BY <1>1, <2>1, <2>2 DEF api
<1> QED
  BY <1>2, <1>3, <1>4, <1>5, <1>6, <1>7, <1>8, <1>9 DEF Next, Proceed

-----------------------------------------------------------------------------
(* Records and registered objects stay. *)
LEMMA RecordsStay ==
  ASSUME TypeOK, Defined, Registered, Alone, [Next]_vars, NEW t \in Tasks
  PROVE  /\ tasks[t] # None => tasks'[t] # None
         /\ stored[t] # None => stored'[t] # None
<1> USE NoneAssumption
<1>0. NewTask \in Answer /\ data \in Answer
  BY DEF NewTask, Answer, Status, TypeOK
<1>1. stored[t] # None => stored'[t] # None
  <2>1. ASSUME NEW c \in Clients, Save(c) \/ SaveQueued(c) \/ Expire(c)
        PROVE  stored[t] # None => stored'[t] # None
    <3>1. asked[c] \in Tasks /\ Object(c) \in Answer
      BY <2>1, ObjectIsAnswer DEF Save, SaveQueued, Expire, Holding
    <3> QED
      BY <2>1, <3>1 DEF Save, SaveQueued, Expire, TypeOK
  <2>2. CASE StopSave
    BY <2>2 DEF StopSave, TypeOK, Stopping
  <2>3. CASE Keep \/ Conclude
    BY <1>0, <2>3 DEF Keep, Conclude, TypeOK
  <2>4. CASE UNCHANGED stored
    BY <2>4
  <2> QED
    BY <2>1, <2>2, <2>3, <2>4
    DEF Next, Receive, AskAgain, Ask, Proceed, Claim, ReadHolder, LoadHolder, Seize,
        Enqueue, Refresh, Continue, End, Overdue, Disconnect, Stop, StopStep, StopSignal,
        WorkerStep, Take, Persist, Obey, Apply, Raise, Release, Break, Leave, Restart, Die,
        vars, redis
<1>2. tasks[t] # None => tasks'[t] # None
  <2>1. ASSUME NEW c \in Clients, Claim(c) \/ Seize(c)
        PROVE  tasks[t] # None => tasks'[t] # None
    BY <1>0, <2>1 DEF Claim, Seize, Register, TypeOK
  <2>2. ASSUME NEW u \in Tasks, NEW value \in Answer, Reload(u, value)
        PROVE  tasks[t] # None => tasks'[t] # None
    BY <2>2, ReloadSets
  <2>3. ASSUME NEW c \in Clients, asked[c] \in Tasks, NEW value \in Answer,
               SetObject(c, value)
        PROVE  tasks[t] # None => tasks'[t] # None
    BY <2>3, SetObjectSets
  <2>4. ASSUME NEW c \in Clients, LoadHolder(c)
        PROVE  tasks[t] # None => tasks'[t] # None
    BY <2>2, <2>4 DEF LoadHolder, Defined, RequestDefined, TypeOK
  <2>5. ASSUME NEW c \in Clients, Enqueue(c) \/ Refresh(c) \/ Overdue(c)
        PROVE  tasks[t] # None => tasks'[t] # None
    <3>1. asked[c] \in Tasks /\ Object(c) \in Answer
      BY <2>5, ObjectIsAnswer DEF Enqueue, Refresh, Overdue, Holding
    <3>2. /\ [Object(c) EXCEPT !.status = "failed"] \in Answer
          /\ stored[asked[c]] # None =>
               /\ stored[asked[c]] \in Answer
               /\ [stored[asked[c]] EXCEPT !.status = "failed"] \in Answer
      BY <3>1 DEF TypeOK, Answer, Status
    <3> QED
      BY <2>3, <2>5, <3>1, <3>2 DEF Enqueue, Refresh, Overdue, Shows
  <2>6. ASSUME NEW u \in Tasks, Stop(u)
        PROVE  tasks[t] # None => tasks'[t] # None
    <3>1. [stored[u] EXCEPT !.status = "stopped"] \in Answer
      BY <2>6 DEF Stop, TypeOK, Answer, Status
    <3> QED
      BY <2>2, <2>6, <3>1 DEF Stop
  <2>7. CASE UNCHANGED tasks
    BY <2>7
  <2> QED
    BY <2>1, <2>4, <2>5, <2>6, <2>7
    DEF Next, Receive, AskAgain, Ask, Proceed, ReadHolder, Save, SaveQueued, Expire,
        Continue, End, Disconnect, StopStep, StopSave, StopSignal, WorkerStep, Take,
        Persist, Obey, Apply, Keep, Conclude, Raise, Release, Break, Leave, Restart, Die,
        vars, api
<1> QED
  BY <1>1, <1>2

(* A job comes to the queue from the request that enqueues it, from the    *)
(* worker when it failed, or from the hand of a worker that died.          *)
LEMMA JobsComeFromRequests ==
  ASSUME TypeOK, Defined, [Next]_vars, NEW t \in Tasks,
         t \in QueuedTasks' \/ Handled(t)'
  PROVE  \/ t \in QueuedTasks
         \/ Handled(t) /\ (t \in QueuedTasks' => event = "raised" \/ work = "down")
         \/ \E c \in Clients : Enqueue(c) /\ asked[c] = t
<1> USE NoneAssumption
<1>0. jobs \in Seq(Job) /\ hand \in Job \union {None}
  BY DEF TypeOK
<1>1. ASSUME UNCHANGED <<jobs, hand>> PROVE t \in QueuedTasks \/ (Handled(t) /\ t \notin QueuedTasks')
  BY <1>1 DEF QueuedTasks, TasksOf, Handled
<1>2. ASSUME NEW c \in Clients, Enqueue(c), ~UNCHANGED jobs
      PROVE  \/ t \in QueuedTasks \/ asked[c] = t
             \/ Handled(t) /\ t \notin QueuedTasks'
  <2>1. jobs' = Append(jobs, [task |-> asked[c], attempts |-> 0]) /\ hand' = hand
    BY <1>2 DEF Enqueue
  <2>2. [task |-> asked[c], attempts |-> 0] \in Job
    BY <1>2, ObjectIsAnswer, ChatAssumption DEF Enqueue, Holding, Job
  <2> QED
    BY <1>0, <2>1, <2>2, AppendJob DEF QueuedTasks, Handled
<1>3. ASSUME Take PROVE t \in QueuedTasks
  BY <1>0, <1>3, TailJob DEF Take, QueuedTasks, Handled
<1>4. ASSUME Leave \/ Restart, UNCHANGED jobs PROVE t \in QueuedTasks
  <2>1. hand' = None
    BY <1>4 DEF Leave, Restart
  <2> QED
    BY <1>4, <2>1 DEF QueuedTasks, Handled, TasksOf
<1>5. ASSUME Leave \/ Restart, ~UNCHANGED jobs
      PROVE  t \in QueuedTasks \/ (Handled(t) /\ (event = "raised" \/ work = "down"))
  <2>1. /\ hand \in Job /\ hand' = None /\ (event = "raised" \/ work = "down")
        /\ \/ jobs' = Append(jobs, hand)
           \/ /\ hand.attempts < MaxRetry
              /\ jobs' = Append(jobs, [hand EXCEPT !.attempts = @ + 1])
    BY <1>0, <1>5 DEF Leave, Restart, Defined, WorkerDefined
  <2>2. PICK job \in Job : jobs' = Append(jobs, job) /\ job.task = hand.task
    <3>1. /\ hand.attempts < MaxRetry => [hand EXCEPT !.attempts = @ + 1] \in Job
          /\ [hand EXCEPT !.attempts = @ + 1].task = hand.task
      BY <2>1, ChatAssumption DEF Job
    <3> QED
      BY <2>1, <3>1
  <2> QED
    BY <1>0, <2>1, <2>2, AppendJob DEF QueuedTasks, Handled
<1>6. ASSUME NEW c \in Clients, Enqueue(c) PROVE hand' = hand
  BY <1>6 DEF Enqueue
<1> QED
  BY <1>1, <1>2, <1>3, <1>4, <1>5, <1>6
  DEF Next, Receive, AskAgain, Ask, Proceed, Claim, ReadHolder, LoadHolder, Seize,
      Save, SaveQueued, Refresh, Expire, Continue, End, Overdue, Disconnect, Stop,
      StopStep, StopSave, StopSignal, WorkerStep, Persist, Obey, Apply, Keep, Raise,
      Conclude, Release, Break, Die, vars, queue

(* Only the worker with the task in its hand writes a message of it. *)
LEMMA MessagesComeFromTheWorker ==
  ASSUME TypeOK, Defined, [Next]_vars, NEW t \in Tasks
  PROVE  \/ messages'[t] = messages[t]
         \/ /\ Persist /\ hand # None /\ hand.task = t
            /\ messages'[t] = messages[t] + 1
<1>1. CASE Persist
  BY <1>1 DEF Persist, Defined, WorkerDefined, TypeOK
<1>2. CASE UNCHANGED messages
  BY <1>2
<1> QED
  BY <1>1, <1>2
  DEF Next, Receive, AskAgain, Ask, Proceed, Claim, ReadHolder, LoadHolder, Seize,
      Save, Enqueue, SaveQueued, Refresh, Expire, Continue, End, Overdue, Disconnect,
      Stop, StopStep, StopSave, StopSignal, WorkerStep, Take, Obey, Apply, Keep, Raise,
      Conclude, Release, Break, Leave, Restart, Die, vars, redis

LEMMA RegisteredStep ==
  ASSUME TypeOK, Defined, Registered, Alone, [Next]_vars
  PROVE  Registered'
<1> USE NoneAssumption
<1>1. dedupe' # None => tasks'[dedupe'] # None
  <2>1. ASSUME NEW c \in Clients, Claim(c) \/ Seize(c), UNCHANGED dedupe => FALSE
        PROVE  dedupe' # None => tasks'[dedupe'] # None
    <3>1. asked[c] \in Tasks /\ NewTask # None
      BY <2>1 DEF Claim, Seize, Defined, RequestDefined, TypeOK, NewTask, Answer, Status
    <3> QED
      BY <2>1, <3>1 DEF Claim, Seize, Register, TypeOK
  <2>2. CASE Release
    BY <2>2 DEF Release
  <2>3. CASE UNCHANGED dedupe
    BY <2>3, RecordsStay DEF Registered, TypeOK
  <2> QED
    BY <2>1, <2>2, <2>3
    DEF Next, Receive, AskAgain, Ask, Proceed, ReadHolder, LoadHolder, Save, Enqueue,
        SaveQueued, Refresh, Expire, Continue, End, Overdue, Disconnect, Stop, StopStep,
        StopSave, StopSignal, WorkerStep, Take, Persist, Obey, Apply, Keep, Raise,
        Conclude, Break, Leave, Restart, Die, vars, redis
<1>2. stopping' # None => tasks'[stopping'.task] # None
  <2>1. ASSUME NEW t \in Tasks, Stop(t)
        PROVE  stopping' # None => tasks'[stopping'.task] # None
    <3>1. tasks[t] # None /\ stopping'.task = t
      BY <2>1 DEF Stop, Registered
    <3> QED
      BY <3>1, RecordsStay
  <2>2. CASE StopStep
    <3>1. stopping # None /\ stopping.task \in Tasks
      BY <2>2 DEF StopStep, StopSave, StopSignal, TypeOK, Stopping
    <3>2. stopping' = None \/ stopping'.task = stopping.task
      BY <2>2 DEF StopStep, StopSave, StopSignal, TypeOK, Stopping
    <3> QED
      BY <3>1, <3>2, RecordsStay DEF Registered
  <2>3. CASE UNCHANGED stopping
    <3>1. stopping # None => stopping.task \in Tasks
      BY DEF TypeOK, Stopping
    <3> QED
      BY <2>3, <3>1, RecordsStay DEF Registered
  <2> QED
    BY <2>1, <2>2, <2>3
    DEF Next, Receive, AskAgain, Ask, Proceed, Claim, ReadHolder, LoadHolder, Seize,
        Save, Enqueue, SaveQueued, Refresh, Expire, Continue, End, Overdue, Disconnect,
        WorkerStep, Take, Persist, Obey, Apply, Keep, Raise, Conclude, Release, Break, Leave,
        Restart, Die, vars, stop
<1>3. ASSUME NEW t \in Tasks, tasks'[t] = None
      PROVE  stored'[t] = None /\ messages'[t] = 0
  <2>1. tasks[t] = None /\ stored[t] = None /\ messages[t] = 0
    BY <1>3, RecordsStay DEF Registered
  <2>2. ~Handled(t)
    BY <2>1 DEF Registered
  <2>3. messages'[t] = 0
    BY <2>1, <2>2, MessagesComeFromTheWorker DEF Handled
  <2>4. ASSUME NEW c \in Clients, Save(c) \/ SaveQueued(c) \/ Expire(c)
        PROVE  stored'[t] = None
    <3>1. tasks[asked[c]] # None
      BY <2>4 DEF Save, SaveQueued, Expire, Defined, RequestDefined, Holding
    <3> QED
      BY <2>1, <2>4, <3>1 DEF Save, SaveQueued, Expire, TypeOK
  <2>5. ASSUME StopSave PROVE stored'[t] = None
    <3>1. stopping # None /\ stored' = [stored EXCEPT ![stopping.task] = stopping.record]
      BY <2>5 DEF StopSave
    <3>2. stopping.task # t
      BY <2>1, <3>1 DEF Registered
    <3> QED
      BY <2>1, <3>1, <3>2 DEF TypeOK
  <2>6. ASSUME Keep \/ Conclude PROVE stored'[t] = None
    <3>1. hand # None /\ hand.task # t
      BY <2>2, <2>6 DEF Keep, Conclude, Defined, WorkerDefined, Handled
    <3>2. UNCHANGED stored \/ stored' = [stored EXCEPT ![hand.task] = data]
      BY <2>6 DEF Keep, Conclude
    <3> QED
      BY <2>1, <3>1, <3>2 DEF TypeOK
  <2>7. ASSUME UNCHANGED stored PROVE stored'[t] = None
    BY <2>1, <2>7
  <2>8. stored'[t] = None
    BY <2>4, <2>5, <2>6, <2>7
    DEF Next, Receive, AskAgain, Ask, Proceed, Claim, ReadHolder, LoadHolder, Seize,
        Enqueue, Refresh, Continue, End, Overdue, Disconnect, Stop, StopStep, StopSignal,
        WorkerStep, Take, Persist, Obey, Apply, Raise, Release, Break, Leave, Restart, Die,
        vars, redis
  <2> QED
    BY <2>3, <2>8
<1>4. ASSUME NEW t \in Tasks, t \in QueuedTasks' \/ Handled(t)'
      PROVE  stored'[t] # None
  <2>1. CASE t \in QueuedTasks \/ Handled(t)
    BY <2>1, RecordsStay DEF Registered
  <2>2. ASSUME NEW c \in Clients, Enqueue(c), asked[c] = t
        PROVE  stored'[t] # None
    BY <2>2, RecordsStay DEF Enqueue, Defined, RequestDefined
  <2> QED
    BY <1>4, <2>1, <2>2, JobsComeFromRequests
<1> QED
  BY <1>1, <1>2, <1>3, <1>4 DEF Registered

(* Only Ask makes a request choose a task; where else a request is early,  *)
(* it was early before, with the same task.                                *)
LEMMA RequestMoves ==
  ASSUME TypeOK, Defined, [Next]_vars, NEW c \in Clients, ~Ask(c)
  PROVE  /\ place'[c] \in Early => place[c] \in Early /\ asked'[c] = asked[c]
         /\ place'[c] \in Choosing => place[c] \in Choosing
         /\ \/ asked'[c] = asked[c] \/ asked'[c] = None
            \/ asked'[c] \in Tasks /\ tasks[asked'[c]] # None
<1> USE NoneAssumption DEF Early, Choosing
<1>1. ASSUME NEW d \in Clients, d # c,
             Receive(d) \/ Proceed(d) \/ Overdue(d) \/ Disconnect(d)
      PROVE  place'[c] = place[c] /\ asked'[c] = asked[c]
  <2>1. CASE Receive(d)
    BY <1>1, <2>1 DEF Receive, AskAgain, Ask, Go, TypeOK
  <2>2. CASE Claim(d) \/ Seize(d) \/ ReadHolder(d) \/ Save(d) \/ SaveQueued(d) \/ Enqueue(d)
    BY <1>1, <2>2
    DEF Claim, Seize, Register, ReadHolder, Save, SaveQueued, Enqueue, Go, TypeOK
  <2>3. CASE LoadHolder(d)
    BY <1>1, <2>3 DEF LoadHolder, Go, TypeOK
  <2>4. CASE \/ Refresh(d) \/ Overdue(d) \/ Expire(d) \/ Continue(d)
             \/ End(d) \/ Disconnect(d)
    BY <1>1, <2>4 DEF Refresh, Overdue, Expire, Continue, End, Disconnect, Go, TypeOK
  <2> QED
    BY <1>1, <2>1, <2>2, <2>3, <2>4 DEF Proceed
<1>2. CASE AskAgain(c)
  <2>1. RunningHere \in SUBSET Tasks /\ RunningHere # {}
    BY <1>2 DEF AskAgain, RunningHere
  <2>2. asked'[c] = CHOOSE t \in RunningHere : \A u \in RunningHere : t <= u
    BY <1>2 DEF AskAgain, TypeOK
  <2>3. asked'[c] \in RunningHere
    <3> HIDE DEF RunningHere
    <3> QED
      BY <2>1, <2>2, SmallestTask
  <2> QED
    BY <1>2, <2>3 DEF AskAgain, RunningHere, Go, TypeOK
<1>3. CASE LoadHolder(c)
  <2>1. holder[c] \in Tasks /\ tasks[holder[c]] # None
    BY <1>3 DEF LoadHolder, Defined, RequestDefined, TypeOK
  <2> QED
    BY <1>3, <2>1 DEF LoadHolder, Go, TypeOK
<1>4. CASE Claim(c) \/ Seize(c) \/ ReadHolder(c) \/ Save(c) \/ SaveQueued(c) \/ Enqueue(c)
  BY <1>4 DEF Claim, Seize, Register, ReadHolder, Save, SaveQueued, Enqueue, Go, TypeOK
<1>5. CASE \/ Refresh(c) \/ Overdue(c) \/ Expire(c) \/ Continue(c)
           \/ End(c) \/ Disconnect(c)
  BY <1>5 DEF Refresh, Overdue, Expire, Continue, End, Disconnect, Go, TypeOK
<1>6. CASE UNCHANGED <<place, asked>>
  BY <1>6
<1>7. ASSUME NEW d \in Clients, Receive(d) \/ Proceed(d) \/ Overdue(d) \/ Disconnect(d)
      PROVE  \/ d # c \/ UNCHANGED <<place, asked>>
             \/ \/ AskAgain(c) \/ LoadHolder(c) \/ Claim(c) \/ Seize(c) \/ ReadHolder(c)
                \/ Save(c) \/ SaveQueued(c) \/ Enqueue(c) \/ Refresh(c) \/ Overdue(c)
                \/ Expire(c) \/ Continue(c) \/ End(c) \/ Disconnect(c)
  BY <1>7 DEF Receive, Proceed
<1>8. ASSUME (\E t \in Tasks : Stop(t)) \/ StopStep \/ WorkerStep \/ Die \/ UNCHANGED vars
      PROVE  UNCHANGED <<place, asked>>
  BY <1>8
  DEF Stop, StopStep, StopSave, StopSignal, WorkerStep, Take, Persist, Obey, Apply,
      Keep, Raise, Conclude, Release, Break, Leave, Restart, Die, vars, api
<1> QED
  BY <1>1, <1>2, <1>3, <1>4, <1>5, <1>6, <1>7, <1>8 DEF Next

(* A task without an object gets one from the request that chose it. *)
LEMMA ObjectsComeFromRequests ==
  ASSUME TypeOK, Defined, Registered, [Next]_vars, NEW t \in Tasks,
         tasks[t] = None, tasks'[t] # None
  PROVE  \E c \in Clients : asked[c] = t /\ (Claim(c) \/ Seize(c)) /\ Register(c)
<1> USE NoneAssumption
<1>1. ASSUME NEW c \in Clients, Claim(c) \/ Seize(c)
      PROVE  asked[c] = t /\ Register(c)
  <2>1. Register(c)
    BY <1>1 DEF Claim, Seize
  <2> QED
    BY <2>1 DEF Register, TypeOK
<1>2. ASSUME NEW c \in Clients, LoadHolder(c) PROVE FALSE
  <2>1. holder[c] \in Tasks /\ tasks[holder[c]] # None
    BY <1>2 DEF LoadHolder, Defined, RequestDefined, TypeOK
  <2>2. tasks' = tasks \/ \E v : tasks' = [tasks EXCEPT ![holder[c]] = v]
    BY <1>2 DEF LoadHolder, Reload
  <2> QED
    BY <2>1, <2>2 DEF TypeOK
<1>3. ASSUME NEW c \in Clients, Enqueue(c) \/ Refresh(c) \/ Overdue(c) PROVE FALSE
  <2>1. tasks[asked[c]] # None
    BY <1>3 DEF Enqueue, Refresh, Overdue, Defined, RequestDefined, Holding
  <2>2. tasks' = tasks \/ \E v : tasks' = [tasks EXCEPT ![asked[c]] = v]
    BY <1>3 DEF Enqueue, Refresh, Overdue, Shows, SetObject
  <2> QED
    BY <2>1, <2>2 DEF TypeOK
<1>4. ASSUME NEW u \in Tasks, Stop(u) PROVE FALSE
  <2>1. tasks[u] # None /\ \E v : tasks' = [tasks EXCEPT ![u] = v]
    BY <1>4 DEF Stop, Registered, Reload
  <2> QED
    BY <2>1 DEF TypeOK
<1>5. CASE UNCHANGED tasks
  BY <1>5
<1> QED
  BY <1>1, <1>2, <1>3, <1>4, <1>5
  DEF Next, Receive, AskAgain, Ask, Proceed, ReadHolder, Save, SaveQueued, Expire,
      Continue, End, Disconnect, StopStep, StopSave, StopSignal, WorkerStep, Take,
      Persist, Obey, Apply, Keep, Conclude, Raise, Release, Break, Leave, Restart, Die,
      vars, api

LEMMA AloneStep ==
  ASSUME TypeOK, Defined, Registered, Alone, [Next]_vars
  PROVE  Alone'
<1> USE NoneAssumption
<1>0. /\ \A c \in Clients : asked[c] \in Tasks \union {None}
      /\ \A c \in Clients : place[c] \in Early => asked[c] \in Tasks
      /\ Choosing \subseteq Early
  BY DEF TypeOK, Defined, RequestDefined, Early, Choosing
(* A task that is chosen now. *)
<1>1. ASSUME NEW c \in Clients, Ask(c)
      PROVE  /\ place'[c] \in Choosing /\ asked'[c] \in Tasks
             /\ tasks' = tasks /\ tasks[asked'[c]] = None
             /\ \A d \in Clients : asked[d] # asked'[c]
             /\ \A d \in Clients \ {c} : place'[d] = place[d] /\ asked'[d] = asked[d]
  BY <1>1 DEF Ask, Go, Taken, TypeOK, Choosing
(* Where a request is early after the step, its task has no job and no     *)
(* message.                                                                *)
<1>2. ASSUME NEW c \in Clients, place'[c] \in Early
      PROVE  (/\ asked[c] \notin QueuedTasks /\ ~Handled(asked[c])
              /\ messages[asked[c]] = 0)'
  <2>1. /\ asked'[c] \in Tasks /\ messages[asked'[c]] = 0
        /\ asked'[c] \notin QueuedTasks /\ ~Handled(asked'[c])
        /\ \A d \in Clients : Enqueue(d) => asked[d] # asked'[c]
    <3>1. CASE Ask(c)
      BY <1>1, <3>1 DEF Registered
    <3>2. CASE ~Ask(c)
      <4>1. place[c] \in Early /\ asked'[c] = asked[c] /\ asked[c] \in Tasks
        BY <1>0, <1>2, <3>2, RequestMoves
      <4>2. ASSUME NEW d \in Clients, Enqueue(d) PROVE asked[d] # asked[c]
        <5>1. d # c
          BY <1>2, <4>2 DEF Enqueue, Go, TypeOK, Early, Choosing
        <5> QED
          BY <4>1, <4>2, <5>1 DEF Alone, Enqueue, Early
      <4> QED
        BY <4>1, <4>2 DEF Alone
    <3> QED
      BY <3>1, <3>2
  <2>2. messages'[asked'[c]] = 0
    BY <2>1, MessagesComeFromTheWorker DEF Handled
  <2> QED
    BY <2>1, <2>2, JobsComeFromRequests DEF Handled
<1>3. ASSUME NEW c \in Clients, NEW d \in Clients \ {c},
             place'[c] \in Early, place'[d] \in Early
      PROVE  asked'[d] # asked'[c]
  <2>1. CASE Ask(c)
    BY <1>1, <2>1
  <2>2. CASE Ask(d)
    BY <1>1, <2>2
  <2>3. CASE ~Ask(c) /\ ~Ask(d)
    BY <1>3, <2>3, RequestMoves DEF Alone
  <2> QED
    BY <2>1, <2>2, <2>3
<1>4. ASSUME NEW c \in Clients, place'[c] \in Choosing
      PROVE  /\ tasks'[asked'[c]] = None
             /\ \A d \in Clients \ {c} : asked'[d] # asked'[c]
  <2>1. CASE Ask(c)
    BY <1>1, <2>1
  <2>2. CASE ~Ask(c)
    <3>1. /\ place[c] \in Choosing /\ asked'[c] = asked[c] /\ asked[c] \in Tasks
          /\ tasks[asked[c]] = None
      BY <1>0, <1>4, <2>2, RequestMoves DEF Alone
    <3>2. tasks'[asked[c]] = None
      <4>1. ASSUME NEW d \in Clients, Claim(d) \/ Seize(d), Register(d)
            PROVE  asked[d] # asked[c]
        <5>1. d # c
          BY <1>4, <4>1 DEF Register, Go, TypeOK, Choosing
        <5> QED
          BY <3>1, <5>1 DEF Alone
      <4> QED
        BY <3>1, <4>1, ObjectsComeFromRequests
    <3>3. ASSUME NEW d \in Clients \ {c} PROVE asked'[d] # asked'[c]
      <4>1. CASE Ask(d)
        BY <1>1, <3>1, <4>1
      <4>2. CASE ~Ask(d)
        BY <3>1, <4>2, RequestMoves DEF Alone
      <4> QED
        BY <4>1, <4>2
    <3> QED
      BY <3>1, <3>2, <3>3
  <2> QED
    BY <2>1, <2>2
<1> QED
  BY <1>2, <1>3, <1>4 DEF Alone

LEMMA OneJobStep ==
  ASSUME TypeOK, Defined, Alone, OneJob, [Next]_vars
  PROVE  OneJob'
<1> USE NoneAssumption
<1>0. jobs \in Seq(Job) /\ hand \in Job \union {None}
  BY DEF TypeOK
<1>1. CASE UNCHANGED queue
  BY <1>1 DEF OneJob, queue, QueuedTasks, TasksOf, Distinct
(* A job for a task that has none. *)
<1>2. ASSUME NEW job \in Job, jobs' = Append(jobs, job), job.task \notin QueuedTasks,
             hand' = None \/ (hand' = hand /\ ~Handled(job.task))
      PROVE  OneJob'
  BY <1>0, <1>2, AppendJob DEF OneJob, QueuedTasks, Handled
<1>3. ASSUME NEW c \in Clients, Enqueue(c) PROVE OneJob'
  <2>1. CASE UNCHANGED jobs
    BY <1>1, <1>3, <2>1 DEF Enqueue, queue
  <2>2. CASE ~UNCHANGED jobs
    <3>1. jobs' = Append(jobs, [task |-> asked[c], attempts |-> 0]) /\ hand' = hand
      BY <1>3, <2>2 DEF Enqueue
    <3>2. [task |-> asked[c], attempts |-> 0] \in Job
      BY <1>3, ObjectIsAnswer, ChatAssumption DEF Enqueue, Holding, Job
    <3>3. asked[c] \notin QueuedTasks /\ ~Handled(asked[c])
      BY <1>3 DEF Enqueue, Alone, Early
    <3> QED
      BY <1>2, <3>1, <3>2, <3>3
  <2> QED
    BY <2>1, <2>2
<1>4. CASE Take
  BY <1>0, <1>4, TailJob DEF Take, OneJob, QueuedTasks
<1>5. CASE Leave \/ Restart
  <2>1. CASE UNCHANGED jobs
    <3>1. hand' = None
      BY <1>5 DEF Leave, Restart
    <3> QED
      BY <2>1, <3>1 DEF OneJob, QueuedTasks, TasksOf, Distinct
  <2>2. CASE ~UNCHANGED jobs
    <3>1. /\ hand \in Job /\ hand' = None
          /\ \/ jobs' = Append(jobs, hand)
             \/ /\ hand.attempts < MaxRetry
                /\ jobs' = Append(jobs, [hand EXCEPT !.attempts = @ + 1])
      BY <1>0, <1>5, <2>2 DEF Leave, Restart, Defined, WorkerDefined
    <3>2. PICK job \in Job : jobs' = Append(jobs, job) /\ job.task = hand.task
      <4>1. /\ hand.attempts < MaxRetry => [hand EXCEPT !.attempts = @ + 1] \in Job
            /\ [hand EXCEPT !.attempts = @ + 1].task = hand.task
        BY <3>1, ChatAssumption DEF Job
      <4> QED
        BY <3>1, <4>1
    <3>3. job.task \notin QueuedTasks
      BY <3>1, <3>2 DEF OneJob
    <3> QED
      BY <1>2, <3>1, <3>2, <3>3
  <2> QED
    BY <2>1, <2>2
<1> QED
  BY <1>1, <1>3, <1>4, <1>5
  DEF Next, Receive, AskAgain, Ask, Proceed, Claim, ReadHolder, LoadHolder, Seize,
      Save, SaveQueued, Refresh, Expire, Continue, End, Overdue, Disconnect, Stop,
      StopStep, StopSave, StopSignal, WorkerStep, Persist, Obey, Apply, Keep, Raise,
      Conclude, Release, Break, Die, vars, queue

-----------------------------------------------------------------------------
(* What a stored record, an object and a request's own object may become. *)
LEMMA StoredComesFrom ==
  ASSUME TypeOK, Defined, [Next]_vars, NEW t \in Tasks
  PROVE  \/ stored'[t] = stored[t]
         \/ \E c \in Clients : /\ place[c] \in Holding /\ asked[c] = t
                               /\ stored'[t] = Object(c)
         \/ stopping # None /\ stopping.task = t /\ stored'[t] = stopping.record
         \/ hand # None /\ hand.task = t /\ stored'[t] = data
<1>1. ASSUME NEW c \in Clients, Save(c) \/ SaveQueued(c) \/ Expire(c)
      PROVE  \/ stored'[t] = stored[t]
             \/ place[c] \in Holding /\ asked[c] = t /\ stored'[t] = Object(c)
  <2>1. stored' = [stored EXCEPT ![asked[c]] = Object(c)] /\ place[c] \in Holding
    BY <1>1 DEF Save, SaveQueued, Expire, Holding
  <2> QED
    BY <2>1 DEF TypeOK
<1>2. CASE StopSave
  <2>1. stopping # None /\ stored' = [stored EXCEPT ![stopping.task] = stopping.record]
    BY <1>2 DEF StopSave
  <2> QED
    BY <2>1 DEF TypeOK
<1>3. CASE Keep \/ Conclude
  <2>1. hand # None /\ (UNCHANGED stored \/ stored' = [stored EXCEPT ![hand.task] = data])
    BY <1>3 DEF Keep, Conclude, Defined, WorkerDefined
  <2> QED
    BY <2>1 DEF TypeOK
<1>4. CASE UNCHANGED stored
  BY <1>4
<1> QED
  BY <1>1, <1>2, <1>3, <1>4
  DEF Next, Receive, AskAgain, Ask, Proceed, Claim, ReadHolder, LoadHolder, Seize,
      Enqueue, Refresh, Continue, End, Overdue, Disconnect, Stop, StopStep, StopSignal,
      WorkerStep, Take, Persist, Obey, Apply, Raise, Release, Break, Leave, Restart, Die,
      vars, redis

(* The object of a request is no less honest than the variables it is in. *)
LEMMA ObjectIsHonest ==
  ASSUME TypeOK, Defined, Honest, NEW c \in Clients, place[c] \in Holding
  PROVE  Claims(Object(c), asked[c])
<1>1. asked[c] \in Tasks
  BY ObjectIsAnswer
<1> QED
  BY <1>1 DEF Object, Honest

(* A new object is a stored record, with another status that is not        *)
(* "completed" perhaps, or a new task.                                     *)
LEMMA CopiesComeFrom ==
  ASSUME TypeOK, Defined, Registered, Alone, Honest, [Next]_vars
  PROVE  /\ \A t \in Tasks : Claims(tasks'[t], t)
         /\ \A c \in Clients : own'[c] # None => Claims(own'[c], asked'[c])
<1> USE NoneAssumption
<1> DEFINE Goal == /\ \A t \in Tasks : Claims(tasks'[t], t)
                   /\ \A c \in Clients : own'[c] # None => Claims(own'[c], asked'[c])
<1>0. /\ \A t \in Tasks : Claims(tasks[t], t) /\ Claims(stored[t], t)
      /\ \A c \in Clients : own[c] # None => Claims(own[c], asked[c])
      /\ \A c \in Clients : place[c] \notin Holding => own[c] = None
      /\ \A t \in Tasks : Claims(None, t) /\ Claims(NewTask, t)
  BY DEF Honest, Defined, RequestDefined, Claims, NewTask
<1>1. ASSUME UNCHANGED <<tasks, own>>,
             \A c \in Clients : asked'[c] = asked[c] \/ own[c] = None
      PROVE  Goal
  BY <1>0, <1>1
<1>2. ASSUME NEW c \in Clients, Receive(c) PROVE Goal
  <2>1. UNCHANGED <<tasks, own>> /\ place[c] = "idle"
    BY <1>2 DEF Receive, AskAgain, Ask
  <2>2. \A d \in Clients \ {c} : asked'[d] = asked[d]
    BY <1>2 DEF Receive, AskAgain, Ask, TypeOK
  <2> QED
    BY <1>0, <1>1, <2>1, <2>2 DEF Holding
<1>3. ASSUME NEW c \in Clients, Claim(c) \/ Seize(c) PROVE Goal
  BY <1>0, <1>3 DEF Claim, Seize, Register, TypeOK
<1>4. ASSUME NEW t \in Tasks, NEW value \in Answer, Reload(t, value), Claims(value, t),
             \A c \in Clients : asked'[c] = asked[c] \/ own'[c] = None
      PROVE  Goal
  BY <1>0, <1>4, ReloadSets
<1>5. ASSUME NEW c \in Clients, LoadHolder(c) PROVE Goal
  <2>1. holder[c] \in Tasks /\ tasks[holder[c]] # None /\ own[c] = None
    BY <1>5 DEF LoadHolder, Defined, RequestDefined, TypeOK, Holding
  <2>2. \A d \in Clients \ {c} : asked'[d] = asked[d]
    BY <1>5 DEF LoadHolder, TypeOK
  <2>3. CASE stored[holder[c]] = None
    BY <1>1, <1>5, <2>1, <2>2, <2>3 DEF LoadHolder
  <2>4. CASE stored[holder[c]] # None
    <3>1. stored[holder[c]] \in Answer /\ Reload(holder[c], stored[holder[c]])
      BY <1>5, <2>1, <2>4 DEF LoadHolder, TypeOK
    <3>2. own'[c] = None
      BY <1>5, <2>1, <3>1, ReloadKeeps DEF LoadHolder, Holding
    <3> QED
      BY <1>0, <1>4, <2>1, <2>2, <3>1, <3>2
  <2> QED
    BY <2>3, <2>4
<1>6. ASSUME NEW c \in Clients, asked[c] \in Tasks, NEW value \in Answer,
             SetObject(c, value), Claims(value, asked[c]), UNCHANGED asked
      PROVE  Goal
  BY <1>0, <1>6, SetObjectSets
<1>7. ASSUME NEW c \in Clients, Enqueue(c) \/ Refresh(c) \/ Overdue(c) PROVE Goal
  <2>1. asked[c] \in Tasks /\ Object(c) \in Answer /\ Claims(Object(c), asked[c])
    BY <1>7, ObjectIsAnswer, ObjectIsHonest DEF Enqueue, Refresh, Overdue, Holding
  <2>2. \A record \in Answer :
          /\ [record EXCEPT !.status = "failed"] \in Answer
          /\ Claims([record EXCEPT !.status = "failed"], asked[c])
    BY DEF Answer, Status, Claims
  <2>3. stored[asked[c]] # None => stored[asked[c]] \in Answer /\ Claims(stored[asked[c]], asked[c])
    BY <1>0, <2>1 DEF TypeOK
  <2>4. CASE Enqueue(c)
    BY <1>1, <1>6, <2>1, <2>2, <2>4 DEF Enqueue
  <2>5. CASE Refresh(c)
    BY <1>6, <2>1, <2>3, <2>5 DEF Refresh, Shows
  <2>6. CASE Overdue(c)
    BY <1>6, <2>1, <2>2, <2>3, <2>6 DEF Overdue, Shows
  <2> QED
    BY <1>7, <2>4, <2>5, <2>6
<1>8. ASSUME NEW c \in Clients, End(c) \/ Disconnect(c) PROVE Goal
  BY <1>0, <1>8 DEF End, Disconnect, TypeOK
<1>9. ASSUME NEW t \in Tasks, Stop(t) PROVE Goal
  <2>1. stored[t] \in Answer
    BY <1>9 DEF Stop, TypeOK
  <2>2. /\ [stored[t] EXCEPT !.status = "stopped"] \in Answer
        /\ Claims([stored[t] EXCEPT !.status = "stopped"], t)
    BY <2>1 DEF Answer, Status, Claims
  <2> QED
    BY <1>4, <1>9, <2>2 DEF Stop
<1>10. ASSUME UNCHANGED <<tasks, own, asked>> PROVE Goal
  BY <1>1, <1>10
<1> HIDE DEF Goal
<1>11. Goal
  BY <1>2, <1>3, <1>5, <1>7, <1>8, <1>9, <1>10
  DEF Next, Proceed, ReadHolder, Save, SaveQueued, Expire, Continue, StopStep, StopSave,
      StopSignal, WorkerStep, Take, Persist, Obey, Apply, Keep, Conclude, Raise, Release,
      Break, Leave, Restart, Die, vars, api
<1> QED
  BY <1>11 DEF Goal

LEMMA HonestStep ==
  ASSUME TypeOK, Defined, Registered, Alone, OneJob, Honest, [Next]_vars
  PROVE  Honest'
<1> USE NoneAssumption
<1>0. /\ \A t \in Tasks : messages[t] \in Nat
      /\ hand \in Job \union {None} /\ data \in Answer /\ at \in 0..5
  BY DEF TypeOK
<1>1. \A t \in Tasks : messages'[t] >= messages[t] /\ messages'[t] \in Nat
  BY <1>0, MessagesComeFromTheWorker
<1>2. \A t \in Tasks : \A record : Claims(record, t) => Claims(record, t)'
  BY <1>0, <1>1 DEF Claims
<1>3. \A t \in Tasks : Claims(stored[t], t)'
  <2> SUFFICES ASSUME NEW t \in Tasks PROVE Claims(stored'[t], t)
    BY <1>0, <1>1 DEF Claims
  <2>1. CASE stored'[t] = stored[t]
    BY <2>1 DEF Honest
  <2>2. ASSUME NEW c \in Clients, place[c] \in Holding, asked[c] = t, stored'[t] = Object(c)
        PROVE  Claims(stored'[t], t)
    BY <2>2, ObjectIsHonest
  <2>3. CASE stopping # None /\ stopping.task = t /\ stored'[t] = stopping.record
    BY <2>3 DEF Honest, Claims
  <2>4. CASE hand # None /\ hand.task = t /\ stored'[t] = data
    BY <2>4 DEF Honest
  <2> QED
    BY <2>1, <2>2, <2>3, <2>4, StoredComesFrom
<1>4. \A t \in Tasks : Claims(tasks[t], t)'
  BY <1>0, <1>1, CopiesComeFrom DEF Claims
<1>5. \A c \in Clients : (own[c] # None => Claims(own[c], asked[c]))'
  <2> SUFFICES ASSUME NEW c \in Clients, own'[c] # None,
                      own'[c].status = "completed"
               PROVE  messages'[asked'[c]] >= 1
    BY DEF Claims
  <2>0. own'[c] # None
    OBVIOUS
  <2>1. asked'[c] \in Tasks
    <3>1. TypeOK' /\ RequestDefined(c)'
      BY RequestDefinedStep, TypeStep
    <3>2. asked'[c] # None /\ asked'[c] \in Tasks \union {None}
      BY <2>0, <3>1 DEF RequestDefined, Holding, TypeOK
    <3> QED
      BY <3>2
  <2>2. messages[asked'[c]] >= 1
    BY CopiesComeFrom DEF Claims
  <2> QED
    BY <1>0, <1>1, <2>1, <2>2
<1>6. (stopping # None => stopping.record.status # "completed")'
  <2>1. ASSUME NEW t \in Tasks, Stop(t)
        PROVE  stopping'.record.status # "completed"
    <3>1. stored[t] \in Answer /\ stopping'.record = [stored[t] EXCEPT !.status = "stopped"]
      BY <2>1 DEF Stop, TypeOK
    <3> QED
      BY <3>1 DEF Answer
  <2>2. CASE StopSave
    BY <2>2 DEF StopSave, Honest, TypeOK, Stopping
  <2>3. CASE StopSignal
    BY <2>3 DEF StopSignal
  <2>4. CASE UNCHANGED stopping
    BY <2>4 DEF Honest
  <2> QED
    BY <2>1, <2>2, <2>3, <2>4
    DEF Next, Receive, AskAgain, Ask, Proceed, Claim, ReadHolder, LoadHolder, Seize,
        Save, Enqueue, SaveQueued, Refresh, Expire, Continue, End, Overdue, Disconnect,
        StopStep, WorkerStep, Take, Persist, Obey, Apply, Keep, Raise, Conclude, Release,
        Break, Leave, Restart, Die, vars, stop
<1>7. /\ (hand # None => Claims(data, hand.task))'
      /\ (work \in {"run", "keep"} /\ at > PersistAt => messages[hand.task] >= 1)'
  <2>0. hand # None => hand.task \in Tasks
    BY <1>0 DEF Job
  <2> DEFINE Goal == /\ hand' # None /\ data'.status = "completed" => messages'[hand'.task] >= 1
                     /\ work' \in {"run", "keep"} /\ at' > 2 => messages'[hand'.task] >= 1
  <2>1. ASSUME UNCHANGED <<queue, worker>> \/ UNCHANGED <<hand, worker>> PROVE Goal
    BY <1>0, <1>1, <2>0, <2>1 DEF Honest, Claims, queue, worker, Defined, WorkerDefined
  <2>2. ASSUME Take PROVE Goal
    <3>1. hand' \in Job /\ hand'.task \in Tasks
      BY <2>2, TailJob DEF Take, TypeOK, Job
    <3>2. /\ data' \in {stored[hand'.task], NewTask} /\ at' = 0
          /\ stored[hand'.task].status = "completed" => messages[hand'.task] >= 1
          /\ messages' = messages
      <4>1. stored[hand'.task] # None
        BY <2>2, <3>1, TailJob DEF Take, TypeOK, Registered, QueuedTasks
      <4> QED
        BY <2>2, <3>1, <4>1 DEF Take, Honest, Claims, redis
    <3> QED
      BY <3>2 DEF NewTask
  <2>3. ASSUME Persist PROVE Goal
    <3>1. hand' = hand /\ hand # None /\ messages'[hand.task] = messages[hand.task] + 1
      BY <2>0, <2>3 DEF Persist, Defined, WorkerDefined, queue, TypeOK
    <3> QED
      BY <1>0, <2>0, <3>1
  <2>4. ASSUME Obey \/ Raise PROVE Goal
    <3>1. data'.status # "completed" /\ work' = "conclude"
      BY <1>0, <2>4 DEF Obey, Raise, Answer
    <3> QED
      BY <3>1
  <2>5. ASSUME Apply PROVE Goal
    <3>1. hand' = hand /\ messages' = messages /\ hand # None /\ at' = at + 1
      BY <2>5 DEF Apply, queue, redis, Defined, WorkerDefined
    <3>2. at' > 2 => messages[hand.task] >= 1
      BY <1>0, <2>5, <3>1 DEF Apply, Honest
    <3>3. event' = "done" => at' > 2
      BY <1>0, <2>5, <3>1 DEF Apply, EventsAt
    <3>4. data'.status = "completed" => data.status = "completed" \/ event' = "done"
      <4>1. event' \in {"status", "text", "error", "citations", "done"}
        BY <2>5 DEF Apply, EventsAt
      <4>2. \/ event' = "text" /\ \E n : data' = [data EXCEPT !.text = n]
            \/ event' = "done" \/ data' = data
            \/ data' = [data EXCEPT !.status = "failed"]
        BY <2>5, <4>1 DEF Apply
      <4> QED
        BY <1>0, <4>2 DEF Answer
    <3> QED
      BY <1>0, <3>1, <3>2, <3>3, <3>4 DEF Honest, Claims
  <2>6. ASSUME Keep PROVE Goal
    <3>1. UNCHANGED <<hand, data, at, messages>> /\ work = "keep"
      BY <2>6 DEF Keep, queue
    <3> QED
      BY <1>0, <3>1 DEF Honest, Claims
  <2>7. ASSUME Conclude \/ Release \/ Break PROVE Goal
    <3>1. UNCHANGED <<hand, data, messages>> /\ work' \notin {"run", "keep"}
      BY <2>7 DEF Conclude, Release, Break, queue
    <3> QED
      BY <1>0, <3>1 DEF Honest, Claims
  <2>8. ASSUME Leave \/ Restart PROVE Goal
    BY <2>8 DEF Leave, Restart
  <2>9. ASSUME Die PROVE Goal
    BY <2>9 DEF Die, NewTask
  <2> HIDE DEF Goal
  <2>10. Goal
    BY <2>1, <2>2, <2>3, <2>4, <2>5, <2>6, <2>7, <2>8, <2>9
    DEF Next, Receive, AskAgain, Ask, Proceed, Claim, ReadHolder, LoadHolder, Seize,
        Save, Enqueue, SaveQueued, Refresh, Expire, Continue, End, Overdue, Disconnect,
        Stop, StopStep, StopSave, StopSignal, WorkerStep, vars
  <2> QED
    BY <2>10 DEF Goal, Claims
<1> QED
  BY <1>3, <1>4, <1>5, <1>6, <1>7 DEF Honest

LEMMA BudgetStep ==
  ASSUME TypeOK, Defined, Registered, Alone, OneJob, Budget, [Next]_vars
  PROVE  Budget'
<1> USE NoneAssumption
<1> SUFFICES ASSUME NEW t \in Tasks
             PROVE  /\ messages'[t] <= 1 + deaths' + again'
                    /\ Pending(t)' => messages'[t] <= deaths' + again'
  BY DEF Budget
<1>0. /\ messages[t] \in Nat /\ deaths \in Nat /\ again \in Nat
      /\ messages[t] <= 1 + deaths + again
      /\ Pending(t) => messages[t] <= deaths + again
      /\ hand \in Job \union {None} /\ at \in 0..5
  BY ChatAssumption DEF TypeOK, Budget
<1>1. CASE Die
  BY <1>0, <1>1, MessagesComeFromTheWorker DEF Die, Persist
<1>2. CASE Persist /\ Handled(t)
  <2>1. /\ messages'[t] = messages[t] + 1 /\ deaths' = deaths /\ again' = again
        /\ Pending(t)
    BY <1>2 DEF Persist, Handled, Pending, TypeOK
  <2>2. ~Pending(t)'
    <3>1. /\ t \notin QueuedTasks /\ jobs' = jobs /\ hand' = hand
          /\ work' = "run" /\ at' = 3 /\ event' # "raised"
      BY <1>2 DEF Persist, Handled, OneJob, Defined, WorkerDefined, queue
    <3> QED
      BY <3>1 DEF Pending, QueuedTasks, TasksOf
  <2> QED
    BY <1>0, <2>1, <2>2
<1>3. ASSUME ~Die, ~(Persist /\ Handled(t))
      PROVE  /\ messages'[t] = messages[t] /\ deaths' = deaths
             /\ \/ again' = again
                \/ again' = again + 1 /\ (Raise \/ Break)
  <2>1. messages'[t] = messages[t]
    BY <1>3, MessagesComeFromTheWorker DEF Handled
  <2>2. CASE Raise \/ Break
    BY <2>1, <2>2 DEF Raise, Break
  <2>3. CASE ~(Raise \/ Break)
    <3>1. deaths' = deaths /\ again' = again
      BY <1>3, <2>3
      DEF Next, Receive, AskAgain, Ask, Proceed, Claim, ReadHolder, LoadHolder, Seize,
          Save, Enqueue, SaveQueued, Refresh, Expire, Continue, End, Overdue, Disconnect,
          Stop, StopStep, StopSave, StopSignal, WorkerStep, Take, Persist, Obey, Apply,
          Keep, Conclude, Release, Leave, Restart, vars
    <3> QED
      BY <2>1, <3>1
  <2> QED
    BY <2>2, <2>3
<1>4. ASSUME ~Die, ~(Persist /\ Handled(t)), again' = again, Pending(t)'
      PROVE  Pending(t) \/ messages[t] = 0
  <2>1. t \in QueuedTasks' \/ Handled(t)'
    BY <1>4 DEF Pending
  <2>2. CASE t \in QueuedTasks \/ (Handled(t) /\ t \in QueuedTasks')
    <3>1. CASE t \in QueuedTasks
      BY <3>1 DEF Pending
    <3>2. CASE \E c \in Clients : Enqueue(c) /\ asked[c] = t
      BY <3>2 DEF Alone, Enqueue, Early
    <3>3. CASE Handled(t) /\ (event = "raised" \/ work = "down")
      BY <3>3 DEF Pending
    <3> QED
      BY <2>1, <2>2, <3>1, <3>2, <3>3, JobsComeFromRequests
  <2>3. ASSUME NEW c \in Clients, Enqueue(c), asked[c] = t PROVE messages[t] = 0
    BY <2>3 DEF Alone, Enqueue, Early
  <2>4. CASE Handled(t) /\ t \notin QueuedTasks'
    <3>1. /\ hand # None /\ Handled(t)'
          /\ work' = "down" \/ event' = "raised" \/ at' <= PersistAt
      BY <1>4, <2>4 DEF Pending, Handled
    <3>2. work = "down" \/ event = "raised" \/ at <= PersistAt
      <4>1. CASE UNCHANGED worker
        BY <3>1, <4>1 DEF worker
      <4>2. CASE Apply
        <5>1. at' = at + 1 /\ event' # "raised" /\ work' = "keep"
          BY <4>2 DEF Apply, EventsAt
        <5> QED
          BY <1>0, <3>1, <5>1
      <4>3. CASE Obey \/ Keep \/ Conclude \/ Release
        BY <3>1, <4>3 DEF Obey, Keep, Conclude, Release
      <4>4. CASE Raise \/ Break
        BY <1>0, <1>4, <4>4 DEF Raise, Break
      <4>5. CASE Take \/ Leave \/ Restart
        BY <3>1, <4>5 DEF Take, Leave, Restart, Handled, Defined, WorkerDefined
      <4>6. CASE Persist
        BY <1>0, <3>1, <4>6 DEF Persist
      <4> QED
        BY <1>4, <2>4, <4>1, <4>2, <4>3, <4>4, <4>5, <4>6
        DEF Next, Receive, AskAgain, Ask, Proceed, Claim, ReadHolder, LoadHolder, Seize,
            Save, Enqueue, SaveQueued, Refresh, Expire, Continue, End, Overdue, Disconnect,
            Stop, StopStep, StopSave, StopSignal, WorkerStep, vars
    <3> QED
      BY <2>4, <3>2 DEF Pending
  <2> QED
    BY <2>1, <2>2, <2>3, <2>4, JobsComeFromRequests
<1> QED
  BY <1>0, <1>1, <1>2, <1>3, <1>4

-----------------------------------------------------------------------------
LEMMA CInvStep == CInv /\ [Next]_vars => CInv'
<1> SUFFICES ASSUME CInv, [Next]_vars PROVE CInv'
  OBVIOUS
<1>1. TypeOK /\ Defined /\ Registered /\ Alone /\ OneJob /\ Honest /\ Budget
  BY DEF CInv
<1>2. TypeOK'
  BY <1>1, TypeStep
<1>3. Defined'
  BY <1>1, WorkerDefinedStep, RequestDefinedStep DEF Defined
<1>4. Registered' /\ Alone' /\ OneJob' /\ Honest' /\ Budget'
  BY <1>1, RegisteredStep, AloneStep, OneJobStep, HonestStep, BudgetStep
<1> QED
  BY <1>2, <1>3, <1>4 DEF CInv

LEMMA CInvAlways == Spec => []CInv
<1> QED
  BY CInvInit, CInvStep, PTL DEF Spec

(* In whatever order the requests, the stop and the worker write the       *)
(* record and its copies, they stay records of an answer.                  *)
THEOREM ChatTypes == Spec => []TypeOK
<1>1. CInv => TypeOK
  BY DEF CInv
<1> QED
  BY <1>1, CInvAlways, PTL

(* An answer whose record says "completed" has its message in the          *)
(* session's history, although the API process overwrites the record with  *)
(* copies it has read before (_save_answer_task, _handle_chat_answer).     *)
THEOREM CompletedAnswersAreSaved == Spec => []CompletedIsSaved
<1>1. CInv => CompletedIsSaved
  BY DEF CInv, Honest, Claims, CompletedIsSaved
<1> QED
  BY <1>1, CInvAlways, PTL

(* However often the queue retries the job of an answer, its message is    *)
(* written once, and once more at most for each death of the worker        *)
(* (handle_chat_answer) and each delivery that failed when the message was *)
(* committed already.                                                      *)
THEOREM RetriesSaveTheMessageOnce == Spec => []RetriesSaveOnce
<1>1. CInv => RetriesSaveOnce
  BY DEF CInv, Budget, RetriesSaveOnce
<1> QED
  BY <1>1, CInvAlways, PTL

(* Whatever number of requests ask at the same time, the queue and the     *)
(* worker together hold one job of a task at most.                         *)
THEOREM OneJobOfATask == Spec => []OneJob
<1>1. CInv => OneJob
  BY DEF CInv
<1> QED
  BY <1>1, CInvAlways, PTL
-----------------------------------------------------------------------------
(* When a stream is the only one of the process.  Its text comes from      *)
(* copies that a stop, a death of the worker and the request itself write  *)
(* over each other; the parts say how much text each copy holds.           *)
OneStream == \E c \in Clients : \A d \in Clients : d = c

Opening   == {"save", "enqueue", "queued"}
Streaming == {"refresh", "expire", "answer"}

(* A completed answer has a text, and what the worker is about to complete *)
(* has one.                                                                *)
Full(record) == record # None /\ record.status = "completed" => record.text >= 1

Worded ==
  /\ \A t \in Tasks : Full(stored[t]) /\ Full(tasks[t])
  /\ \A c \in Clients : Full(own[c])
  /\ Full(data)
  /\ work = "run" /\ at >= 2 => data.text >= 1
  /\ work = "keep" /\ at >= 2 /\ event # "error" => data.text >= 1
  /\ work = "keep" /\ event \in {"done", "error"} => data.status # "running"
  /\ work = "conclude" => data.status # "running"
  /\ stopping # None => stopping.record.status = "stopped"

(* An object without a record is about to be saved by its request. *)
SavedFirst ==
  \A t \in Tasks : tasks[t] # None /\ stored[t] = None =>
    \E c \in Clients : place[c] = "save" /\ asked[c] = t

(* No run was cut short without a trace in the record. *)
Clean == deaths = 0 /\ unsaved = 0

(* What a request has sent and what its object holds, by its place. *)
InStream(c) ==
  /\ place[c] \notin Streaming => sent[c] = 0
  /\ place[c] \in Opening => Object(c).text = 0
  /\ place[c] = "expire" => Object(c).status = "failed"
  /\ place[c] = "answer" /\ Object(c).status = "completed"
     /\ (stops = 0 \/ Clean) => sent[c] = Object(c).text

(* Without a death, and when every failure is saved, there is one run of a *)
(* task that still says it is running.                                     *)
Runs(record) == record # None /\ record.status = "running"

RecordYoung(t) ==
  Runs(stored[t]) => /\ stored[t].text <= 1
                     /\ t \in QueuedTasks => stored[t].text = 0
                     /\ Handled(t) /\ work \in {"release", "leave"} => stored[t].text = 0

RunYoung ==
  work \in {"run", "keep"} /\ data.status = "running" =>
    data.text <= 1 /\ (at <= 1 => data.text = 0)

RequestYoung(c) ==
  /\ place[c] = "enqueue" /\ Runs(stored[asked[c]]) => stored[asked[c]].text = 0
  /\ place[c] = "refresh" => sent[c] <= 1
  /\ place[c] = "answer" /\ Object(c).status = "running" => sent[c] <= 1

Undying ==
  /\ work # "down" /\ RunYoung
  /\ \A t \in Tasks : RecordYoung(t)
  /\ \A c \in Clients : RequestYoung(c)

(* Without a stop no record loses text. *)
RunKeeps ==
  work \in {"run", "keep", "conclude"} => stored[hand.task].text <= data.text

RequestKeeps(c) ==
  /\ place[c] \in Streaming => sent[c] <= stored[asked[c]].text
  /\ place[c] = "expire" =>
       sent[c] <= Object(c).text /\ Object(c).text <= stored[asked[c]].text

Unstopped == stopping = None /\ RunKeeps /\ \A c \in Clients : RequestKeeps(c)

Calm == Clean => Undying
Kind == stops = 0 => Unstopped

SInv == CInv /\ Worded /\ SavedFirst /\ (\A c \in Clients : InStream(c)) /\ Calm /\ Kind

(* The request's object is the same for the request as long as it does not *)
(* replace it: a stop gives it the old one for its own.                    *)
LEMMA ObjectStays ==
  ASSUME TypeOK, Defined, NEW c \in Clients, place[c] \in Holding, asked'[c] = asked[c],
         UNCHANGED <<tasks, own>> \/ \E t \in Tasks : Stop(t)
  PROVE  Object(c)' = Object(c)
<1> USE NoneAssumption
<1>0. asked[c] \in Tasks /\ tasks[asked[c]] # None
  BY ObjectIsAnswer DEF Defined, RequestDefined
<1>1. CASE UNCHANGED <<tasks, own>>
  BY <1>1 DEF Object
<1>2. ASSUME NEW t \in Tasks, Stop(t) PROVE Object(c)' = Object(c)
  <2>1. /\ own'[c] = IF asked[c] = t /\ own[c] = None THEN tasks[t] ELSE own[c]
        /\ \E v : tasks' = [tasks EXCEPT ![t] = v]
    BY <1>2 DEF Stop, Reload
  <2>2. CASE asked[c] = t /\ own[c] = None
    BY <1>0, <2>1, <2>2 DEF Object
  <2>3. CASE asked[c] # t /\ own[c] = None
    BY <1>0, <2>1, <2>3 DEF Object, TypeOK
  <2>4. CASE own[c] # None
    BY <2>1, <2>4 DEF Object
  <2> QED
    BY <2>2, <2>3, <2>4
<1> QED
  BY <1>1, <1>2

(* The object after the request has set it. *)
LEMMA ObjectSets ==
  ASSUME TypeOK, NEW c \in Clients, asked[c] \in Tasks, NEW value \in Answer,
         SetObject(c, value), asked' = asked
  PROVE  Object(c)' = value
<1> USE NoneAssumption
<1>1. CASE own[c] = None
  BY <1>1, SetObjectSets DEF Object
<1>2. CASE own[c] # None
  BY <1>2 DEF SetObject, Object, TypeOK
<1> QED
  BY <1>1, <1>2

(* A record that is full stays so wherever it is copied to. *)
LEMMA FullCopies ==
  ASSUME TypeOK, Defined, Registered, Alone, Worded, [Next]_vars
  PROVE  /\ \A t \in Tasks : Full(tasks'[t])
         /\ \A c \in Clients : Full(own'[c])
<1> USE NoneAssumption
<1> DEFINE Goal == (\A t \in Tasks : Full(tasks'[t])) /\ (\A c \in Clients : Full(own'[c]))
<1>0. /\ \A t \in Tasks : Full(tasks[t]) /\ Full(stored[t])
      /\ \A c \in Clients : Full(own[c])
      /\ Full(None) /\ Full(NewTask) /\ NewTask \in Answer
      /\ \A record \in Answer :
           /\ [record EXCEPT !.status = "failed"] \in Answer
           /\ Full([record EXCEPT !.status = "failed"])
           /\ [record EXCEPT !.status = "stopped"] \in Answer
           /\ Full([record EXCEPT !.status = "stopped"])
  BY DEF Worded, Full, NewTask, Answer, Status
<1>1. ASSUME UNCHANGED <<tasks, own>> PROVE Goal
  BY <1>0, <1>1
<1>2. ASSUME NEW c \in Clients, Claim(c) \/ Seize(c) PROVE Goal
  BY <1>0, <1>2 DEF Claim, Seize, Register, TypeOK
<1>3. ASSUME NEW t \in Tasks, NEW value \in Answer, Reload(t, value), Full(value) PROVE Goal
  BY <1>0, <1>3, ReloadSets
<1>4. ASSUME NEW c \in Clients, asked[c] \in Tasks, NEW value \in Answer,
             SetObject(c, value), Full(value)
      PROVE  Goal
  BY <1>0, <1>4, SetObjectSets
<1> HIDE DEF Goal
<1>5. ASSUME NEW c \in Clients, LoadHolder(c) PROVE Goal
  <2>1. holder[c] \in Tasks
    BY <1>5 DEF LoadHolder, Defined, RequestDefined, TypeOK
  <2>2. CASE stored[holder[c]] = None
    BY <1>1, <1>5, <2>2 DEF LoadHolder
  <2>3. CASE stored[holder[c]] # None
    <3>1. stored[holder[c]] \in Answer /\ Reload(holder[c], stored[holder[c]])
      BY <1>5, <2>1, <2>3 DEF LoadHolder, TypeOK
    <3> QED
      BY <1>0, <1>3, <2>1, <3>1
  <2> QED
    BY <2>2, <2>3
<1>6. ASSUME NEW c \in Clients, Enqueue(c) \/ Refresh(c) \/ Overdue(c) PROVE Goal
  <2>1. asked[c] \in Tasks /\ Object(c) \in Answer /\ Full(Object(c))
    BY <1>0, <1>6, ObjectIsAnswer DEF Enqueue, Refresh, Overdue, Holding, Object
  <2>2. stored[asked[c]] # None => stored[asked[c]] \in Answer
    BY <2>1 DEF TypeOK
  <2>3. CASE Enqueue(c)
    BY <1>0, <1>1, <1>4, <2>1, <2>3 DEF Enqueue
  <2>4. CASE Refresh(c)
    BY <1>0, <1>4, <2>1, <2>2, <2>4 DEF Refresh, Shows
  <2>5. CASE Overdue(c)
    BY <1>0, <1>4, <2>1, <2>2, <2>5 DEF Overdue, Shows
  <2> QED
    BY <1>6, <2>3, <2>4, <2>5
<1>7. ASSUME NEW c \in Clients, End(c) \/ Disconnect(c) PROVE Goal
  <2>1. UNCHANGED tasks /\ own' = [own EXCEPT ![c] = None]
    BY <1>7 DEF End, Disconnect
  <2> QED
    BY <1>0, <2>1 DEF TypeOK, Goal
<1>8. ASSUME NEW t \in Tasks, Stop(t) PROVE Goal
  <2>1. stored[t] \in Answer
    BY <1>8 DEF Stop, TypeOK
  <2> QED
    BY <1>0, <1>3, <1>8, <2>1 DEF Stop
<1>9. Goal
  BY <1>1, <1>2, <1>5, <1>6, <1>7, <1>8
  DEF Next, Receive, AskAgain, Ask, Proceed, ReadHolder, Save, SaveQueued, Expire, Continue,
      StopStep, StopSave, StopSignal, WorkerStep, Take, Persist, Obey, Apply, Keep, Conclude,
      Raise, Release, Break, Leave, Restart, Die, vars, api
<1> QED
  BY <1>9 DEF Goal

LEMMA WordedStep ==
  ASSUME TypeOK, Defined, Registered, Alone, Worded, [Next]_vars
  PROVE  Worded'
<1> USE NoneAssumption
<1>1. \A t \in Tasks : Full(stored'[t])
  <2> SUFFICES ASSUME NEW t \in Tasks PROVE Full(stored'[t])
    OBVIOUS
  <2>1. /\ Full(stored[t]) /\ Full(data)
        /\ \A c \in Clients : place[c] \in Holding => Full(Object(c))
        /\ stopping # None => Full(stopping.record)
    <3>1. ASSUME NEW c \in Clients, place[c] \in Holding PROVE Full(Object(c))
      BY <3>1, ObjectIsAnswer DEF Worded, Object
    <3> QED
      BY <3>1 DEF Worded, Full
  <2> QED
    BY <2>1, StoredComesFrom
<1>2. (\A t \in Tasks : Full(tasks'[t])) /\ (\A c \in Clients : Full(own'[c]))
  BY FullCopies
<1> DEFINE Work == /\ Full(data)
                   /\ work = "run" /\ at >= 2 => data.text >= 1
                   /\ work = "keep" /\ at >= 2 /\ event # "error" => data.text >= 1
                   /\ work = "keep" /\ event \in {"done", "error"} => data.status # "running"
                   /\ work = "conclude" => data.status # "running"
           Halt == stopping # None => stopping.record.status = "stopped"
<1>0. Work /\ Halt /\ data \in Answer /\ at \in 0..5
  BY DEF Worded, TypeOK
<1>3. ASSUME Take PROVE Work'
  <2>1. hand'.task \in Tasks
    BY <1>3, TailJob DEF Take, TypeOK, Job
  <2>2. Full(data') /\ work' \in {"run", "leave"} /\ at' = 0
    BY <1>3, <2>1 DEF Take, Worded, Full, NewTask
  <2>3. Work'
    BY <2>2
  <2> QED
    BY <1>0, <1>3, <2>3 DEF Take, stop
<1>4. ASSUME Apply PROVE Work'
  <2>1. CASE event' = "text"
    <3>1. data' = [data EXCEPT !.text = IF @ = 0 THEN 1 ELSE 2] /\ work' = "keep"
      BY <1>4, <2>1 DEF Apply
    <3>2. data'.text >= 1
      BY <1>0, <3>1 DEF Answer
    <3> QED
      BY <2>1, <3>1, <3>2 DEF Full
  <2>2. CASE event' = "done"
    <3>1. /\ data' = [data EXCEPT !.status = "completed"] /\ work' = "keep" /\ work = "run"
          /\ at >= 2
      BY <1>0, <1>4, <2>2 DEF Apply, EventsAt
    <3>2. data'.text >= 1 /\ data'.status = "completed"
      BY <1>0, <3>1 DEF Answer
    <3> QED
      BY <2>2, <3>1, <3>2 DEF Full
  <2>3. CASE event' = "error"
    <3>1. data' = [data EXCEPT !.status = "failed"] /\ work' = "keep"
      BY <1>4, <2>3 DEF Apply
    <3>2. data'.status = "failed"
      BY <1>0, <3>1 DEF Answer
    <3> QED
      BY <2>3, <3>1, <3>2 DEF Full
  <2>4. CASE event' \notin {"text", "done", "error"}
    <3>1. /\ data' = data /\ work' = "keep" /\ work = "run"
          /\ at # 2 /\ at' = at + 1 /\ event' \in EventsAt(at)
      BY <1>4, <2>4 DEF Apply
    <3>2. at # 1
      BY <2>4, <3>1 DEF EventsAt
    <3>3. at' >= 2 => at >= 2
      BY <1>0, <3>1, <3>2
    <3> QED
      BY <1>0, <2>4, <3>1, <3>3
  <2> QED
    BY <2>1, <2>2, <2>3, <2>4
<1>5. ASSUME Obey \/ Raise PROVE Work'
  <2>1. PICK s \in {"stopped", "failed"} : data' = [data EXCEPT !.status = s] /\ work' = "conclude"
    BY <1>5 DEF Obey, Raise
  <2>2. data'.status = s
    BY <1>0, <2>1 DEF Answer
  <2> QED
    BY <2>1, <2>2 DEF Full
<1>6. ASSUME Persist PROVE Work'
  <2>1. data' = data /\ work' = "run" /\ work = "run" /\ at = 2
    BY <1>6 DEF Persist
  <2> QED
    BY <1>0, <2>1
<1>7. ASSUME Keep PROVE Work'
  <2>1. /\ data' = data /\ at' = at /\ work = "keep" /\ event' = "status"
        /\ work' = IF event \in {"done", "error"} THEN "conclude" ELSE "run"
    BY <1>7 DEF Keep
  <2> QED
    BY <1>0, <2>1
<1>8. ASSUME Conclude \/ Release \/ Break \/ Leave \/ Restart \/ Die PROVE Work'
  <2>1. /\ data' = data \/ data' = NewTask
        /\ work' \in {"release", "leave", "idle", "down"}
    BY <1>8 DEF Conclude, Release, Break, Leave, Restart, Die
  <2> QED
    BY <1>0, <2>1 DEF NewTask, Full
<1>9. ASSUME UNCHANGED worker PROVE Work'
  BY <1>0, <1>9 DEF worker
<1>10. WorkerStep \/ Die => Work'
  BY <1>3, <1>4, <1>5, <1>6, <1>7, <1>8 DEF WorkerStep
<1>11. Work'
  <2> HIDE DEF Work
  <2> QED
    BY <1>9, <1>10
    DEF Next, Receive, AskAgain, Ask, Proceed, Claim, ReadHolder, LoadHolder, Seize, Save,
        Enqueue, SaveQueued, Refresh, Expire, Continue, End, Overdue, Disconnect, Stop,
        StopStep, StopSave, StopSignal, vars
<1>12. Halt'
  <2>1. ASSUME NEW t \in Tasks, Stop(t) PROVE Halt'
    <3>1. stored[t] \in Answer
      BY <2>1 DEF Stop, TypeOK
    <3> QED
      BY <2>1, <3>1 DEF Stop, Answer
  <2>2. CASE StopSave
    <3>1. stopping' = [stopping EXCEPT !.saved = TRUE] /\ stopping # None /\ stopping \in Stopping
      BY <2>2 DEF StopSave, TypeOK
    <3>2. stopping'.record = stopping.record
      BY <3>1 DEF Stopping
    <3> QED
      BY <1>0, <3>1, <3>2
  <2>3. CASE StopSignal
    BY <2>3 DEF StopSignal
  <2>4. CASE UNCHANGED stopping
    BY <1>0, <2>4
  <2> HIDE DEF Halt
  <2> QED
    BY <2>1, <2>2, <2>3, <2>4
    DEF Next, Receive, AskAgain, Ask, Proceed, Claim, ReadHolder, LoadHolder, Seize, Save,
        Enqueue, SaveQueued, Refresh, Expire, Continue, End, Overdue, Disconnect,
        StopStep, WorkerStep, Take, Persist, Obey, Apply, Keep, Conclude, Raise, Release,
        Break, Leave, Restart, Die, vars, stop
<1> QED
  BY <1>1, <1>2, <1>11, <1>12 DEF Worded

(* A request moves by its own steps only. *)
LEMMA OthersWait ==
  ASSUME TypeOK, NEW c \in Clients, NEW d \in Clients, d # c,
         Receive(d) \/ Proceed(d) \/ Overdue(d) \/ Disconnect(d)
  PROVE  place'[c] = place[c] /\ asked'[c] = asked[c]
<1>1. CASE Receive(d)
  BY <1>1 DEF Receive, AskAgain, Ask, Go, TypeOK
<1>2. CASE Claim(d) \/ Seize(d) \/ ReadHolder(d) \/ Save(d) \/ SaveQueued(d) \/ Enqueue(d)
  BY <1>2
  DEF Claim, Seize, Register, ReadHolder, Save, SaveQueued, Enqueue, Go, TypeOK
<1>3. CASE LoadHolder(d)
  BY <1>3 DEF LoadHolder, Go, TypeOK
<1>4. CASE \/ Refresh(d) \/ Overdue(d) \/ Expire(d) \/ Continue(d)
           \/ End(d) \/ Disconnect(d)
  BY <1>4 DEF Refresh, Overdue, Expire, Continue, End, Disconnect, Go, TypeOK
<1> QED
  BY <1>1, <1>2, <1>3, <1>4 DEF Proceed

LEMMA SavedFirstStep ==
  ASSUME TypeOK, Defined, Registered, Alone, SavedFirst, [Next]_vars
  PROVE  SavedFirst'
<1> USE NoneAssumption
<1> SUFFICES ASSUME NEW t \in Tasks, tasks'[t] # None, stored'[t] = None
             PROVE  \E c \in Clients : place'[c] = "save" /\ asked'[c] = t
  BY DEF SavedFirst
<1>1. stored[t] = None
  BY RecordsStay
<1>2. CASE tasks[t] = None
  <2>1. PICK c \in Clients : asked[c] = t /\ (Claim(c) \/ Seize(c)) /\ Register(c)
    BY <1>2, ObjectsComeFromRequests
  <2> QED
    BY <2>1 DEF Claim, Seize, Register, Go, TypeOK
<1>3. CASE tasks[t] # None
  <2>1. PICK c \in Clients : place[c] = "save" /\ asked[c] = t
    BY <1>1, <1>3 DEF SavedFirst
  <2>2. ~Save(c)
    <3>1. Object(c) \in Answer
      BY <2>1, ObjectIsAnswer DEF Holding
    <3> QED
      BY <2>1, <3>1 DEF Save, TypeOK
  <2>3. place'[c] = "save" /\ asked'[c] = t
    <3>1. ASSUME NEW d \in Clients, Receive(d) \/ Proceed(d) \/ Overdue(d) \/ Disconnect(d)
          PROVE  d # c
      BY <2>1, <2>2, <3>1
      DEF Receive, AskAgain, Ask, Proceed, Claim, ReadHolder, LoadHolder, Seize, Enqueue,
          SaveQueued, Refresh, Expire, Continue, End, Ending, Overdue, Disconnect
    <3>2. ASSUME NEW d \in Clients, d # c,
                 Receive(d) \/ Proceed(d) \/ Overdue(d) \/ Disconnect(d)
          PROVE  place'[c] = place[c] /\ asked'[c] = asked[c]
      BY <3>2, OthersWait
    <3>3. CASE UNCHANGED <<place, asked>>
      BY <2>1, <3>3
    <3> QED
      BY <2>1, <3>1, <3>2, <3>3
      DEF Next, Stop, StopStep, StopSave, StopSignal, WorkerStep, Take, Persist, Obey, Apply,
          Keep, Raise, Conclude, Release, Break, Leave, Restart, Die, vars, api
  <2> QED
    BY <2>3
<1> QED
  BY <1>2, <1>3

(* How the one request there is moves: it chooses a task, joins one, opens *)
(* one (Register, Save, Enqueue, SaveQueued), shows the record, declares   *)
(* it failed, goes on, or waits while others move.                         *)
Chooses(c) ==
  /\ place'[c] \notin Opening \union Streaming
  /\ sent'[c] = 0 \/ (place[c] \notin Streaming /\ sent'[c] = sent[c])
  /\ stored' = stored

Joins(c) ==
  /\ place[c] \notin Opening \union Streaming /\ place'[c] = "refresh"
  /\ asked'[c] \in Tasks /\ tasks[asked'[c]] # None
  /\ sent' = sent /\ stored' = stored

Opens(c) ==
  /\ place[c] \notin Streaming /\ sent' = sent
  /\ \/ /\ place[c] \notin Opening /\ place'[c] = "save"
        /\ Object(c)' = NewTask /\ stored' = stored
     \/ /\ asked' = asked /\ Object(c)'.text = Object(c).text
        /\ \/ /\ place[c] = "save" /\ place'[c] = "enqueue"
              /\ stored' = [stored EXCEPT ![asked[c]] = Object(c)]
           \/ /\ place[c] = "enqueue" /\ place'[c] = "queued" /\ stored' = stored
           \/ /\ place[c] = "queued" /\ place'[c] = "refresh"
              /\ stored' = [stored EXCEPT ![asked[c]] = Object(c)]

Shown(c, record) ==
  /\ place[c] = "refresh" /\ asked' = asked /\ stored' = stored
  /\ Object(c)' = record
  /\ sent'[c] = IF sent[c] < record.text THEN record.text ELSE sent[c]

Looks(c) ==
  \/ Shown(c, stored[asked[c]]) /\ place'[c] = "answer"
  \/ /\ Shown(c, [stored[asked[c]] EXCEPT !.status = "failed"])
     /\ place'[c] = "expire"
  \/ /\ place[c] = "expire" /\ place'[c] = "answer"
     /\ asked' = asked /\ sent' = sent /\ Object(c)' = Object(c)
     /\ stored' = [stored EXCEPT ![asked[c]] = Object(c)]
  \/ /\ place[c] = "answer" /\ Object(c).status = "running" /\ place'[c] = "refresh"
     /\ asked' = asked /\ sent' = sent /\ stored' = stored

Waits(c) ==
  /\ UNCHANGED <<place, asked, sent>>
  /\ place[c] \in Holding => Object(c)' = Object(c)

LEMMA StreamMoves ==
  ASSUME TypeOK, Defined, Registered, SavedFirst, NEW c \in Clients,
         \A d \in Clients : d = c, [Next]_vars
  PROVE  \/ /\ Chooses(c) \/ Joins(c) \/ Opens(c) \/ Looks(c)
            /\ UNCHANGED <<hand, worker, stopping, stops, counts>>
            /\ QueuedTasks' = QueuedTasks \/ Enqueue(c)
         \/ Waits(c) /\ (StopStep \/ WorkerStep \/ Die \/ UNCHANGED <<redis, queue, worker, counts>>)
<1> USE NoneAssumption
<1> DEFINE Rest == /\ UNCHANGED <<hand, worker, stopping, stops, counts>>
                   /\ QueuedTasks' = QueuedTasks \/ Enqueue(c)
           Goal == \/ (Chooses(c) \/ Joins(c) \/ Opens(c) \/ Looks(c)) /\ Rest
                   \/ Waits(c) /\ (StopStep \/ WorkerStep \/ Die \/ UNCHANGED <<redis, queue, worker, counts>>)
<1>1. ASSUME Ask(c) \/ ReadHolder(c) \/ (Claim(c) /\ ~Register(c)) PROVE Chooses(c) /\ Rest
  BY <1>1 DEF Ask, ReadHolder, Claim, Go, Chooses, Opening, Streaming, TypeOK, QueuedTasks,
              redis, queue, stop
<1>2. ASSUME End(c) \/ Disconnect(c) PROVE Chooses(c) /\ Rest
  BY <1>2 DEF End, Disconnect, Go, Chooses, Opening, Streaming, TypeOK, QueuedTasks, redis,
              queue, stop
<1>3. ASSUME AskAgain(c) PROVE Joins(c) /\ Rest
  <2>1. RunningHere \in SUBSET Tasks /\ RunningHere # {}
    BY <1>3 DEF AskAgain, RunningHere
  <2>2. asked'[c] = CHOOSE t \in RunningHere : \A u \in RunningHere : t <= u
    BY <1>3 DEF AskAgain, TypeOK
  <2>3. asked'[c] \in RunningHere
    <3> HIDE DEF RunningHere
    <3> QED
      BY <2>1, <2>2, SmallestTask
  <2> QED
    BY <1>3, <2>3 DEF AskAgain, RunningHere, Go, TypeOK, Joins, Opening, Streaming,
                      QueuedTasks, redis, queue, stop
<1>4. ASSUME LoadHolder(c) PROVE (Joins(c) \/ Chooses(c)) /\ Rest
  <2>1. holder[c] \in Tasks /\ tasks[holder[c]] # None
    BY <1>4 DEF LoadHolder, Defined, RequestDefined, TypeOK
  <2> QED
    BY <1>4, <2>1 DEF LoadHolder, Go, TypeOK, Joins, Chooses, Opening, Streaming,
                      QueuedTasks, redis, queue, stop
<1>5. ASSUME Claim(c) \/ Seize(c), Register(c) PROVE Opens(c) /\ Rest
  <2>1. own[c] = None /\ asked[c] \in Tasks
    BY <1>5 DEF Claim, Seize, Defined, RequestDefined, Holding, TypeOK
  <2>2. Object(c)' = NewTask /\ place'[c] = "save"
    BY <1>5, <2>1 DEF Claim, Seize, Register, Go, Object, TypeOK
  <2> QED
    BY <1>5, <2>2 DEF Claim, Seize, Opens, Opening, Streaming, QueuedTasks, queue, stop
<1>6. ASSUME Save(c) \/ SaveQueued(c) PROVE Opens(c) /\ Rest
  <2>1. Object(c)' = Object(c)
    BY <1>6 DEF Save, SaveQueued, Object
  <2> QED
    BY <1>6, <2>1 DEF Save, SaveQueued, Go, Opens, Opening, Streaming, QueuedTasks, TypeOK,
                      queue, stop
<1>7. ASSUME Enqueue(c) PROVE Opens(c) /\ Rest
  <2>1. asked[c] \in Tasks /\ Object(c) \in Answer
    BY <1>7, ObjectIsAnswer DEF Enqueue, Holding
  <2>2. Object(c)'.text = Object(c).text
    <3>1. CASE UNCHANGED <<tasks, own>>
      BY <1>7, <3>1 DEF Enqueue, Object
    <3>2. CASE SetObject(c, [Object(c) EXCEPT !.status = "failed"])
      <4>1. /\ [Object(c) EXCEPT !.status = "failed"] \in Answer
            /\ [Object(c) EXCEPT !.status = "failed"].text = Object(c).text
        BY <2>1 DEF Answer, Status
      <4> QED
        BY <1>7, <2>1, <3>2, <4>1, ObjectSets DEF Enqueue
    <3> QED
      BY <1>7, <3>1, <3>2 DEF Enqueue
  <2> QED
    BY <1>7, <2>2 DEF Enqueue, Go, Opens, Opening, Streaming, TypeOK, redis, stop
<1>8. ASSUME Refresh(c) \/ Overdue(c) PROVE Looks(c) /\ Rest
  <2>1. asked[c] \in Tasks /\ tasks[asked[c]] # None
    BY <1>8, ObjectIsAnswer DEF Refresh, Overdue, Holding, Defined, RequestDefined
  <2>2. stored[asked[c]] # None
    <3>1. place[c] # "save"
      BY <1>8 DEF Refresh, Overdue
    <3> QED
      BY <2>1, <3>1 DEF SavedFirst
  <2>3. stored[asked[c]] \in Answer
    BY <2>1, <2>2 DEF TypeOK
  <2>4. [stored[asked[c]] EXCEPT !.status = "failed"] \in Answer
    BY <2>3 DEF Answer, Status
  <2>5. ASSUME NEW record \in Answer, Shows(c, record), asked' = asked
        PROVE  /\ Object(c)' = record
               /\ sent'[c] = IF sent[c] < record.text THEN record.text ELSE sent[c]
    <3>1. Object(c)' = record
      BY <2>1, <2>5, ObjectSets DEF Shows
    <3> QED
      BY <2>5, <3>1 DEF Shows, TypeOK
  <2>6. CASE Refresh(c)
    BY <2>2, <2>3, <2>5, <2>6 DEF Refresh, Go, Looks, Shown, TypeOK, QueuedTasks, redis,
                                  queue, stop
  <2>7. CASE Overdue(c)
    BY <2>4, <2>5, <2>7 DEF Overdue, Go, Looks, Shown, TypeOK, QueuedTasks, redis, queue, stop
  <2> QED
    BY <1>8, <2>6, <2>7
<1>9. ASSUME Expire(c) \/ Continue(c) PROVE Looks(c) /\ Rest
  <2>1. Object(c)' = Object(c)
    BY <1>9 DEF Expire, Continue, Object
  <2> QED
    BY <1>9, <2>1 DEF Expire, Continue, Go, Looks, TypeOK, QueuedTasks, redis, queue, stop
<1>10. ASSUME NEW t \in Tasks, Stop(t) PROVE Goal
  <2>1. UNCHANGED <<place, asked, sent, redis, queue, worker, counts>>
    BY <1>10 DEF Stop
  <2> QED
    BY <1>10, <2>1, ObjectStays DEF Waits
<1>11. ASSUME StopStep \/ WorkerStep \/ Die \/ UNCHANGED vars PROVE Goal
  <2>1. UNCHANGED <<place, asked, sent, tasks, own>>
    BY <1>11
    DEF StopStep, StopSave, StopSignal, WorkerStep, Take, Persist, Obey, Apply, Keep, Raise,
        Conclude, Release, Break, Leave, Restart, Die, vars, api
  <2>2. Waits(c)
    BY <2>1, ObjectStays DEF Waits
  <2>3. StopStep \/ WorkerStep \/ Die \/ UNCHANGED <<redis, queue, worker, counts>>
    BY <1>11 DEF vars
  <2> QED
    BY <2>2, <2>3
<1> HIDE DEF Rest
<1>12. ASSUME NEW d \in Clients, Receive(d) \/ Proceed(d) \/ Overdue(d) \/ Disconnect(d)
       PROVE  Goal
  <2>1. d = c
    OBVIOUS
  <2> QED
    BY <1>1, <1>2, <1>3, <1>4, <1>5, <1>6, <1>7, <1>8, <1>9, <1>12, <2>1
    DEF Receive, Proceed, Claim, Seize
<1> HIDE DEF Goal
<1>13. Goal
  BY <1>10, <1>11, <1>12 DEF Next
<1> QED
  BY <1>13 DEF Goal, Rest

LEMMA CountsGrow ==
  ASSUME TypeOK, [Next]_vars
  PROVE  /\ stops' = 0 => stops = 0 /\ (stopping' = stopping \/ StopStep)
         /\ Clean' => Clean /\ ~Die /\ unsaved' = unsaved
<1>0. stops \in Nat /\ deaths \in Nat /\ unsaved \in Nat
  BY ChatAssumption DEF TypeOK
<1>1. ASSUME NEW c \in Clients, Receive(c) \/ Proceed(c) \/ Overdue(c) \/ Disconnect(c)
      PROVE  UNCHANGED <<stop, counts>> /\ ~Die
  <2>1. UNCHANGED <<stop, counts>>
    BY <1>1
    DEF Receive, AskAgain, Ask, Proceed, Claim, ReadHolder, LoadHolder, Seize, Save, Enqueue,
        SaveQueued, Refresh, Expire, Continue, End, Overdue, Disconnect
  <2> QED
    BY <1>0, <2>1 DEF Die
<1>2. ASSUME NEW t \in Tasks, Stop(t) PROVE stops' # 0 /\ UNCHANGED counts
  BY <1>0, <1>2 DEF Stop
<1>3. ASSUME StopStep PROVE UNCHANGED <<stops, counts>>
  BY <1>3 DEF StopStep, StopSave, StopSignal
<1>4. ASSUME WorkerStep \/ UNCHANGED vars
      PROVE  /\ UNCHANGED <<stop, deaths>>
             /\ unsaved' = unsaved \/ unsaved' = unsaved + 1
  BY <1>4
  DEF WorkerStep, Take, Persist, Obey, Apply, Keep, Raise, Conclude, Release, Break,
      Leave, Restart, vars
<1>5. Die => deaths' # 0 /\ UNCHANGED stop
  BY <1>0 DEF Die, stop
<1>6. UNCHANGED deaths => ~Die
  BY <1>0 DEF Die
<1> QED
  BY <1>0, <1>1, <1>2, <1>3, <1>4, <1>5, <1>6 DEF Next, stop, Clean

(* What has been sent is in the record that says "completed". *)
LEMMA SentFits ==
  ASSUME TypeOK, Defined, Worded, Calm, Kind, NEW c \in Clients, place[c] = "refresh",
         stops = 0 \/ Clean, stored[asked[c]] # None,
         stored[asked[c]].status = "completed"
  PROVE  sent[c] <= stored[asked[c]].text
<1>1. asked[c] \in Tasks
  BY ObjectIsAnswer DEF Holding
<1>2. stored[asked[c]].text \in 0..2 /\ stored[asked[c]].text >= 1 /\ sent[c] \in Nat
  BY <1>1 DEF TypeOK, Answer, Worded, Full
<1>3. CASE Clean
  BY <1>2, <1>3 DEF Calm, Undying, RequestYoung
<1>4. CASE stops = 0
  BY <1>4 DEF Kind, Unstopped, RequestKeeps, Streaming
<1> QED
  BY <1>3, <1>4

LEMMA InStreamStep ==
  ASSUME TypeOK, Defined, Registered, Worded, SavedFirst, Calm, Kind,
         NEW c \in Clients, \A d \in Clients : d = c, InStream(c), [Next]_vars
  PROVE  InStream(c)'
<1> USE NoneAssumption
<1> DEFINE Either == stops = 0 \/ Clean
<1>0. /\ place[c] \in Holding => asked[c] \in Tasks /\ Object(c) \in Answer
      /\ sent[c] \in Nat /\ sent \in [Clients -> Nat]
  BY ObjectIsAnswer DEF TypeOK
<1>1. Either' => Either
  BY CountsGrow
<1> HIDE DEF Either
<1>2. CASE Chooses(c)
  BY <1>2 DEF Chooses, InStream, Opening, Streaming
<1>3. CASE Joins(c)
  BY <1>3 DEF Joins, InStream, Opening, Streaming
<1>4. CASE Opens(c)
  BY <1>4 DEF Opens, InStream, Opening, Streaming, NewTask
<1>5. CASE Looks(c)
  <2>1. place[c] = "refresh" => stored[asked[c]] \in Answer
    <3> SUFFICES ASSUME place[c] = "refresh" PROVE stored[asked[c]] \in Answer
      OBVIOUS
    <3>1. asked[c] \in Tasks /\ tasks[asked[c]] # None
      BY <1>0 DEF Holding, Defined, RequestDefined
    <3>2. stored[asked[c]] # None
      BY <3>1 DEF SavedFirst
    <3> QED
      BY <3>1, <3>2 DEF TypeOK
  <2>2. CASE Shown(c, stored[asked[c]]) /\ place'[c] = "answer"
    <3>1. stored[asked[c]] \in Answer /\ stored[asked[c]] # None
      BY <2>1, <2>2 DEF Shown
    <3>2. ASSUME Either, stored[asked[c]].status = "completed"
          PROVE  sent'[c] = stored[asked[c]].text
      <4>1. sent[c] <= stored[asked[c]].text /\ stored[asked[c]].text \in Nat
        BY <2>2, <3>1, <3>2, SentFits DEF Shown, Either, Answer
      <4> QED
        BY <1>0, <2>2, <4>1 DEF Shown
    <3> QED
      BY <1>1, <2>2, <3>2 DEF Shown, InStream, Opening, Streaming, Either
  <2>3. CASE Shown(c, [stored[asked[c]] EXCEPT !.status = "failed"]) /\ place'[c] = "expire"
    <3>1. stored[asked[c]] \in Answer
      BY <2>1, <2>3 DEF Shown
    <3>2. [stored[asked[c]] EXCEPT !.status = "failed"].status = "failed"
      BY <3>1 DEF Answer
    <3> QED
      BY <2>3, <3>2 DEF Shown, InStream, Opening, Streaming
  <2>4. CASE place[c] = "expire" /\ place'[c] = "answer" /\ Object(c)' = Object(c)
    BY <2>4 DEF InStream, Opening, Streaming
  <2>5. CASE place'[c] = "refresh"
    BY <2>5 DEF InStream, Opening, Streaming
  <2> QED
    BY <1>5, <2>2, <2>3, <2>4, <2>5 DEF Looks
<1>6. CASE Waits(c)
  BY <1>1, <1>6 DEF Waits, InStream, Opening, Streaming, Holding, Either
<1> QED
  BY <1>2, <1>3, <1>4, <1>5, <1>6, StreamMoves

LEMMA UndyingStep ==
  ASSUME CInv, Worded, SavedFirst, Undying, NEW c \in Clients,
         \A d \in Clients : d = c, InStream(c), [Next]_vars, ~Die, unsaved' = unsaved
  PROVE  Undying'
<1> USE NoneAssumption
<1>0. /\ TypeOK /\ Defined /\ Registered /\ Alone /\ OneJob
      /\ work # "down" /\ RunYoung /\ RequestYoung(c) /\ \A t \in Tasks : RecordYoung(t)
      /\ place[c] \in Holding => asked[c] \in Tasks /\ Object(c) \in Answer
      /\ place[c] = "refresh" => stored[asked[c]] \in Answer
      /\ at \in 0..5 /\ data \in Answer /\ hand \in Job \union {None}
      /\ \A t \in Tasks : stored[t] # None => stored[t].text \in 0..2
  <2>1. TypeOK /\ Defined /\ Registered /\ Alone /\ OneJob
    BY DEF CInv
  <2>2. place[c] \in Holding => /\ asked[c] \in Tasks /\ Object(c) \in Answer
                                /\ tasks[asked[c]] # None
    BY <2>1, ObjectIsAnswer DEF Defined, RequestDefined
  <2>3. place[c] = "refresh" => stored[asked[c]] # None
    BY <2>2 DEF SavedFirst, Holding
  <2>4. place[c] = "refresh" => stored[asked[c]] \in Answer
    BY <2>1, <2>2, <2>3 DEF TypeOK, Holding
  <2>5. \A t \in Tasks : stored[t] # None => stored[t].text \in 0..2
    BY <2>1 DEF TypeOK, Answer
  <2> QED
    BY <2>1, <2>2, <2>4, <2>5 DEF Undying, TypeOK
<1>1. CASE /\ Waits(c)
           /\ StopStep \/ WorkerStep \/ Die \/ UNCHANGED <<redis, queue, worker, counts>>
  <2>1. ASSUME place[c] = "enqueue" PROVE ~Handled(asked[c]) /\ asked[c] \in Tasks
    BY <1>0, <2>1 DEF Alone, Early, Choosing, Holding
  <2>2. ASSUME UNCHANGED stored PROVE RequestYoung(c)'
    BY <1>0, <1>1, <2>2 DEF Waits, RequestYoung, Holding
  <2>3. ASSUME hand # None, stored' = [stored EXCEPT ![hand.task] = data]
        PROVE  RequestYoung(c)'
    <3>1. place[c] = "enqueue" => stored'[asked[c]] = stored[asked[c]]
      BY <1>0, <2>1, <2>3 DEF Handled, TypeOK
    <3> QED
      BY <1>0, <1>1, <3>1 DEF Waits, RequestYoung, Holding
  <2>4. ASSUME StopSave PROVE RequestYoung(c)' /\ \A t \in Tasks : RecordYoung(t)'
    <3>1. /\ stopping # None /\ stopping \in Stopping /\ stopping.record.status = "stopped"
          /\ stored' = [stored EXCEPT ![stopping.task] = stopping.record]
      BY <1>0, <2>4 DEF StopSave, TypeOK, Worded
    <3>2. \A t \in Tasks : stored'[t] = stored[t] \/ ~Runs(stored'[t])
      BY <1>0, <3>1 DEF TypeOK, Runs
    <3>3. RequestYoung(c)'
      BY <1>0, <1>1, <2>1, <3>2 DEF Waits, RequestYoung, Holding
    <3>4. UNCHANGED <<jobs, hand, work>>
      BY <2>4 DEF StopSave, queue, worker
    <3> QED
      BY <1>0, <3>2, <3>3, <3>4 DEF RecordYoung, QueuedTasks, Handled
  <2>5. CASE StopStep
    <3>1. work' = work /\ RunYoung'
      BY <1>0, <2>5 DEF StopStep, StopSave, StopSignal, worker, RunYoung
    <3>2. CASE StopSave
      BY <1>0, <2>4, <3>1, <3>2 DEF Undying
    <3>3. CASE StopSignal
      <4>1. UNCHANGED <<stored, jobs, hand, work>>
        BY <3>3 DEF StopSignal, queue, worker
      <4>2. \A t \in Tasks : RecordYoung(t)'
        BY <1>0, <4>1 DEF RecordYoung, QueuedTasks, Handled
      <4> QED
        BY <1>0, <2>2, <3>1, <4>1, <4>2 DEF Undying
    <3> QED
      BY <2>5, <3>2, <3>3 DEF StopStep
  <2>6. CASE UNCHANGED <<redis, queue, worker>>
    <3>1. UNCHANGED <<stored, jobs, hand, work, data, at>>
      BY <2>6 DEF redis, queue, worker
    <3>2. RunYoung' /\ \A t \in Tasks : RecordYoung(t)'
      BY <1>0, <3>1 DEF RunYoung, RecordYoung, QueuedTasks, Handled
    <3> QED
      BY <1>0, <2>2, <3>1, <3>2 DEF Undying
  <2>7. CASE Take
    <3>1. /\ Head(jobs) \in Job /\ Head(jobs).task \in QueuedTasks
          /\ TasksOf(Tail(jobs)) \subseteq QueuedTasks
      BY <1>0, <2>7, TailJob DEF Take, TypeOK, QueuedTasks
    <3>2. /\ hand' = Head(jobs) /\ QueuedTasks' \subseteq QueuedTasks
          /\ \/ data' = stored[Head(jobs).task] /\ work' = "run"
             \/ work' = "leave"
          /\ at' = 0 /\ UNCHANGED stored
      BY <2>7, <3>1 DEF Take, QueuedTasks, redis
    <3>3. Head(jobs).task \in Tasks /\ stored[Head(jobs).task] # None
      BY <1>0, <3>1 DEF Job, Registered
    <3>4. RunYoung'
      BY <1>0, <3>1, <3>2, <3>3 DEF RunYoung, RecordYoung, Runs
    <3>5. ASSUME NEW t \in Tasks PROVE RecordYoung(t)'
      <4>1. Handled(t)' => t \in QueuedTasks
        BY <3>1, <3>2 DEF Handled
      <4> QED
        BY <1>0, <3>2, <4>1 DEF RecordYoung
    <3> QED
      BY <1>0, <2>2, <3>2, <3>4, <3>5 DEF Undying
  <2>8. CASE Persist \/ Obey \/ Apply \/ Raise
    <3>1. UNCHANGED <<stored, jobs, hand>> /\ work' \in {"run", "keep", "conclude"}
      BY <2>8 DEF Persist, Obey, Apply, Raise, redis, queue
    <3>2. \A t \in Tasks : RecordYoung(t)'
      BY <1>0, <3>1 DEF RecordYoung, QueuedTasks, Handled
    <3>3. RunYoung'
      <4>1. CASE Persist
        BY <1>0, <4>1 DEF Persist, RunYoung
      <4>2. CASE Obey \/ Raise
        BY <4>2 DEF Obey, Raise, RunYoung
      <4>3. CASE Apply
        <5>1. CASE event' = "text"
          <6>1. at = 1
            BY <1>0, <4>3, <5>1 DEF Apply, EventsAt
          <6>2. /\ data' = [data EXCEPT !.text = IF @ = 0 THEN 1 ELSE 2] /\ at' = 2
                /\ work = "run"
            BY <4>3, <5>1, <6>1 DEF Apply
          <6>3. /\ data'.status = data.status
                /\ data'.text = IF data.text = 0 THEN 1 ELSE 2
            BY <1>0, <6>2 DEF Answer
          <6> QED
            BY <1>0, <6>1, <6>2, <6>3 DEF RunYoung
        <5>2. CASE event' \in {"done", "error"}
          <6>1. \E s \in {"completed", "failed"} : data' = [data EXCEPT !.status = s]
            BY <4>3, <5>2 DEF Apply
          <6>2. data'.status # "running"
            BY <1>0, <6>1 DEF Answer
          <6> QED
            BY <6>2 DEF RunYoung
        <5>3. CASE event' \notin {"text", "done", "error"}
          <6>1. data' = data /\ at' = at + 1 /\ work = "run"
            BY <4>3, <5>3 DEF Apply
          <6> QED
            BY <1>0, <6>1 DEF RunYoung
        <5> QED
          BY <5>1, <5>2, <5>3
      <4> QED
        BY <2>8, <4>1, <4>2, <4>3
    <3> QED
      BY <1>0, <2>2, <3>1, <3>2, <3>3 DEF Undying
  <2>9. CASE Keep \/ Conclude
    <3>1. /\ hand # None /\ UNCHANGED <<jobs, hand, data, at>>
          /\ UNCHANGED stored \/ stored' = [stored EXCEPT ![hand.task] = data]
          /\ work \in {"keep", "conclude"}
          /\ work = "keep" => work' \in {"run", "conclude"}
          /\ work = "conclude" => data.status # "running" /\ work' = "release"
                                  /\ stored' = [stored EXCEPT ![hand.task] = data]
      BY <1>0, <2>9 DEF Keep, Conclude, queue, Defined, WorkerDefined, Worded
    <3>2. hand.task \in Tasks /\ hand.task \notin QueuedTasks
      BY <1>0, <3>1 DEF Job, OneJob
    <3>3. RunYoung'
      BY <1>0, <3>1 DEF RunYoung
    <3>4. ASSUME NEW t \in Tasks PROVE RecordYoung(t)'
      <4>1. CASE work = "keep" /\ t # hand.task
        <5>1. stored'[t] = stored[t]
          BY <1>0, <3>1, <3>2, <4>1 DEF TypeOK
        <5> QED
          BY <1>0, <3>1, <4>1, <5>1 DEF RecordYoung, QueuedTasks, Handled
      <4>2. CASE work = "keep" /\ t = hand.task
        <5>1. stored'[t] = stored[t] \/ stored'[t] = data
          BY <1>0, <3>1, <3>2, <4>2 DEF TypeOK
        <5>2. t \notin QueuedTasks' /\ work' \notin {"release", "leave"}
          BY <3>1, <3>2, <4>2 DEF QueuedTasks
        <5>3. Runs(data) => data.text <= 1
          BY <1>0, <4>2 DEF RunYoung, Runs
        <5> QED
          BY <1>0, <5>1, <5>2, <5>3 DEF RecordYoung
      <4>3. CASE work = "conclude"
        <5>1. stored'[t] = IF t = hand.task THEN data ELSE stored[t]
          BY <1>0, <3>1, <3>2, <4>3 DEF TypeOK
        <5>2. t = hand.task => ~Runs(stored'[t])
          BY <3>1, <4>3, <5>1 DEF Runs
        <5>3. t # hand.task => ~Handled(t)' /\ stored'[t] = stored[t]
          BY <3>1, <5>1 DEF Handled
        <5> QED
          BY <1>0, <3>1, <5>2, <5>3 DEF RecordYoung, QueuedTasks
      <4> QED
        BY <3>1, <4>1, <4>2, <4>3
    <3>5. RequestYoung(c)'
      BY <2>2, <2>3, <3>1
    <3> QED
      BY <1>0, <3>1, <3>3, <3>4, <3>5 DEF Undying
  <2>10. CASE Release \/ Break \/ Leave
    <3>1. UNCHANGED stored /\ work' \in {"leave", "idle"} /\ work \in {"release", "leave"}
          /\ (work = "release" => UNCHANGED <<jobs, hand>>)
      <4>1. Break => work = "release"
        BY <1>0 DEF Break, TypeOK
      <4> QED
        BY <2>10, <4>1 DEF Release, Break, Leave, queue, redis
    <3>2. ASSUME NEW t \in Tasks, work = "leave" PROVE RecordYoung(t)'
      <4>1. Leave
        BY <1>0, <2>10, <3>2 DEF Release, Break
      <4>2. hand # None /\ hand' = None
        BY <1>0, <4>1 DEF Leave, Defined, WorkerDefined
      <4>3. t \in QueuedTasks' => t \in QueuedTasks \/ t = hand.task
        <5>1. CASE jobs' = jobs
          BY <5>1 DEF QueuedTasks
        <5>2. CASE jobs' # jobs
          <6>1. /\ event = "raised" /\ hand.attempts < MaxRetry
                /\ jobs' = Append(jobs, [hand EXCEPT !.attempts = @ + 1])
            BY <4>1, <5>2 DEF Leave
          <6>2. hand \in Job /\ hand.attempts \in Nat
            BY <1>0, <4>2 DEF Job
          <6>3. /\ [hand EXCEPT !.attempts = @ + 1] \in Job
                /\ [hand EXCEPT !.attempts = @ + 1].task = hand.task
            BY <6>1, <6>2, ChatAssumption DEF Job
          <6>4. jobs \in Seq(Job)
            BY <1>0 DEF TypeOK
          <6> HIDE DEF Job
          <6> QED
            BY <6>1, <6>3, <6>4, AppendJob DEF QueuedTasks
        <5> QED
          BY <5>1, <5>2
      <4> QED
        BY <1>0, <3>1, <3>2, <4>2, <4>3 DEF RecordYoung, Handled
    <3>3. ASSUME NEW t \in Tasks, work = "release" PROVE RecordYoung(t)'
      BY <1>0, <3>1, <3>3 DEF RecordYoung, Handled, QueuedTasks
    <3>4. RunYoung'
      BY <3>1 DEF RunYoung
    <3> QED
      BY <1>0, <2>2, <3>1, <3>2, <3>3, <3>4 DEF Undying
  <2>11. ~Restart
    BY <1>0 DEF Restart
  <2> QED
    BY <1>1, <2>5, <2>6, <2>7, <2>8, <2>9, <2>10, <2>11 DEF WorkerStep
<1>2. CASE /\ Chooses(c) \/ Joins(c) \/ Opens(c) \/ Looks(c)
           /\ UNCHANGED <<hand, worker, stopping, stops, counts>>
           /\ QueuedTasks' = QueuedTasks \/ Enqueue(c)
  <2>1. work' = work /\ RunYoung' /\ hand' = hand
    BY <1>0, <1>2 DEF worker, RunYoung
  <2>2. ASSUME NEW t \in Tasks PROVE stored'[t] = stored[t] \/ (Runs(stored'[t]) => stored'[t].text = 0)
    <3>1. UNCHANGED stored \/ /\ stored' = [stored EXCEPT ![asked[c]] = Object(c)]
                              /\ place[c] \in {"save", "queued", "expire"}
      BY <1>2 DEF Chooses, Joins, Opens, Looks, Shown
    <3>2. place[c] \in {"save", "queued"} => Object(c).text = 0
      BY DEF InStream, Opening
    <3>3. place[c] = "expire" => Object(c).status # "running"
      BY DEF InStream
    <3>4. place[c] \in {"save", "queued", "expire"} => asked[c] \in Tasks
      BY <1>0 DEF Holding
    <3> QED
      BY <1>0, <3>1, <3>2, <3>3, <3>4 DEF TypeOK, Runs
  <2>3. ASSUME NEW t \in Tasks
        PROVE  t \in QueuedTasks' /\ Runs(stored'[t]) => t \in QueuedTasks \/ stored'[t].text = 0
    <3>1. CASE Enqueue(c)
      <4>1. asked[c] \in Tasks /\ stored' = stored /\ place[c] = "enqueue"
        BY <1>0, <3>1 DEF Enqueue, redis, Holding
      <4>2. t \in QueuedTasks' => t \in QueuedTasks \/ t = asked[c]
        <5>1. CASE jobs' = jobs
          BY <5>1 DEF QueuedTasks
        <5>2. CASE jobs' = Append(jobs, [task |-> asked[c], attempts |-> 0])
          <6>1. /\ [task |-> asked[c], attempts |-> 0] \in Job
                /\ [task |-> asked[c], attempts |-> 0].task = asked[c]
            BY <4>1, ChatAssumption DEF Job
          <6>2. jobs \in Seq(Job)
            BY <1>0 DEF TypeOK
          <6> HIDE DEF Job
          <6> QED
            BY <5>2, <6>1, <6>2, AppendJob DEF QueuedTasks
        <5> QED
          BY <3>1, <5>1, <5>2 DEF Enqueue
      <4> QED
        BY <1>0, <4>1, <4>2 DEF RequestYoung
    <3> QED
      BY <1>2, <3>1
  <2>4. \A t \in Tasks : RecordYoung(t)'
    BY <1>0, <2>1, <2>2, <2>3 DEF RecordYoung, Handled
  <2>5. RequestYoung(c)'
    <3>1. CASE Chooses(c)
      BY <3>1 DEF Chooses, RequestYoung, Opening, Streaming
    <3>2. CASE Joins(c)
      BY <3>2 DEF Joins, RequestYoung, InStream, Opening, Streaming
    <3>3. CASE Opens(c)
      <4>1. sent[c] = 0 /\ sent' = sent /\ place'[c] \in {"save", "enqueue", "queued", "refresh"}
        BY <3>3 DEF Opens, InStream
      <4>2. place'[c] = "enqueue" => stored'[asked'[c]].text = 0
        <5> SUFFICES ASSUME place'[c] = "enqueue" PROVE stored'[asked'[c]].text = 0
          OBVIOUS
        <5>1. place[c] = "save" /\ asked' = asked /\ stored' = [stored EXCEPT ![asked[c]] = Object(c)]
          BY <3>3 DEF Opens
        <5> QED
          BY <1>0, <5>1 DEF InStream, Opening, Holding, TypeOK
      <4> QED
        BY <4>1, <4>2 DEF RequestYoung
    <3>4. CASE Looks(c)
      <4>1. CASE Shown(c, stored[asked[c]]) /\ place'[c] = "answer"
        <5>1. /\ asked[c] \in Tasks /\ stored[asked[c]] \in Answer /\ sent[c] <= 1
              /\ sent[c] \in Nat
          BY <1>0, <4>1 DEF Shown, RequestYoung, TypeOK, Holding
        <5>2. stored[asked[c]].status = "running" => stored[asked[c]].text \in 0..1
          BY <1>0, <5>1 DEF RecordYoung, Runs
        <5> QED
          BY <4>1, <5>1, <5>2 DEF Shown, RequestYoung
      <4>2. CASE place'[c] = "expire"
        BY <4>2 DEF RequestYoung
      <4>3. CASE place[c] = "expire" /\ place'[c] = "answer" /\ Object(c)' = Object(c)
        BY <4>3 DEF InStream, RequestYoung
      <4>4. CASE /\ place[c] = "answer" /\ Object(c).status = "running" /\ place'[c] = "refresh"
                 /\ sent' = sent
        BY <1>0, <4>4 DEF RequestYoung
      <4> QED
        BY <3>4, <4>1, <4>2, <4>3, <4>4 DEF Looks
    <3> QED
      BY <1>2, <3>1, <3>2, <3>3, <3>4
  <2> QED
    BY <1>0, <2>1, <2>4, <2>5 DEF Undying
<1> QED
  BY <1>0, <1>1, <1>2, StreamMoves

LEMMA UnstoppedStep ==
  ASSUME CInv, CInv', Worded, SavedFirst, Unstopped, NEW c \in Clients,
         \A d \in Clients : d = c, InStream(c), [Next]_vars,
         stopping' = stopping \/ StopStep
  PROVE  Unstopped'
<1> USE NoneAssumption
<1>0. /\ TypeOK /\ Defined /\ Registered /\ Alone /\ OneJob
      /\ stopping = None /\ RunKeeps /\ RequestKeeps(c)
      /\ place[c] \in Holding => asked[c] \in Tasks /\ Object(c) \in Answer
      /\ place[c] \in Streaming => stored[asked[c]] \in Answer
      /\ data \in Answer /\ hand \in Job \union {None} /\ sent \in [Clients -> Nat]
      /\ \A t \in Tasks : stored[t] # None => stored[t].text \in 0..2
      /\ hand # None => hand.task \in Tasks /\ stored[hand.task] # None
  <2>1. TypeOK /\ Defined /\ Registered /\ Alone /\ OneJob
    BY DEF CInv
  <2>2. place[c] \in Holding => /\ asked[c] \in Tasks /\ Object(c) \in Answer
                                /\ tasks[asked[c]] # None
    BY <2>1, ObjectIsAnswer DEF Defined, RequestDefined
  <2>3. place[c] \in Streaming => stored[asked[c]] # None
    BY <2>2 DEF SavedFirst, Holding, Streaming
  <2>4. place[c] \in Streaming => stored[asked[c]] \in Answer
    BY <2>1, <2>2, <2>3 DEF TypeOK, Holding, Streaming
  <2>5. \A t \in Tasks : stored[t] # None => stored[t].text \in 0..2
    BY <2>1 DEF TypeOK, Answer
  <2>6. hand # None => hand.task \in Tasks /\ stored[hand.task] # None
    BY <2>1 DEF TypeOK, Job, Registered, Handled
  <2> QED
    BY <2>1, <2>2, <2>4, <2>5, <2>6 DEF Unstopped, TypeOK
<1>1. stopping' = None /\ ~StopStep
  BY <1>0 DEF StopStep, StopSave, StopSignal
<1>2. CASE /\ Waits(c)
           /\ StopStep \/ WorkerStep \/ Die \/ UNCHANGED <<redis, queue, worker, counts>>
  <2>1. ASSUME place[c] \in Streaming => stored[asked[c]].text <= stored'[asked[c]].text
                                         /\ stored'[asked[c]].text \in Nat
        PROVE  RequestKeeps(c)'
    <3> SUFFICES ASSUME place[c] \in Streaming PROVE RequestKeeps(c)'
      BY <1>2 DEF Waits, RequestKeeps, Streaming
    <3>1. /\ sent[c] \in Nat /\ stored[asked[c]].text \in Nat /\ Object(c).text \in Nat
          /\ Object(c)' = Object(c)
      BY <1>0, <1>2 DEF Waits, Streaming, Holding, Answer
    <3>2. place'[c] = place[c] /\ asked'[c] = asked[c] /\ sent'[c] = sent[c]
      BY <1>2 DEF Waits
    <3> QED
      BY <1>0, <2>1, <3>1, <3>2 DEF RequestKeeps
  <2>2. ASSUME UNCHANGED stored PROVE RequestKeeps(c)'
    BY <1>0, <1>2, <2>2 DEF Waits, RequestKeeps, Holding, Streaming
  <2>3. CASE UNCHANGED <<redis, queue, worker>> \/ Persist
    <3>1. UNCHANGED <<stored, hand, data>> /\ (work' \in {"run", "keep", "conclude"} => work \in {"run", "keep", "conclude"})
      BY <2>3 DEF redis, queue, worker, Persist
    <3> QED
      BY <1>0, <1>1, <2>2, <3>1 DEF Unstopped, RunKeeps
  <2>4. CASE Take
    <3>1. /\ UNCHANGED stored /\ hand' = Head(jobs)
          /\ work' = "leave" \/ data' = stored[hand'.task]
          /\ Head(jobs) \in Job /\ Head(jobs).task \in QueuedTasks
      BY <1>0, <2>4, TailJob DEF Take, TypeOK, QueuedTasks, redis
    <3>2. hand'.task \in Tasks /\ stored[hand'.task] # None
      BY <1>0, <3>1 DEF Job, Registered
    <3>3. RunKeeps'
      BY <1>0, <3>1, <3>2 DEF RunKeeps
    <3> QED
      BY <1>1, <2>2, <3>1, <3>3 DEF Unstopped
  <2>5. CASE Obey \/ Apply \/ Raise
    <3>1. UNCHANGED <<stored, hand>> /\ work \in {"run", "keep", "conclude"} /\ hand # None
      BY <1>0, <2>5 DEF Obey, Apply, Raise, redis, queue, Defined, WorkerDefined
    <3>2. data'.text \in Nat /\ data.text <= data'.text
      <4>1. \/ data' = data \/ \E s \in Status : data' = [data EXCEPT !.status = s]
            \/ data' = [data EXCEPT !.text = IF @ = 0 THEN 1 ELSE 2]
        BY <2>5 DEF Obey, Apply, Raise, Status
      <4>2. data.text \in 0..2
        BY <1>0 DEF Answer
      <4>3. CASE data' = data
        BY <4>2, <4>3
      <4>4. CASE \E s \in Status : data' = [data EXCEPT !.status = s]
        BY <1>0, <4>2, <4>4 DEF Answer
      <4>5. CASE data' = [data EXCEPT !.text = IF @ = 0 THEN 1 ELSE 2]
        <5>1. data'.text = IF data.text = 0 THEN 1 ELSE 2
          BY <1>0, <4>5 DEF Answer
        <5> QED
          BY <4>2, <5>1
      <4> QED
        BY <4>1, <4>3, <4>4, <4>5
    <3>3. RunKeeps'
      <4>1. stored[hand.task].text \in Nat /\ stored[hand.task].text <= data.text /\ data.text \in Nat
        BY <1>0, <3>1 DEF RunKeeps, Answer
      <4> QED
        BY <3>1, <3>2, <4>1 DEF RunKeeps
    <3> QED
      BY <1>1, <2>2, <3>1, <3>3 DEF Unstopped
  <2>6. CASE Keep \/ Conclude
    <3>1. /\ hand # None /\ UNCHANGED <<hand, data>> /\ work \in {"keep", "conclude"}
          /\ UNCHANGED stored \/ stored' = [stored EXCEPT ![hand.task] = data]
      BY <1>0, <2>6 DEF Keep, Conclude, queue, Defined, WorkerDefined
    <3>2. data.text \in Nat /\ stored[hand.task].text <= data.text
      BY <1>0, <3>1 DEF RunKeeps, Answer
    <3>3. RunKeeps'
      BY <1>0, <3>1, <3>2 DEF RunKeeps, TypeOK
    <3>4. RequestKeeps(c)'
      <4>1. CASE UNCHANGED stored
        BY <2>2, <4>1
      <4>2. CASE stored' = [stored EXCEPT ![hand.task] = data]
        <5>1. ASSUME place[c] \in Streaming
              PROVE  /\ stored[asked[c]].text <= stored'[asked[c]].text
                     /\ stored'[asked[c]].text \in Nat
          <6>1. asked[c] \in Tasks /\ stored[asked[c]].text \in Nat
            BY <1>0, <5>1 DEF Streaming, Holding, Answer
          <6>2. stored'[asked[c]] = IF asked[c] = hand.task THEN data ELSE stored[asked[c]]
            BY <1>0, <4>2, <6>1 DEF TypeOK
          <6> QED
            BY <3>2, <6>1, <6>2
        <5> QED
          BY <2>1, <5>1
      <4> QED
        BY <3>1, <4>1, <4>2
    <3> QED
      BY <1>1, <3>3, <3>4 DEF Unstopped
  <2>7. CASE Release \/ Break \/ Leave \/ Restart \/ Die
    <3>1. UNCHANGED stored /\ work' \in {"leave", "idle", "down"}
      BY <2>7 DEF Release, Break, Leave, Restart, Die, redis
    <3>2. RunKeeps'
      BY <3>1 DEF RunKeeps
    <3> QED
      BY <1>1, <2>2, <3>1, <3>2 DEF Unstopped
  <2> QED
    BY <1>1, <1>2, <2>3, <2>4, <2>5, <2>6, <2>7 DEF WorkerStep
<1>3. CASE /\ Chooses(c) \/ Joins(c) \/ Opens(c) \/ Looks(c)
           /\ UNCHANGED <<hand, worker, stopping, stops, counts>>
  <2>1. RunKeeps'
    <3>1. UNCHANGED <<hand, work, data>>
      BY <1>3 DEF worker
    <3> SUFFICES ASSUME work \in {"run", "keep", "conclude"}
                 PROVE  stored'[hand.task].text <= data.text
      BY <3>1 DEF RunKeeps
    <3>2. /\ hand # None /\ hand.task \in Tasks /\ data.text \in Nat
          /\ stored[hand.task].text \in Nat /\ stored[hand.task].text <= data.text
      BY <1>0 DEF RunKeeps, Answer, Defined, WorkerDefined
    <3>3. UNCHANGED stored \/ /\ stored' = [stored EXCEPT ![asked[c]] = Object(c)]
                              /\ place[c] \in {"save", "queued", "expire"}
      BY <1>3 DEF Chooses, Joins, Opens, Looks, Shown
    <3>4. place[c] \in {"save", "queued"} => Object(c).text = 0 /\ asked[c] \in Tasks
      BY <1>0 DEF InStream, Opening, Holding
    <3>5. place[c] = "expire" => /\ Object(c).text <= stored[asked[c]].text
                                 /\ Object(c).text \in Nat
      BY <1>0 DEF RequestKeeps, Holding, Answer
    <3>6. CASE UNCHANGED stored
      BY <3>2, <3>6
    <3>7. CASE stored' = [stored EXCEPT ![asked[c]] = Object(c)]
      <4>1. stored'[hand.task] = IF hand.task = asked[c] THEN Object(c) ELSE stored[hand.task]
        BY <1>0, <3>2, <3>7 DEF TypeOK
      <4>2. CASE hand.task = asked[c] /\ ~UNCHANGED stored
        BY <3>2, <3>3, <3>4, <3>5, <4>1, <4>2
      <4> QED
        BY <3>2, <3>6, <4>1, <4>2
    <3> QED
      BY <3>3, <3>6, <3>7
  <2>2. RequestKeeps(c)'
    <3>1. CASE Chooses(c)
      BY <3>1 DEF Chooses, RequestKeeps, Streaming
    <3>2. CASE Joins(c)
      <4>1. /\ asked'[c] \in Tasks /\ tasks[asked'[c]] # None /\ place[c] \notin {"save"}
            /\ stored' = stored /\ sent'[c] = 0 /\ place'[c] = "refresh"
        BY <3>2 DEF Joins, InStream, Opening
      <4>2. stored[asked'[c]] # None
        BY <4>1 DEF SavedFirst
      <4>3. stored'[asked'[c]].text \in 0..2
        BY <1>0, <4>1, <4>2
      <4> QED
        BY <4>1, <4>3 DEF RequestKeeps
    <3>3. CASE Opens(c)
      <4>1. CASE place'[c] # "refresh"
        BY <3>3, <4>1 DEF Opens, RequestKeeps, Streaming
      <4>2. CASE place'[c] = "refresh"
        <5>1. /\ asked' = asked /\ stored' = [stored EXCEPT ![asked[c]] = Object(c)]
              /\ sent'[c] = 0 /\ place[c] = "queued"
          BY <3>3, <4>2 DEF Opens, InStream
        <5>2. stored'[asked'[c]].text \in Nat
          BY <1>0, <5>1 DEF Holding, Answer, TypeOK
        <5> QED
          BY <4>2, <5>1, <5>2 DEF RequestKeeps
      <4> QED
        BY <4>1, <4>2
    <3>4. CASE Looks(c)
      <4>0. sent[c] \in Nat
        BY <1>0
      <4>1. ASSUME place[c] = "refresh", NEW record, record.text = stored[asked[c]].text,
                   Shown(c, record)
            PROVE  RequestKeeps(c)'
        <5>1. /\ sent[c] <= record.text /\ record.text \in Nat
              /\ stored'[asked'[c]].text = record.text /\ Object(c)' = record
          BY <1>0, <4>1 DEF RequestKeeps, Shown, Streaming, Answer
        <5>2. sent'[c] = record.text
          BY <4>0, <4>1, <5>1 DEF Shown
        <5> QED
          BY <5>1, <5>2 DEF RequestKeeps
      <4>2. CASE Shown(c, stored[asked[c]])
        BY <4>1, <4>2 DEF Shown
      <4>3. CASE Shown(c, [stored[asked[c]] EXCEPT !.status = "failed"])
        <5>1. stored[asked[c]] \in Answer /\ place[c] = "refresh"
          BY <1>0, <4>3 DEF Shown, Streaming
        <5>2. [stored[asked[c]] EXCEPT !.status = "failed"].text = stored[asked[c]].text
          BY <5>1 DEF Answer
        <5> QED
          BY <4>1, <4>3, <5>1, <5>2
      <4>4. CASE /\ place[c] = "expire" /\ place'[c] = "answer"
                 /\ asked' = asked /\ sent' = sent /\ Object(c)' = Object(c)
                 /\ stored' = [stored EXCEPT ![asked[c]] = Object(c)]
        <5>1. stored'[asked'[c]] = Object(c)
          BY <1>0, <4>4 DEF Holding, TypeOK
        <5> QED
          BY <1>0, <4>4, <5>1 DEF RequestKeeps
      <4>5. CASE /\ place[c] = "answer" /\ place'[c] = "refresh"
                 /\ asked' = asked /\ sent' = sent /\ stored' = stored
        BY <1>0, <4>5 DEF RequestKeeps, Streaming
      <4> QED
        BY <3>4, <4>2, <4>3, <4>4, <4>5 DEF Looks
    <3> QED
      BY <1>3, <3>1, <3>2, <3>3, <3>4
  <2> QED
    BY <1>1, <2>1, <2>2 DEF Unstopped
<1> QED
  BY <1>0, <1>2, <1>3, StreamMoves

-----------------------------------------------------------------------------
LEMMA SInvInit == Init => SInv
<1> SUFFICES ASSUME Init PROVE SInv
  OBVIOUS
<1>1. CInv
  BY CInvInit
<1>2. QueuedTasks = {}
  BY DEF Init, QueuedTasks, TasksOf
<1>3. Worded /\ SavedFirst
  BY DEF Init, Worded, Full, SavedFirst, NewTask
<1>4. \A c \in Clients : InStream(c)
  BY DEF Init, InStream, Opening, Streaming
<1>5. Calm
  BY <1>2 DEF Init, Calm, Undying, RunYoung, RecordYoung, RequestYoung, Runs
<1>6. Kind
  BY DEF Init, Kind, Unstopped, RunKeeps, RequestKeeps, Streaming
<1> QED
  BY <1>1, <1>3, <1>4, <1>5, <1>6 DEF SInv

LEMMA SInvStep ==
  ASSUME OneStream, SInv, [Next]_vars
  PROVE  SInv'
<1>0. /\ CInv /\ TypeOK /\ Defined /\ Registered /\ Alone /\ OneJob
      /\ Worded /\ SavedFirst /\ Calm /\ Kind /\ \A c \in Clients : InStream(c)
  BY DEF SInv, CInv
<1>1. CInv' /\ Worded' /\ SavedFirst'
  BY <1>0, CInvStep, WordedStep, SavedFirstStep
<1>2. PICK c \in Clients : \A d \in Clients : d = c
  BY DEF OneStream
<1>3. \A d \in Clients : InStream(d)'
  <2>1. InStream(c)'
    BY <1>0, <1>2, InStreamStep
  <2> QED
    BY <1>2, <2>1
<1>4. Calm'
  <2> SUFFICES ASSUME Clean' PROVE Undying'
    BY DEF Calm
  <2>1. Undying /\ ~Die /\ unsaved' = unsaved
    BY <1>0, CountsGrow DEF Calm
  <2> QED
    BY <1>0, <1>2, <2>1, UndyingStep
<1>5. Kind'
  <2> SUFFICES ASSUME stops' = 0 PROVE Unstopped'
    BY DEF Kind
  <2>1. Unstopped /\ (stopping' = stopping \/ StopStep)
    BY <1>0, CountsGrow DEF Kind
  <2> QED
    BY <1>0, <1>1, <1>2, <2>1, UnstoppedStep
<1> QED
  BY <1>1, <1>3, <1>4, <1>5 DEF SInv

(* While one stream is open at a time, and unless a stop came together     *)
(* with a death of the worker or a failure it could not save, a stream     *)
(* that ends with "done" has sent the whole text of the answer             *)
(* (_stream_answer_task), whatever the request, the stop and the worker    *)
(* have written over each other before.                                    *)
THEOREM DoneSendsTheWhole ==
  OneStream => (Spec => [](stops = 0 \/ Clean => DoneIsWhole))
<1> SUFFICES ASSUME OneStream PROVE Spec => [](stops = 0 \/ Clean => DoneIsWhole)
  OBVIOUS
<1>1. SInv => (stops = 0 \/ Clean => DoneIsWhole)
  <2> SUFFICES ASSUME SInv, stops = 0 \/ Clean, NEW c \in Clients, Ending(c),
                      Object(c).status = "completed"
               PROVE  sent[c] > 0 /\ sent[c] = Object(c).text
    BY DEF DoneIsWhole
  <2>1. place[c] = "answer" /\ Worded /\ InStream(c)
    BY DEF Ending, SInv
  <2>2. asked[c] \in Tasks /\ Object(c) \in Answer
    BY <2>1, ObjectIsAnswer DEF SInv, CInv, Holding
  <2>3. Full(Object(c))
    BY <2>2 DEF Worded, Object, SInv
  <2>4. sent[c] = Object(c).text
    BY <2>1 DEF InStream
  <2>5. Object(c).text \in Nat /\ Object(c).text >= 1
    BY <2>2, <2>3, NoneAssumption DEF Full, Answer
  <2> QED
    BY <2>4, <2>5
<1>2. SInv /\ [Next]_vars => SInv'
  BY SInvStep
<1> QED
  BY <1>1, <1>2, SInvInit, PTL DEF Spec
=============================================================================
