----------------------- MODULE ResearchExecutionProofs -----------------------
(***************************************************************************)
(* What holds of ResearchExecution for every plan, every number of workers *)
(* and clients, and every bound, whatever dies and whatever overlaps.      *)
(*                                                                         *)
(* IInv carries the two arguments.  What a session has loaded may be old,  *)
(* but it was true, and what it says of a dependency stays true: outputs   *)
(* are never taken away (GoodRows).  And the attempts of a task are only   *)
(* written by the worker that holds the lock and has read them since       *)
(* (LockHeld, Counted).                                                    *)
(*                                                                         *)
(* The rows of an execution promise each other something only while        *)
(* transactions do not overlap.  UInv says what a process may rely on      *)
(* between its read and its last commit (Local): that its rows are the     *)
(* table's, or, for a worker whose executor ran meanwhile, that they are   *)
(* but for dispatches or a cancellation (Near), which make no difference   *)
(* to what the execution becomes.                                          *)
(***************************************************************************)
EXTENDS MCResearchTurns, TLAPS

(* What may be said of the tasks in a session or in the table: a completed *)
(* task has its outputs, one that was dispatched those of its              *)
(* dependencies, and only a task to be confirmed waits for the user.       *)
Sound(rows, outs) ==
  \A t \in Tasks :
    /\ rows.task[t] = "completed" => t \in outs
    /\ rows.task[t] \notin {"pending", "cancelled"} => Deps[t] \subseteq outs
    /\ rows.task[t] = "waiting_user" => t \in Confirm

GoodRows ==
  /\ exec \in Statuses /\ task \in [Tasks -> Statuses] /\ tries \in [Tasks -> Nat]
  /\ mem \in [Procs -> Rows]
  /\ Sound(Table, outputs)
  /\ \A p \in Procs : Sound(mem[p], outputs)

Stock ==
  /\ planned \in BOOLEAN
  /\ outputs \subseteq Tasks /\ selected \subseteq Confirm
  /\ lock \in Workers \union {None}
  /\ queue \in [Job -> Nat]
  /\ todo \in [Procs -> SUBSET Tasks]
  /\ request \in [Clients -> RequestKinds \union {"none"}]
  /\ requests \in 0..MaxRequests /\ deaths \in 0..MaxDeaths
  /\ runs \in [Tasks -> Nat]

(* The handler of a job is between its read of the rows and its end. *)
Handling(w) ==
  \/ pc[w] \in {"loaded", "run", "work", "interrupt", "interrupted", "stopping",
                "complete", "completing", "finish"}
  \/ pc[w] \in {"advance", "publish"} /\ then[w] = "finish"

(* A worker in its handler has a job, past its first commit one whose      *)
(* inputs exist, and at the end a result that suits the task.              *)
Hand(w) ==
  /\ Handling(w) \/ pc[w] = "lock" => job[w] \in Job
  /\ pc[w] \in {"run", "work", "interrupt", "interrupted", "complete", "completing"}
       => Deps[Task(w)] \subseteq outputs
  /\ pc[w] \in {"complete", "completing"} =>
       /\ result[w] \in Outcomes \union {Exhausted}
       /\ result[w].status = "waiting_user" => Task(w) \in Confirm

Control ==
  /\ pc \in [Procs -> Places]
  /\ then \in [Procs -> {"idle", "control", "republish", "done", "finish", "down"}]
  /\ job \in [Workers -> Job \union {None}]
  /\ result \in [Workers -> Result \union {None}]
  /\ \A w \in Workers : Hand(w)

(* The handler runs under the advisory lock. *)
LockHeld == \A w \in Workers : Handling(w) => lock = w

(* Every start of an executor is counted, and what a worker is about to    *)
(* count from is up to date.                                               *)
Counted ==
  /\ runs = tries
  /\ \A t \in Tasks : tries[t] <= MaxAttempts
  /\ \A w \in Workers : pc[w] = "loaded" => mem[w].tries = tries

TInv == Stock /\ Control /\ GoodRows
IInv == TInv /\ LockHeld /\ Counted

-----------------------------------------------------------------------------
(* Rows. *)

(* A closed session and a job's first attempt are well formed. *)
LEMMA BlankIsSound ==
  /\ Blank \in Rows /\ \A outs : Sound(Blank, outs)
  /\ \A t \in Tasks : [task |-> t, attempts |-> 0] \in Job
  BY ConstantsAssumption DEF Blank, Rows, Sound, Statuses, Job

(* What was said of the rows stays true: outputs are never taken away. *)
LEMMA SoundGrows ==
  ASSUME NEW rows, NEW outs, NEW more, outs \subseteq more, Sound(rows, outs)
  PROVE  Sound(rows, more)
  BY DEF Sound

(* A commit puts sound columns among sound columns. *)
LEMMA CommitKeeps ==
  ASSUME GoodRows, NEW p \in Procs, NEW new \in Rows,
         outputs \subseteq outputs', Sound(new, outputs'), Commit(p, new)
  PROVE  GoodRows'
<1>0. /\ exec \in Statuses /\ task \in [Tasks -> Statuses] /\ tries \in [Tasks -> Nat]
      /\ mem \in [Procs -> Rows]
      /\ new.exec \in Statuses /\ new.task \in [Tasks -> Statuses] /\ new.tries \in [Tasks -> Nat]
  BY DEF GoodRows, Rows
<1>1. /\ exec' \in Statuses /\ task' \in [Tasks -> Statuses] /\ tries' \in [Tasks -> Nat]
      /\ mem' \in [Procs -> Rows]
  BY <1>0 DEF Commit
<1>2. \A t \in Tasks : task'[t] = new.task[t] \/ task'[t] = task[t]
  BY DEF Commit
<1>3. Sound(Table, outputs') /\ \A q \in Procs : Sound(mem[q], outputs')
  BY SoundGrows DEF GoodRows
<1>4. Sound(Table, outputs)'
  <2>1. Sound(Table', outputs')
    BY <1>2, <1>3 DEF Sound, Table
  <2> QED
    BY <2>1
<1>5. ASSUME NEW q \in Procs PROVE Sound(mem[q], outputs)'
  <2>1. mem'[q] = IF q = p THEN new ELSE mem[q]
    BY <1>0 DEF Commit
  <2> QED
    BY <1>3, <2>1
<1> QED
  BY <1>1, <1>4, <1>5 DEF GoodRows

(* A step that writes no row and at most reloads a session. *)
LEMMA ReloadKeeps ==
  ASSUME GoodRows, NEW p \in Procs, NEW rows \in Rows, Sound(rows, outputs),
         UNCHANGED <<exec, task, tries, outputs>>, mem' = [mem EXCEPT ![p] = rows]
  PROVE  GoodRows'
<1>1. mem' \in [Procs -> Rows] /\ \A q \in Procs : mem'[q] = IF q = p THEN rows ELSE mem[q]
  BY DEF GoodRows
<1>2. \A q \in Procs : Sound(mem'[q], outputs')
  BY <1>1 DEF GoodRows
<1>3. Sound(Table, outputs)'
  BY DEF GoodRows, Table, Sound
<1> QED
  BY <1>1, <1>2, <1>3 DEF GoodRows

(* A step that touches neither rows nor sessions.                          *)
LEMMA NoRowsKeep ==
  ASSUME GoodRows, UNCHANGED <<exec, task, tries, outputs, mem>>
  PROVE  GoodRows'
<1>1. Sound(Table, outputs)'
  BY DEF GoodRows, Table, Sound
<1> QED
  BY <1>1 DEF GoodRows

(* The table is rows like any others.                                      *)
LEMMA TableIsSound == GoodRows => Table \in Rows /\ Sound(Table, outputs)
  BY DEF GoodRows, Table, Rows

(* The steps of a session, of a client and of a worker that write no row. *)
Unwritten(p) ==
  \/ NothingToDispatch(p) \/ Publish(p) \/ Republish(p) \/ Done(p) \/ Die(p)
  \/ /\ p \in Clients
     /\ Receive(p) \/ Reject(p) \/ (Initialize(p) /\ planned)
  \/ /\ p \in Workers
     /\ \/ TakeJob(p) \/ LockProject(p) \/ Skip(p) \/ RecoverGap(p) \/ GiveUp(p)
        \/ Checkpoint(p) \/ Work(p) \/ Execute(p) \/ ShutDown(p) \/ ReadInterrupted(p)
        \/ Stopped(p) \/ ReadCompletion(p) \/ AlreadyTerminal(p) \/ VerifyFails(p)
        \/ IllegalCompletion(p) \/ Finish(p) \/ Restart(p)

(* And those that do. *)
Written(p) ==
  \/ Dispatch(p)
  \/ /\ p \in Clients
     /\ (Initialize(p) /\ ~planned) \/ Cancel(p) \/ Pause(p) \/ Resume(p) \/ Respond(p)
  \/ /\ p \in Workers
     /\ Begin(p) \/ Interrupt(p) \/ CancelledMeanwhile(p) \/ Complete(p)

(* Every step is a step of one process, and either writes a row or not.    *)
LEMMA StepsOfProcesses == Next <=> \E p \in Procs : Unwritten(p) \/ Written(p)
  BY DEF Next, SessionStep, ClientStep, WorkerStep, Unwritten, Written, Procs

(* What a step that writes no row does to the sessions. *)
LEMMA UnwrittenRows ==
  ASSUME NEW p \in Procs, Unwritten(p), GoodRows
  PROVE  /\ UNCHANGED <<exec, task, tries, outputs>>
         /\ \/ UNCHANGED mem
            \/ mem' = [mem EXCEPT ![p] = Blank] \/ mem' = [mem EXCEPT ![p] = Table]
            \/ mem' = [mem EXCEPT ![p].exec = exec]
            \/ p \in Workers /\ mem' = [mem EXCEPT ![p] =
                 [mem[p] EXCEPT !.exec = exec, !.task[Task(p)] = task[Task(p)],
                                !.tries[Task(p)] = tries[Task(p)]]]
<1>1. CASE NothingToDispatch(p) \/ Publish(p) \/ Republish(p) \/ Done(p) \/ Die(p)
  BY <1>1 DEF NothingToDispatch, Publish, Republish, Done, Die, Close, database
<1>2. CASE Receive(p) \/ Reject(p) \/ (Initialize(p) /\ planned)
  BY <1>2 DEF Receive, Reject, Initialize, Load, Close, database
<1>3. ASSUME p \in Workers,
             \/ TakeJob(p) \/ LockProject(p) \/ Skip(p) \/ RecoverGap(p) \/ GiveUp(p)
             \/ Checkpoint(p) \/ Work(p) \/ Execute(p)
      PROVE  UNCHANGED <<exec, task, tries, outputs>>
             /\ \/ UNCHANGED mem
                \/ mem' = [mem EXCEPT ![p] = Blank] \/ mem' = [mem EXCEPT ![p] = Table]
                \/ mem' = [mem EXCEPT ![p].exec = exec]
  BY <1>3
  DEF TakeJob, LockProject, Skip, RecoverGap, GiveUp, Checkpoint, Work, Execute,
      Return, Load, Close, database
<1>4. ASSUME p \in Workers,
             \/ ShutDown(p) \/ ReadInterrupted(p)
             \/ Stopped(p) \/ AlreadyTerminal(p) \/ VerifyFails(p)
             \/ IllegalCompletion(p) \/ Finish(p) \/ Restart(p)
      PROVE  UNCHANGED <<exec, task, tries, outputs>>
             /\ \/ UNCHANGED mem
                \/ mem' = [mem EXCEPT ![p] = Blank] \/ mem' = [mem EXCEPT ![p] = Table]
  BY <1>4
  DEF ShutDown, ReadInterrupted, Stopped, AlreadyTerminal, VerifyFails,
      IllegalCompletion, Finish, Restart, Return, Raise, Load, Close, database
<1>5. ASSUME p \in Workers, ReadCompletion(p)
      PROVE  UNCHANGED <<exec, task, tries, outputs>>
             /\ \/ mem' = [mem EXCEPT ![p] = Table]
                \/ mem' = [mem EXCEPT ![p] =
                     [mem[p] EXCEPT !.exec = exec, !.task[Task(p)] = task[Task(p)],
                                    !.tries[Task(p)] = tries[Task(p)]]]
  BY <1>5 DEF ReadCompletion, GoodRows, database
<1> QED
  BY <1>1, <1>2, <1>3, <1>4, <1>5 DEF Unwritten

(* Sessions that are closed or reloaded stay sound.                        *)
LEMMA UnwrittenKeeps ==
  ASSUME NEW p \in Procs, Unwritten(p), GoodRows
  PROVE  GoodRows'
<1>0. mem[p] \in Rows /\ Sound(mem[p], outputs) /\ Table \in Rows /\ Sound(Table, outputs)
      /\ mem \in [Procs -> Rows]
  BY TableIsSound DEF GoodRows
<1>1. CASE UNCHANGED mem
  BY <1>1, NoRowsKeep, UnwrittenRows
<1>2. CASE mem' = [mem EXCEPT ![p] = Blank] \/ mem' = [mem EXCEPT ![p] = Table]
  BY <1>0, <1>2, BlankIsSound, ReloadKeeps, UnwrittenRows
<1>3. CASE mem' = [mem EXCEPT ![p].exec = exec]
  <2> DEFINE rows == [mem[p] EXCEPT !.exec = exec]
  <2>1. rows \in Rows /\ Sound(rows, outputs) /\ mem' = [mem EXCEPT ![p] = rows]
    BY <1>0, <1>3 DEF Rows, Sound, GoodRows
  <2> HIDE DEF rows
  <2> QED
    BY <2>1, ReloadKeeps, UnwrittenRows
<1>4. ASSUME p \in Workers,
             mem' = [mem EXCEPT ![p] =
                 [mem[p] EXCEPT !.exec = exec, !.task[Task(p)] = task[Task(p)],
                                !.tries[Task(p)] = tries[Task(p)]]]
      PROVE  GoodRows'
  <2> DEFINE rows == [mem[p] EXCEPT !.exec = exec, !.task[Task(p)] = task[Task(p)],
                                    !.tries[Task(p)] = tries[Task(p)]]
  <2>1. rows \in Rows
    BY <1>0 DEF Rows, GoodRows
  <2>2. Sound(rows, outputs)
    <3>1. \A t \in Tasks : rows.task[t] = mem[p].task[t] \/ rows.task[t] = Table.task[t]
      BY <1>0 DEF Rows, Table
    <3> QED
      BY <1>0, <3>1 DEF Sound
  <2>3. mem' = [mem EXCEPT ![p] = rows]
    BY <1>4
  <2> HIDE DEF rows
  <2> QED
    BY <2>1, <2>2, <2>3, ReloadKeeps, UnwrittenRows
<1> QED
  BY <1>1, <1>2, <1>3, <1>4, UnwrittenRows

(* What each write makes of the rows is sound again. *)
LEMMA WritesAreSound ==
  ASSUME NEW p \in Procs, Written(p), GoodRows, Control
  PROVE  /\ outputs \subseteq outputs'
         /\ \E new \in Rows : /\ Commit(p, new) /\ Sound(new, outputs')
                              /\ \/ p \in Workers /\ Begin(p)
                                 \/ new.tries = mem[p].tries
<1> DEFINE Fine == /\ outputs \subseteq outputs'
                   /\ \E new \in Rows : /\ Commit(p, new) /\ Sound(new, outputs')
                                        /\ \/ p \in Workers /\ Begin(p)
                                           \/ new.tries = mem[p].tries
           m == mem[p]
<1>0. /\ m \in Rows /\ Sound(m, outputs)
      /\ m.exec \in Statuses /\ m.task \in [Tasks -> Statuses] /\ m.tries \in [Tasks -> Nat]
      /\ \A e \in Statuses, f \in [Tasks -> Statuses] :
           [m EXCEPT !.exec = e, !.task = f] \in Rows
  BY DEF GoodRows, Rows
<1> HIDE DEF m, Fine
<1>s. {"pending", "queued", "running", "waiting_user", "retrying", "completed", "partial",
       "blocked", "failed", "cancelled", "paused"} = Statuses
  BY DEF Statuses
(* The rows a write makes, given the new statuses. *)
<1>w. ASSUME NEW e \in Statuses, NEW f \in [Tasks -> Statuses],
             outputs \subseteq outputs', Sound([task |-> f], outputs'),
             \/ Commit(p, [m EXCEPT !.exec = e, !.task = f])
             \/ Commit(p, [m EXCEPT !.exec = e]) /\ f = m.task
             \/ Commit(p, [m EXCEPT !.task = f]) /\ e = m.exec
             \/ Commit(p, m) /\ e = m.exec /\ f = m.task
      PROVE  Fine
  <2> DEFINE new == [m EXCEPT !.exec = e, !.task = f]
  <2>1. new \in Rows /\ new.task = f /\ new.exec = e /\ new.tries = m.tries
    BY <1>0 DEF Rows
  <2>2. /\ f = m.task => new = [m EXCEPT !.exec = e]
        /\ e = m.exec => new = [m EXCEPT !.task = f]
        /\ e = m.exec /\ f = m.task => new = m
    BY <1>0 DEF Rows
  <2>3. Commit(p, new)
    BY <1>w, <2>2
  <2>4. Sound(new, outputs')
    BY <1>w, <2>1 DEF Sound
  <2> HIDE DEF new
  <2> QED
    BY <1>w, <2>1, <2>3, <2>4 DEF Fine, m
(* One task moves to a status that needs no more than its dependencies. *)
<1>t. ASSUME NEW t \in Tasks, NEW s \in Statuses \ {"completed", "waiting_user"},
             outputs' = outputs,
             s \in {"pending", "cancelled"} \/ Deps[t] \subseteq outputs
      PROVE  /\ [m.task EXCEPT ![t] = s] \in [Tasks -> Statuses]
             /\ Sound([task |-> [m.task EXCEPT ![t] = s]], outputs')
             /\ [m EXCEPT !.task[t] = s] = [m EXCEPT !.task = [m.task EXCEPT ![t] = s]]
  BY <1>0, <1>t DEF Sound, Rows
<1>m. Sound([task |-> m.task], outputs)
  BY <1>0 DEF Sound
<1>1. ASSUME Dispatch(p) PROVE Fine
  <2>1. PICK t \in Dispatchable(m) : Commit(p, [m EXCEPT !.task[t] = "queued"])
    BY <1>1 DEF Dispatch, m
  <2>2. t \in Tasks /\ \A d \in Deps[t] : m.task[d] = "completed"
    BY DEF Dispatchable, Ready
  <2>3. outputs' = outputs /\ Deps[t] \subseteq outputs
    BY <1>0, <1>1, <2>2, ConstantsAssumption DEF Dispatch, Sound
  <2> DEFINE f == [m.task EXCEPT ![t] = "queued"]
  <2>4. /\ f \in [Tasks -> Statuses] /\ Sound([task |-> f], outputs')
        /\ [m EXCEPT !.task[t] = "queued"] = [m EXCEPT !.task = f]
    BY <1>s, <1>t, <2>2, <2>3
  <2>5. Commit(p, [m EXCEPT !.task = f])
    BY <2>1, <2>4
  <2> HIDE DEF f
  <2> QED
    BY <1>0, <1>w, <2>3, <2>4, <2>5
<1>2. ASSUME Initialize(p), ~planned PROVE Fine
  <2>1. /\ outputs' = outputs
        /\ Commit(p, [m EXCEPT !.exec = "blocked"]) \/ Commit(p, m)
    BY <1>2 DEF Initialize, m
  <2> QED
    BY <1>0, <1>m, <1>s, <1>w, <2>1
<1>3. ASSUME Cancel(p) PROVE Fine
  <2> DEFINE f == [t \in Tasks |-> IF m.task[t] \in Terminal THEN m.task[t] ELSE "cancelled"]
             e == IF m.exec \in Terminal THEN m.exec ELSE "cancelled"
  <2>1. outputs' = outputs /\ Commit(p, [m EXCEPT !.exec = e, !.task = f])
    <3>1. Cancelled(m) = [m EXCEPT !.exec = e, !.task = f]
      BY <1>0 DEF Cancelled, Rows
    <3> HIDE DEF e, f
    <3> QED
      BY <1>3, <3>1 DEF Cancel, Settle, m
  <2>2. /\ e \in Statuses /\ f \in [Tasks -> Statuses]
        /\ \A t \in Tasks : f[t] = m.task[t] \/ f[t] = "cancelled"
    BY <1>0, <1>s
  <2> HIDE DEF e, f
  <2>3. Sound([task |-> f], outputs')
    BY <1>0, <2>1, <2>2 DEF Sound
  <2> QED
    BY <1>w, <2>1, <2>2, <2>3
<1>4. ASSUME Pause(p) PROVE Fine
  <2>1. outputs' = outputs /\ Commit(p, [m EXCEPT !.exec = "paused"])
    BY <1>4 DEF Pause, Settle, m
  <2> QED
    BY <1>0, <1>m, <1>s, <1>w, <2>1
<1>q. ASSUME NEW f \in [Tasks -> Statuses], outputs' = outputs,
             \A t \in Tasks : f[t] = m.task[t] \/ (m.task[t] \in {"blocked", "waiting_user"} /\ f[t] = "queued")
      PROVE  Sound([task |-> f], outputs')
  BY <1>0, <1>q DEF Sound
<1>r. Requeued(m) = [m EXCEPT !.exec = "queued", !.task = Requeued(m).task]
      /\ Requeued(m).task \in [Tasks -> Statuses]
      /\ \A t \in Tasks : Requeued(m).task[t] = IF m.task[t] = "blocked"
                                                THEN "queued" ELSE m.task[t]
  <2> DEFINE f == [t \in Tasks |-> IF m.task[t] = "blocked" THEN "queued" ELSE m.task[t]]
  <2>1. Requeued(m) = [m EXCEPT !.exec = "queued", !.task = f]
    BY <1>0 DEF Requeued, Rows
  <2>2. f \in [Tasks -> Statuses]
        /\ \A t \in Tasks : f[t] = IF m.task[t] = "blocked" THEN "queued" ELSE m.task[t]
    BY <1>0, <1>s
  <2> HIDE DEF f
  <2>3. Requeued(m).task = f
    BY <1>0, <2>1 DEF Rows
  <2> QED
    BY <2>1, <2>2, <2>3
<1>5. ASSUME Resume(p) PROVE Fine
  <2>1. outputs' = outputs /\ Commit(p, Requeued(m))
    BY <1>5 DEF Resume, Settle, m
  <2>2. Sound([task |-> Requeued(m).task], outputs')
    <3> DEFINE f == Requeued(m).task
    <3>1. outputs' = outputs /\ f \in [Tasks -> Statuses]
      BY <1>r, <2>1
    <3>2. \A t \in Tasks : f[t] = m.task[t] \/ (m.task[t] \in {"blocked", "waiting_user"} /\ f[t] = "queued")
      BY <1>r
    <3> HIDE DEF f
    <3>3. Sound([task |-> f], outputs')
      BY <1>q, <3>1, <3>2
    <3> QED
      BY <3>3 DEF f
  <2>3. Commit(p, [m EXCEPT !.exec = "queued", !.task = Requeued(m).task])
    BY <1>r, <2>1
  <2> QED
    BY <1>r, <1>s, <1>w, <2>1, <2>2, <2>3
<1>6. ASSUME Respond(p) PROVE Fine
  <2>1. PICK t \in Waiting(m) : Commit(p, [Requeued(m) EXCEPT !.task[t] = "queued"])
    BY <1>6 DEF Respond, m
  <2> DEFINE f == [Requeued(m).task EXCEPT ![t] = "queued"]
  <2>2. outputs' = outputs /\ t \in Tasks /\ m.task[t] = "waiting_user"
    BY <1>6 DEF Respond, Settle, Waiting
  <2>3. [Requeued(m) EXCEPT !.task[t] = "queued"] = [m EXCEPT !.exec = "queued", !.task = f]
    BY <1>0 DEF Requeued, Rows
  <2>4. /\ f \in [Tasks -> Statuses]
        /\ \A u \in Tasks : f[u] = IF u = t THEN "queued" ELSE Requeued(m).task[u]
    BY <1>r, <1>s
  <2> HIDE DEF f
  <2>5. Sound([task |-> f], outputs')
    <3>1. \A u \in Tasks : f[u] = m.task[u] \/ (m.task[u] \in {"blocked", "waiting_user"} /\ f[u] = "queued")
      BY <1>r, <2>2, <2>4
    <3> QED
      BY <1>q, <2>2, <2>4, <3>1
  <2> QED
    BY <1>s, <1>w, <2>1, <2>2, <2>3, <2>4, <2>5
<1>h. ASSUME p \in Workers, Handling(p)
      PROVE  /\ job[p] \in Job /\ Task(p) \in Tasks
             /\ pc[p] \in {"interrupted", "completing"} => Deps[Task(p)] \subseteq outputs
             /\ pc[p] = "completing" =>
                  /\ result[p] \in Outcomes \union {Exhausted}
                  /\ result[p].status = "waiting_user" => Task(p) \in Confirm
  BY <1>h DEF Control, Hand, Task, Job
<1>7. ASSUME p \in Workers, Begin(p) PROVE Fine
  <2> DEFINE t == Task(p)
             f == [m.task EXCEPT ![t] = "running"]
             g == [m.tries EXCEPT ![t] = @ + 1]
             new == [m EXCEPT !.exec = "running", !.task = f, !.tries = g]
  <2>1. /\ t \in Tasks /\ outputs' = outputs
        /\ \A d \in Deps[t] : m.task[d] = "completed"
    BY <1>7, <1>h DEF Begin, Handling, Unfinished, m
  <2>2. Deps[t] \subseteq outputs
    BY <1>0, <2>1, ConstantsAssumption DEF Sound
  <2>3. Commit(p, new)
    <3>1. Commit(p, [m EXCEPT !.exec = "running", !.task[t] = "running", !.tries[t] = @ + 1])
      BY <1>7 DEF Begin, m
    <3>2. [m EXCEPT !.exec = "running", !.task[t] = "running", !.tries[t] = @ + 1] = new
      BY <1>0 DEF Rows
    <3> HIDE DEF new
    <3> QED
      BY <3>1, <3>2
  <2> HIDE DEF t
  <2>4. f \in [Tasks -> Statuses] /\ g \in [Tasks -> Nat] /\ "running" \in Statuses
    <3>1. "running" \in Statuses
      BY DEF Statuses
    <3>2. m.task \in [Tasks -> Statuses] /\ m.tries \in [Tasks -> Nat]
      BY <1>0
    <3>3. f \in [Tasks -> Statuses]
      BY <3>1, <3>2
    <3>4. g \in [Tasks -> Nat]
      <4>1. m.tries[t] + 1 \in Nat
        BY <2>1, <3>2
      <4> QED
        BY <3>2, <4>1
    <3> QED
      BY <3>1, <3>3, <3>4
  <2>5. new \in Rows /\ new.task = f
    <3> HIDE DEF f, g
    <3>1. m \in [exec : Statuses, task : [Tasks -> Statuses], tries : [Tasks -> Nat]]
      BY <1>0 DEF Rows
    <3> QED
      BY <2>4, <3>1 DEF Rows
  <2>6. Sound(new, outputs')
    <3>1. \A u \in Tasks : f[u] = IF u = t THEN "running" ELSE m.task[u]
      BY <1>0
    <3> HIDE DEF f, new
    <3> QED
      BY <1>0, <2>1, <2>2, <2>5, <3>1 DEF Sound
  <2> HIDE DEF new
  <2> QED
    BY <1>7, <2>1, <2>3, <2>5, <2>6 DEF Fine
<1>8. ASSUME p \in Workers, Interrupt(p) PROVE Fine
  <2> DEFINE t == Task(p)
  <2>1. t \in Tasks /\ Deps[t] \subseteq outputs /\ outputs' = outputs
    BY <1>8, <1>h DEF Interrupt, Handling
  <2> HIDE DEF t
  <2>2. \/ Commit(p, [m EXCEPT !.task[t] = "cancelled"])
        \/ Commit(p, [m EXCEPT !.task[t] = "queued"])
        \/ Commit(p, m)
    BY <1>8 DEF Interrupt, PutBack, m, t
  <2>3. CASE Commit(p, [m EXCEPT !.task[t] = "cancelled"])
    BY <1>0, <1>s, <1>t, <1>w, <2>1, <2>3
  <2>4. CASE Commit(p, [m EXCEPT !.task[t] = "queued"])
    BY <1>0, <1>s, <1>t, <1>w, <2>1, <2>4
  <2>5. CASE Commit(p, m)
    BY <1>0, <1>m, <1>w, <2>1, <2>5
  <2> QED
    BY <2>2, <2>3, <2>4, <2>5
<1>9. ASSUME p \in Workers, CancelledMeanwhile(p) PROVE Fine
  <2> DEFINE t == Task(p)
  <2>1. /\ t \in Tasks /\ outputs' = outputs
        /\ Commit(p, [m EXCEPT !.task[t] = "cancelled"])
    BY <1>9, <1>h DEF CancelledMeanwhile, Handling, m
  <2> HIDE DEF t
  <2> QED
    BY <1>0, <1>s, <1>t, <1>w, <2>1
<1>10. ASSUME p \in Workers, Complete(p) PROVE Fine
  <2> DEFINE t == Task(p)
             f == Applied(p)
             e == IF m.exec = "paused" THEN m.exec ELSE Goal(p)
  <2>1. /\ t \in Tasks /\ Deps[t] \subseteq outputs
        /\ result[p] \in Outcomes \union {Exhausted}
        /\ result[p].status = "waiting_user" => t \in Confirm
    BY <1>10, <1>h DEF Complete, Completing, Handling
  <2>2. /\ outputs' = OutputsAfter(p) /\ outputs \subseteq outputs'
        /\ result[p].refs => t \in outputs'
    BY <1>10, <2>1 DEF Complete, OutputsAfter
  <2>3. /\ result[p].status \in Statuses
        /\ result[p].status = "completed" => result[p].refs
    BY <2>1
    DEF Outcomes, Exhausted, Completed, Blocked, WaitUser, PartImport, Transient, Permanent,
        Statuses
  <2>4. /\ Target(p) \in Statuses
        /\ Target(p) = "completed" => t \in outputs'
        /\ Target(p) = "waiting_user" => t \in Confirm
    BY <1>s, <2>1, <2>2, <2>3 DEF Target
  <2>5. Goal(p) \in Statuses
    BY <1>s DEF Goal, Decide
  <2>6. e \in Statuses
    BY <1>0, <2>5
  <2>7. /\ f \in [Tasks -> Statuses]
        /\ \A u \in Tasks : f[u] = IF u = t THEN Target(p) ELSE m.task[u]
    <3>1. f = [m.task EXCEPT ![t] = Target(p)]
      BY DEF Applied, m
    <3> HIDE DEF f, t
    <3> QED
      BY <1>0, <2>1, <2>4, <3>1
  <2>8. Commit(p, [m EXCEPT !.exec = e, !.task = f])
    <3>1. Commit(p, [m EXCEPT !.task = f, !.exec = e])
      BY <1>10 DEF Complete, m
    <3> HIDE DEF e, f
    <3>2. [m EXCEPT !.task = f, !.exec = e] = [m EXCEPT !.exec = e, !.task = f]
      BY <1>0 DEF Rows
    <3> QED
      BY <3>1, <3>2
  <2> HIDE DEF e, f, t
  <2>9. Sound([task |-> f], outputs')
    BY <1>0, <2>1, <2>2, <2>4, <2>7 DEF Sound
  <2> QED
    BY <1>w, <2>2, <2>6, <2>7, <2>8, <2>9
<1> QED
  BY <1>1, <1>2, <1>3, <1>4, <1>5, <1>6, <1>7, <1>8, <1>9, <1>10 DEF Written, Fine, m

-----------------------------------------------------------------------------
(* Processes. *)

Moved(p) ==
  /\ pc' \in [Procs -> Places]
  /\ then' \in [Procs -> {"idle", "control", "republish", "done", "finish", "down"}]
  /\ job' \in [Workers -> Job \union {None}]
  /\ result' \in [Workers -> Result \union {None}]
  /\ \A q \in Procs \ {p} : pc'[q] = pc[q] /\ then'[q] = then[q] /\ mem'[q] = mem[q]
  /\ \A w \in Workers \ {p} : job'[w] = job[w] /\ result'[w] = result[w]

(* A step is a step of one process. *)
LEMMA OneMoves ==
  ASSUME TInv, NEW p \in Procs, Unwritten(p) \/ Written(p)
  PROVE  Moved(p)
<1> DEFINE Thens == {"idle", "control", "republish", "done", "finish", "down"}
<1>0. /\ pc \in [Procs -> Places] /\ then \in [Procs -> Thens]
      /\ job \in [Workers -> Job \union {None}]
      /\ result \in [Workers -> Result \union {None}]
      /\ mem \in [Procs -> Rows] /\ queue \in [Job -> Nat]
      /\ Thens \subseteq Places /\ Workers \subseteq Procs /\ Clients \subseteq Procs
      /\ Results \union {Exhausted} \subseteq Result
  <2>1. Results \union {Exhausted} \subseteq Result
    <3>1. Completed \in Result /\ Blocked \in Result /\ WaitUser \in Result
      BY DEF Result, Completed, Blocked, WaitUser
    <3>2. PartImport \in Result /\ Transient \in Result /\ Permanent \in Result
      BY DEF Result, PartImport, Transient, Permanent
    <3>3. Exhausted \in Result
      BY DEF Result, Exhausted
    <3> QED
      BY <3>1, <3>2, <3>3, ConstantsAssumption DEF Outcomes
  <2>2. Thens \subseteq Places /\ Workers \subseteq Procs /\ Clients \subseteq Procs
    BY DEF Places, Procs
  <2> QED
    BY <2>1, <2>2 DEF TInv, Control, Stock, GoodRows
<1>1. ASSUME \E place \in Places : pc' = [pc EXCEPT ![p] = place],
             \E place \in Thens : then' = [then EXCEPT ![p] = place] \/ then' = then,
             job' = job \/ \E j \in Job \union {None} : job' = [job EXCEPT ![p] = j],
             result' = result \/ \E r \in Result \union {None} : result' = [result EXCEPT ![p] = r],
             mem' = mem \/ \E rows : mem' = [mem EXCEPT ![p] = rows]
      PROVE  Moved(p)
  <2>1. pc' \in [Procs -> Places] /\ \A q \in Procs \ {p} : pc'[q] = pc[q]
    BY <1>0, <1>1
  <2>2. then' \in [Procs -> Thens] /\ \A q \in Procs \ {p} : then'[q] = then[q]
    BY <1>0, <1>1
  <2>3. /\ job' \in [Workers -> Job \union {None}]
        /\ \A w \in Workers \ {p} : job'[w] = job[w]
    BY <1>0, <1>1
  <2>4. /\ result' \in [Workers -> Result \union {None}]
        /\ \A w \in Workers \ {p} : result'[w] = result[w]
    BY <1>0, <1>1
  <2>5. \A q \in Procs \ {p} : mem'[q] = mem[q]
    BY <1>0, <1>1
  <2> QED
    BY <2>1, <2>2, <2>3, <2>4, <2>5 DEF Moved
<1> HIDE DEF Thens
<1>m. mem' = mem \/ \E rows : mem' = [mem EXCEPT ![p] = rows]
  <2>1. CASE Unwritten(p)
    BY <1>0, <2>1, UnwrittenRows DEF TInv
  <2>2. CASE Written(p)
    BY <2>2, WritesAreSound DEF TInv, Commit
  <2> QED
    BY <2>1, <2>2
<1>2. ASSUME Dispatch(p) \/ NothingToDispatch(p) \/ Publish(p) PROVE Moved(p)
  BY <1>0, <1>1, <1>m, <1>2 DEF Dispatch, NothingToDispatch, Publish, Goto, Places, Thens
<1>3. ASSUME Republish(p) \/ Done(p) PROVE Moved(p)
  BY <1>0, <1>1, <1>m, <1>3 DEF Republish, Done, Goto, Close, Places, Thens
<1>4. ASSUME Die(p) PROVE Moved(p)
  BY <1>0, <1>1, <1>m, <1>4 DEF Die, Goto, Close, Places, Thens
<1>5. ASSUME p \in Clients, Initialize(p) \/ Receive(p) \/ Reject(p) PROVE Moved(p)
  BY <1>0, <1>1, <1>m, <1>5 DEF Initialize, Receive, Reject, Goto, Close, Places, Thens
<1>6. ASSUME p \in Clients, Cancel(p) \/ Pause(p) \/ Resume(p) \/ Respond(p) PROVE Moved(p)
  BY <1>0, <1>1, <1>m, <1>6 DEF Cancel, Pause, Resume, Respond, Goto, Settle, Places, Thens
<1>7. ASSUME p \in Workers,
             \/ TakeJob(p) \/ LockProject(p) \/ RecoverGap(p) \/ GiveUp(p) \/ Begin(p)
      PROVE  Moved(p)
  BY <1>0, <1>1, <1>m, <1>7 DEF TakeJob, LockProject, RecoverGap, GiveUp, Begin, Goto, Places, Thens
<1>8. ASSUME p \in Workers,
             \/ Checkpoint(p) \/ Work(p) \/ Execute(p) \/ ShutDown(p) \/ ReadInterrupted(p)
             \/ Interrupt(p)
      PROVE  Moved(p)
  BY <1>0, <1>1, <1>m, <1>8
  DEF Checkpoint, Work, Execute, ShutDown, ReadInterrupted, Interrupt, Goto, Places, Thens
<1>9. ASSUME p \in Workers,
             \/ Stopped(p) \/ ReadCompletion(p) \/ AlreadyTerminal(p)
             \/ CancelledMeanwhile(p) \/ Complete(p)
      PROVE  Moved(p)
  BY <1>0, <1>1, <1>m, <1>9
  DEF Stopped, ReadCompletion, AlreadyTerminal, CancelledMeanwhile, Complete, Goto, Close,
      Places, Thens
<1>10. ASSUME p \in Workers,
              \/ Skip(p) \/ VerifyFails(p) \/ IllegalCompletion(p) \/ Finish(p)
       PROVE  Moved(p)
  BY <1>0, <1>1, <1>m, <1>10
  DEF Skip, VerifyFails, IllegalCompletion, Finish, Goto, Close, Return, Raise, Places,
      Thens
<1>11. ASSUME p \in Workers, Restart(p) PROVE Moved(p)
  BY <1>0, <1>1, <1>m, <1>11 DEF Restart, Goto, Places, Thens
<1> QED
  BY <1>2, <1>3, <1>4, <1>5, <1>6, <1>7, <1>8, <1>9, <1>10, <1>11 DEF Unwritten, Written

(* The hand of a worker that moves. *)
LEMMA HandKept ==
  ASSUME TInv, NEW w \in Workers, Unwritten(w) \/ Written(w)
  PROVE  Hand(w)'
<1>0. /\ pc \in [Procs -> Places] /\ then \in [Procs -> {"idle", "control", "republish", "done", "finish", "down"}]
      /\ job \in [Workers -> Job \union {None}] /\ result \in [Workers -> Result \union {None}]
      /\ Hand(w) /\ w \in Procs /\ w \notin Clients
  BY ConstantsAssumption DEF TInv, Control, Procs
<1>1. outputs \subseteq outputs'
  BY UnwrittenRows, WritesAreSound, <1>0 DEF TInv
(* Steps that keep the job and lead where nothing new is needed. *)
<1>2. ASSUME job' = job,
             Handling(w)' \/ pc'[w] = "lock" => Handling(w) \/ pc[w] = "lock",
             pc'[w] \in {"run", "work", "interrupt", "interrupted", "complete", "completing"}
               => pc[w] \in {"run", "work", "interrupt", "interrupted", "complete", "completing"},
             pc'[w] \in {"complete", "completing"} => /\ pc[w] \in {"complete", "completing"}
                                                     /\ result' = result
      PROVE  Hand(w)'
  BY <1>0, <1>1, <1>2 DEF Hand, Task
<1>3. ASSUME pc'[w] \in {"idle", "down", "done", "republish", "init", "control"}
             \/ (pc'[w] \in {"advance", "publish"} /\ then'[w] # "finish")
      PROVE  Hand(w)'
  BY <1>3 DEF Hand, Handling
<1>4. ASSUME NothingToDispatch(w) \/ Dispatch(w) \/ Publish(w) PROVE Hand(w)'
  <2>1. /\ job' = job /\ then' = then
        /\ \/ pc[w] = "advance" /\ pc'[w] \in {then[w], "publish"}
           \/ pc[w] = "publish" /\ pc'[w] \in {then[w], "publish"}
    BY <1>0, <1>4 DEF NothingToDispatch, Dispatch, Publish, Goto
  <2>2. pc'[w] \notin {"run", "work", "interrupt", "interrupted", "complete", "completing",
                       "lock", "loaded", "stopping"}
    BY <1>0, <2>1
  <2>3. Handling(w)' => Handling(w)
    BY <1>0, <2>1, <2>2 DEF Handling
  <2> QED
    BY <1>2, <2>1, <2>2, <2>3
<1>5. ASSUME Republish(w) \/ Done(w) \/ Die(w) \/ Stopped(w) \/ Skip(w) \/ VerifyFails(w)
             \/ IllegalCompletion(w) \/ Finish(w) \/ Restart(w)
      PROVE  Hand(w)'
  <2>1. CASE Republish(w) \/ Restart(w)
    BY <1>0, <1>3, <2>1 DEF Republish, Restart, Goto
  <2>2. CASE Done(w) \/ Die(w) \/ Stopped(w)
    BY <1>0, <1>3, <2>2 DEF Done, Die, Stopped, Goto, Close
  <2>3. CASE Skip(w) \/ VerifyFails(w) \/ IllegalCompletion(w) \/ Finish(w)
    BY <1>0, <1>3, <2>3
    DEF Skip, VerifyFails, IllegalCompletion, Finish, Goto, Close, Return, Raise
  <2> QED
    BY <1>5, <2>1, <2>2, <2>3
<1>6. ASSUME TakeJob(w) PROVE Hand(w)'
  BY <1>0, <1>6 DEF TakeJob, Goto, Hand, Handling
<1>7. ASSUME LockProject(w) \/ RecoverGap(w) \/ AlreadyTerminal(w) \/ Complete(w)
             \/ CancelledMeanwhile(w) \/ Interrupt(w)
      PROVE  Hand(w)'
  <2>1. /\ job' = job
        /\ Handling(w) \/ pc[w] = "lock"
        /\ pc'[w] \in {"loaded", "advance", "finish", "stopping"}
    BY <1>0, <1>7
    DEF LockProject, RecoverGap, AlreadyTerminal, Complete, Completing, CancelledMeanwhile,
        Interrupt, Goto, Handling
  <2> QED
    BY <1>2, <2>1
<1>8. ASSUME GiveUp(w) \/ Begin(w) PROVE Hand(w)'
  <2>1. /\ job' = job /\ pc[w] = "loaded" /\ Task(w) \in Tasks
        /\ pc'[w] = "run" \/ (pc'[w] = "complete" /\ result'[w] = Exhausted)
        /\ \A d \in Deps[Task(w)] : mem[w].task[d] = "completed"
    BY <1>0, <1>8 DEF GiveUp, Begin, Goto, Unfinished, Hand, Handling, Task, Job
  <2>2. Deps[Task(w)] \subseteq outputs
    BY <1>0, <2>1, ConstantsAssumption DEF TInv, GoodRows, Sound
  <2>3. job[w] \in Job
    BY <1>0, <2>1 DEF Hand, Handling
  <2> QED
    BY <1>1, <2>1, <2>2, <2>3 DEF Hand, Task, Exhausted
<1>9. ASSUME Checkpoint(w) \/ Work(w) \/ ShutDown(w) \/ ReadInterrupted(w) \/ ReadCompletion(w)
      PROVE  Hand(w)'
  <2>1. /\ job' = job /\ result' = result
        /\ pc[w] \in {"run", "work", "interrupt", "complete"}
        /\ pc'[w] \in {"run", "work", "interrupt", "interrupted", "completing"}
        /\ pc'[w] = "completing" => pc[w] = "complete"
    BY <1>0, <1>9 DEF Checkpoint, Work, ShutDown, ReadInterrupted, ReadCompletion, Goto
  <2> QED
    BY <1>2, <2>1 DEF Handling
<1>10. ASSUME Execute(w) PROVE Hand(w)'
  <2>1. PICK r \in Results : /\ r = WaitUser => Task(w) \in Confirm \ selected
                             /\ result' = [result EXCEPT ![w] = r]
    BY <1>10 DEF Execute
  <2>2. /\ job' = job /\ pc[w] = "work" /\ pc'[w] = "complete" /\ result'[w] = r
        /\ r \in Outcomes
    BY <1>0, <1>10, <2>1, ConstantsAssumption DEF Execute, Goto
  <2>3. r.status = "waiting_user" => Task(w) \in Confirm
    BY <2>1, <2>2
    DEF Outcomes, Completed, Blocked, WaitUser, PartImport, Transient, Permanent
  <2> QED
    BY <1>0, <1>1, <2>2, <2>3 DEF Hand, Handling, Task
<1> QED
  BY <1>0, <1>4, <1>5, <1>6, <1>7, <1>8, <1>9, <1>10 DEF Unwritten, Written

(* Where the processes are, and what they have in hand.                    *)
LEMMA ControlKept ==
  ASSUME TInv, NEW p \in Procs, Unwritten(p) \/ Written(p)
  PROVE  Control'
<1>1. outputs \subseteq outputs'
  BY UnwrittenRows, WritesAreSound DEF TInv
<1>2. ASSUME NEW w \in Workers, w # p PROVE Hand(w)'
  <2>1. /\ pc'[w] = pc[w] /\ then'[w] = then[w] /\ job'[w] = job[w] /\ result'[w] = result[w]
        /\ Hand(w)
    BY <1>2, OneMoves DEF Moved, TInv, Control, Procs
  <2> QED
    BY <1>1, <2>1 DEF Hand, Handling, Task
<1>3. p \in Workers => Hand(p)'
  BY HandKept
<1> QED
  BY <1>2, <1>3, OneMoves DEF Control, Moved

(* Everything else: what is in the queue, who holds the lock, how often    *)
(* what was done.                                                          *)
LEMMA StockKept ==
  ASSUME TInv, NEW p \in Procs, Unwritten(p) \/ Written(p)
  PROVE  Stock'
<1>0. /\ Stock /\ None \notin Procs /\ None \notin Workers
      /\ pc \in [Procs -> Places] /\ mem[p] \in Rows /\ Sound(mem[p], outputs)
      /\ p \in Workers => job[p] \in Job \union {None}
      /\ p \in Workers => Hand(p)
  BY ConstantsAssumption DEF TInv, Control, GoodRows, Procs
<1>1. outputs' \subseteq Tasks
  <2>1. outputs' = outputs \/ (p \in Workers /\ Complete(p))
    BY UnwrittenRows
    DEF TInv, Written, Dispatch, Initialize, Cancel, Pause, Resume, Respond, Begin, Interrupt,
        CancelledMeanwhile, Settle
  <2>2. ASSUME p \in Workers, Complete(p) PROVE outputs' \subseteq Tasks
    BY <1>0, <2>2 DEF Complete, Completing, OutputsAfter, Stock, Hand, Handling, Task, Job
  <2> QED
    BY <1>0, <2>1, <2>2 DEF Stock
<1>2. /\ \A t \in Tasks : Enqueued([task |-> t, attempts |-> 0]) \in [Job -> Nat]
      /\ \A j \in Job : Enqueued(j) \in [Job -> Nat]
      /\ \A j \in Job : j.attempts < MaxRetry => [j EXCEPT !.attempts = @ + 1] \in Job
  <2>1. \A j \in Job : Enqueued(j) \in [Job -> Nat]
    BY <1>0 DEF Stock, Enqueued
  <2>2. \A j \in Job : j.attempts < MaxRetry => [j EXCEPT !.attempts = @ + 1] \in Job
    BY ConstantsAssumption DEF Job
  <2> QED
    BY <2>1, <2>2, BlankIsSound
<1>3. CASE Dispatch(p) \/ NothingToDispatch(p) \/ Publish(p) \/ Republish(p) \/ Done(p)
  <2>1. CASE Dispatch(p)
    BY <1>0, <1>1, <2>1 DEF Dispatch, Dispatchable, Ready, Stock
  <2>2. CASE NothingToDispatch(p)
    BY <1>0, <1>1, <2>2 DEF NothingToDispatch, Stock, database
  <2>3. CASE Publish(p)
    BY <1>0, <1>1, <1>2, <2>3 DEF Publish, Stock, database
  <2>4. CASE Republish(p)
    BY <1>0, <1>1, <2>4 DEF Republish, Stock, database
  <2>5. CASE Done(p)
    BY <1>0, <1>1, <2>5 DEF Done, Stock, database
  <2> QED
    BY <1>3, <2>1, <2>2, <2>3, <2>4, <2>5
<1>4. CASE Die(p)
  BY <1>0, <1>1, <1>4, ConstantsAssumption DEF Die, Stock, database
<1>5. ASSUME p \in Clients,
             Initialize(p) \/ Receive(p) \/ Reject(p) \/ Cancel(p) \/ Pause(p) \/ Resume(p)
      PROVE  Stock'
  <2>1. CASE Initialize(p) \/ Reject(p)
    BY <1>0, <1>1, <2>1 DEF Initialize, Reject, Stock, database
  <2>2. CASE Receive(p)
    <3>1. request' \in [Clients -> RequestKinds \union {"none"}]
      BY <1>0, <2>2, ConstantsAssumption DEF Receive, Stock
    <3>2. requests' \in 0..MaxRequests
      BY <1>0, <2>2, ConstantsAssumption DEF Receive, Stock
    <3> QED
      BY <1>0, <1>1, <2>2, <3>1, <3>2 DEF Receive, Stock, database
  <2>3. CASE Cancel(p) \/ Pause(p) \/ Resume(p)
    BY <1>0, <1>1, <2>3 DEF Cancel, Pause, Resume, Settle, Stock
  <2> QED
    BY <1>5, <2>1, <2>2, <2>3
<1>6. ASSUME p \in Clients, Respond(p) PROVE Stock'
  BY <1>0, <1>1, <1>6 DEF Respond, Settle, Waiting, Sound, Stock
<1>7. ASSUME p \in Workers,
             \/ TakeJob(p) \/ LockProject(p) \/ RecoverGap(p) \/ GiveUp(p) \/ Begin(p)
             \/ Restart(p) \/ Stopped(p) \/ ShutDown(p)
      PROVE  Stock'
  <2>1. CASE TakeJob(p)
    BY <1>0, <1>1, <2>1 DEF TakeJob, Stock, database
  <2>2. CASE LockProject(p) \/ RecoverGap(p) \/ GiveUp(p) \/ Stopped(p)
    BY <1>0, <1>1, <1>7, <2>2 DEF LockProject, RecoverGap, GiveUp, Stopped, Stock, database
  <2>3. CASE Begin(p)
    <3>1. runs \in [Tasks -> Nat] /\ Task(p) \in Tasks
      BY <1>0, <1>7, <2>3 DEF Begin, Stock, Hand, Handling, Task, Job
    <3>2. runs' \in [Tasks -> Nat]
      BY <2>3, <3>1 DEF Begin
    <3> QED
      BY <1>0, <1>1, <2>3, <3>2 DEF Begin, Stock
  <2>4. CASE Restart(p)
    BY <1>0, <1>1, <1>2, <1>7, <2>4 DEF Restart, Stock, database
  <2>5. CASE ShutDown(p)
    BY <1>0, <1>1, <2>5, ConstantsAssumption DEF ShutDown, Stock, database
  <2> QED
    BY <1>7, <2>1, <2>2, <2>3, <2>4, <2>5
<1>8. ASSUME p \in Workers,
             \/ Checkpoint(p) \/ Work(p) \/ Execute(p) \/ ReadInterrupted(p) \/ Interrupt(p)
             \/ ReadCompletion(p) \/ AlreadyTerminal(p) \/ CancelledMeanwhile(p) \/ Complete(p)
      PROVE  Stock'
  <2>1. CASE Checkpoint(p) \/ Work(p) \/ Execute(p) \/ ReadInterrupted(p) \/ ReadCompletion(p)
             \/ AlreadyTerminal(p)
    BY <1>0, <1>1, <2>1
    DEF Checkpoint, Work, Execute, ReadInterrupted, ReadCompletion, AlreadyTerminal, Stock,
        database
  <2>2. CASE Interrupt(p) \/ CancelledMeanwhile(p) \/ Complete(p)
    BY <1>0, <1>1, <2>2 DEF Interrupt, CancelledMeanwhile, Complete, Stock
  <2> QED
    BY <1>8, <2>1, <2>2
<1>9. ASSUME p \in Workers, Skip(p) \/ VerifyFails(p) \/ IllegalCompletion(p) \/ Finish(p)
      PROVE  Stock'
  <2>1. job[p] \in Job
    BY <1>0, <1>9 DEF Skip, VerifyFails, IllegalCompletion, Finish, Completing, Hand, Handling
  <2>2. queue' \in [Job -> Nat]
    BY <1>0, <1>2, <1>9, <2>1
    DEF Skip, VerifyFails, IllegalCompletion, Finish, Return, Raise, Stock
  <2> QED
    BY <1>0, <1>1, <1>9, <2>2
    DEF Skip, VerifyFails, IllegalCompletion, Finish, Return, Raise, Stock, database
<1> QED
  BY <1>3, <1>4, <1>5, <1>6, <1>7, <1>8, <1>9 DEF Unwritten, Written

(* TInv is inductive, ...                                                  *)
LEMMA TInvStep == TInv /\ [Next]_vars => TInv'
<1> SUFFICES ASSUME TInv, [Next]_vars PROVE TInv'
  OBVIOUS
<1>1. ASSUME NEW p \in Procs, Unwritten(p) \/ Written(p) PROVE TInv'
  <2>1. GoodRows'
    BY <1>1, UnwrittenKeeps, WritesAreSound, CommitKeeps DEF TInv
  <2> QED
    BY <1>1, <2>1, ControlKept, StockKept DEF TInv
<1>2. CASE UNCHANGED vars
  <2>1. GoodRows'
    BY <1>2, NoRowsKeep DEF TInv, vars, database
  <2>2. Control'
    BY <1>2 DEF TInv, vars, database, Control, Hand, Handling, Task
  <2>3. Stock'
    BY <1>2 DEF TInv, vars, database, Stock
  <2> QED
    BY <2>1, <2>2, <2>3 DEF TInv
<1> QED
  BY <1>1, <1>2, StepsOfProcesses

(* ... and holds at the start.                                             *)
LEMMA TInvInit == Init => TInv
<1> SUFFICES ASSUME Init PROVE TInv
  OBVIOUS
<1>1. Table = Blank
  BY DEF Init, Table, Blank
<1>2. GoodRows
  <2>1. exec \in Statuses /\ task \in [Tasks -> Statuses] /\ tries \in [Tasks -> Nat]
    BY DEF Init, Statuses
  <2> QED
    BY <1>1, <2>1, BlankIsSound DEF Init, GoodRows
<1>3. Stock
  <2>1. /\ queue \in [Job -> Nat] /\ todo \in [Procs -> SUBSET Tasks]
        /\ request \in [Clients -> RequestKinds \union {"none"}] /\ runs \in [Tasks -> Nat]
    BY DEF Init
  <2>2. requests \in 0..MaxRequests /\ deaths \in 0..MaxDeaths
    BY ConstantsAssumption DEF Init
  <2> QED
    BY <2>1, <2>2 DEF Init, Stock
<1>4. Control
  <2>1. pc \in [Procs -> Places] /\ \A w \in Workers : pc[w] = "idle"
    BY ConstantsAssumption DEF Init, Places, Procs
  <2>2. \A w \in Workers : Hand(w)
    BY <2>1 DEF Hand, Handling
  <2> QED
    BY <2>1, <2>2 DEF Init, Control
<1> QED
  BY <1>2, <1>3, <1>4 DEF TInv

(* Whatever overlaps and whatever dies, rows, sessions, jobs and results   *)
(* keep their types, and only a task to be confirmed gets a selection.     *)
THEOREM ResearchTypes == Spec => []TypeOK
<1>1. Spec => []TInv
  BY TInvInit, TInvStep, PTL DEF Spec
<1>2. TInv => TypeOK
  BY DEF TInv, Stock, Control, GoodRows, TypeOK
<1> QED
  BY <1>1, <1>2, PTL

(* No task is dispatched before its dependencies have produced what they   *)
(* promise, from whatever old rows a session decides: a completion never   *)
(* becomes untrue.                                                         *)
THEOREM InputsExist == Spec => []DependenciesProduced
<1>1. Spec => []TInv
  BY TInvInit, TInvStep, PTL DEF Spec
<1>2. TInv => DependenciesProduced
  BY DEF TInv, GoodRows, Sound, Table, DependenciesProduced
<1> QED
  BY <1>1, <1>2, PTL

-----------------------------------------------------------------------------
(* The budget of attempts. *)

(* Who runs under the lock keeps it, and nobody else takes it. *)
LEMMA LockStep ==
  ASSUME TInv, LockHeld, NEW p \in Procs, Unwritten(p) \/ Written(p)
  PROVE  /\ LockHeld'
         /\ \A w \in Workers \ {p} : pc'[w] = "loaded" => lock = w
<1>0. /\ pc \in [Procs -> Places] /\ then \in [Procs -> {"idle", "control", "republish", "done", "finish", "down"}]
      /\ \A w \in Workers : Handling(w) => lock = w
      /\ \A c \in Clients : c \notin Workers
      /\ Workers \subseteq Procs /\ Clients \subseteq Procs /\ None \notin Workers
      /\ lock \in Workers \union {None}
  BY ConstantsAssumption DEF TInv, Control, Stock, LockHeld, Procs
<1>a. ASSUME NEW w \in Workers, w # p PROVE Handling(w)' = Handling(w) /\ pc'[w] = pc[w]
  BY <1>0, <1>a, OneMoves DEF Moved, Handling
<1>b. \A w \in Workers \ {p} : pc'[w] = "loaded" => lock = w
  BY <1>0, <1>a DEF Handling
(* The lock stays, and p is not in a handler it was not in. *)
<1>1. ASSUME lock' = lock, p \in Workers => (Handling(p)' => Handling(p)) PROVE LockHeld'
  BY <1>0, <1>a, <1>1 DEF LockHeld
(* The lock is given back by its holder, who leaves the handler. *)
<1>2. ASSUME p \in Workers, lock' = None, Handling(p), ~Handling(p)' PROVE LockHeld'
  BY <1>0, <1>a, <1>2 DEF LockHeld
<1>3. ASSUME Dispatch(p) \/ NothingToDispatch(p) \/ Publish(p) PROVE LockHeld'
  <2>1. /\ lock' = lock /\ then' = then
        /\ \/ pc[p] = "advance" /\ pc'[p] \in {then[p], "publish"}
           \/ pc[p] = "publish" /\ pc'[p] \in {then[p], "publish"}
    BY <1>0, <1>3 DEF NothingToDispatch, Dispatch, Publish, Goto
  <2>2. p \in Workers => (Handling(p)' => Handling(p))
    BY <1>0, <2>1 DEF Handling
  <2> QED
    BY <1>1, <2>1, <2>2
<1>4. ASSUME Republish(p) \/ Done(p) \/ Die(p) PROVE LockHeld'
  <2>1. pc'[p] \in {"done", "publish", "idle", "down"}
        /\ (pc'[p] = "publish" => then'[p] = "done")
    BY <1>0, <1>4 DEF Republish, Done, Die, Goto, Close
  <2>2. p \in Workers => ~Handling(p)'
    BY <2>1 DEF Handling
  <2>3. lock' = lock \/ (lock' = None /\ lock = p)
    BY <1>4 DEF Republish, Done, Die
  <2>4. CASE lock' = lock
    BY <1>1, <2>2, <2>4
  <2>5. CASE lock' = None /\ lock = p
    BY <1>0, <1>a, <2>2, <2>5 DEF LockHeld
  <2> QED
    BY <2>3, <2>4, <2>5
<1>5. ASSUME p \in Clients,
             \/ Initialize(p) \/ Cancel(p) \/ Pause(p) \/ Resume(p) \/ Respond(p)
             \/ Reject(p) \/ Receive(p)
      PROVE  LockHeld'
  <2>1. lock' = lock
    BY <1>5 DEF Initialize, Cancel, Pause, Resume, Respond, Reject, Receive, Settle
  <2> QED
    BY <1>0, <1>1, <1>5, <2>1
<1>6. ASSUME p \in Workers,
             \/ TakeJob(p) \/ RecoverGap(p) \/ GiveUp(p) \/ Begin(p) \/ Restart(p)
             \/ Checkpoint(p) \/ Work(p) \/ Execute(p) \/ ShutDown(p) \/ ReadInterrupted(p)
             \/ Interrupt(p) \/ ReadCompletion(p) \/ AlreadyTerminal(p)
             \/ CancelledMeanwhile(p) \/ Complete(p)
      PROVE  LockHeld'
  <2>1. lock' = lock
    BY <1>6
    DEF TakeJob, RecoverGap, GiveUp, Begin, Restart, Checkpoint, Work, Execute, ShutDown,
        ReadInterrupted, Interrupt, ReadCompletion, AlreadyTerminal, CancelledMeanwhile, Complete
  <2>2. CASE TakeJob(p)
    BY <1>0, <1>1, <2>1, <2>2 DEF TakeJob, Goto, Handling
  <2>3. CASE Restart(p)
    <3>1. pc'[p] = "idle" \/ (pc'[p] = "advance" /\ then'[p] = "republish")
      BY <1>0, <2>3 DEF Restart, Goto
    <3> QED
      BY <1>1, <2>1, <3>1 DEF Handling
  <2>4. CASE ~TakeJob(p) /\ ~Restart(p)
    <3>1. pc[p] \in {"loaded", "run", "work", "interrupt", "interrupted", "complete", "completing"}
      BY <1>6, <2>4
      DEF RecoverGap, GiveUp, Begin, Checkpoint, Work, Execute, ShutDown, ReadInterrupted,
          Interrupt, ReadCompletion, AlreadyTerminal, CancelledMeanwhile, Complete, Completing
    <3> QED
      BY <1>1, <2>1, <3>1 DEF Handling
  <2> QED
    BY <2>2, <2>3, <2>4
<1>7. ASSUME p \in Workers, LockProject(p) PROVE LockHeld'
  BY <1>0, <1>a, <1>7 DEF LockProject, LockHeld
<1>8. ASSUME p \in Workers,
             Skip(p) \/ VerifyFails(p) \/ IllegalCompletion(p) \/ Finish(p) \/ Stopped(p)
      PROVE  LockHeld'
  <2>1. lock' = None /\ pc'[p] \in {"idle", "down"}
        /\ pc[p] \in {"loaded", "completing", "finish", "stopping"}
    BY <1>0, <1>8
    DEF Skip, VerifyFails, IllegalCompletion, Finish, Stopped, Return, Raise, Completing,
        Close, Goto
  <2> QED
    BY <1>2, <1>8, <2>1 DEF Handling
<1> QED
  BY <1>b, <1>3, <1>4, <1>5, <1>6, <1>7, <1>8 DEF Unwritten, Written

(* Only Begin counts, and it counts from the table: nobody else holds the  *)
(* lock between its read and its commit.                                   *)
LEMMA CountedStep ==
  ASSUME TInv, LockHeld, Counted, NEW p \in Procs, Unwritten(p) \/ Written(p)
  PROVE  Counted'
<1>0. /\ tries \in [Tasks -> Nat] /\ mem \in [Procs -> Rows] /\ runs = tries
      /\ pc \in [Procs -> Places] /\ Workers \subseteq Procs
      /\ \A t \in Tasks : tries[t] <= MaxAttempts
      /\ \A w \in Workers : pc[w] = "loaded" => mem[w].tries = tries
  BY DEF TInv, GoodRows, Counted, Control, Procs
<1>a. \A w \in Workers \ {p} : pc'[w] = pc[w] /\ mem'[w] = mem[w]
  BY OneMoves DEF Moved, Procs
<1>b. ASSUME tries' = tries, runs' = runs,
             p \in Workers /\ pc'[p] = "loaded" => mem'[p].tries = tries
      PROVE  Counted'
  BY <1>0, <1>a, <1>b DEF Counted
<1>1. CASE Unwritten(p)
  <2>1. tries' = tries
    BY <1>1, UnwrittenRows DEF TInv
  <2>2. CASE NothingToDispatch(p) \/ Publish(p) \/ Republish(p) \/ Done(p) \/ Die(p)
    <3>1. runs' = runs
      BY <2>2 DEF NothingToDispatch, Publish, Republish, Done, Die
    <3>2. pc'[p] # "loaded"
      BY <1>0, <2>2
      DEF NothingToDispatch, Publish, Republish, Done, Die, Goto, Close, TInv, Control
    <3> QED
      BY <1>b, <2>1, <3>1, <3>2
  <2>3. ASSUME p \in Clients, Receive(p) \/ Reject(p) \/ Initialize(p) PROVE Counted'
    <3>1. runs' = runs /\ p \notin Workers
      BY <2>3, ConstantsAssumption DEF Receive, Reject, Initialize
    <3> QED
      BY <1>b, <2>1, <3>1
  <2>4. ASSUME p \in Workers, LockProject(p) PROVE Counted'
    <3>1. runs' = runs /\ mem'[p].tries = tries
      BY <1>0, <2>4 DEF LockProject, Load, Table
    <3> QED
      BY <1>b, <2>1, <3>1
  <2>5. ASSUME p \in Workers,
               \/ TakeJob(p) \/ Skip(p) \/ RecoverGap(p) \/ GiveUp(p)
               \/ Checkpoint(p) \/ Work(p) \/ Execute(p) \/ ShutDown(p) \/ ReadInterrupted(p)
               \/ Stopped(p) \/ ReadCompletion(p) \/ AlreadyTerminal(p) \/ VerifyFails(p)
               \/ IllegalCompletion(p) \/ Finish(p) \/ Restart(p)
        PROVE  Counted'
    <3>1. runs' = runs
      BY <2>5
      DEF TakeJob, Skip, RecoverGap, GiveUp, Checkpoint, Work, Execute, ShutDown,
          ReadInterrupted, Stopped, ReadCompletion, AlreadyTerminal, VerifyFails,
          IllegalCompletion, Finish, Restart
    <3>2. pc'[p] # "loaded"
      BY <1>0, <2>5
      DEF TakeJob, Skip, RecoverGap, GiveUp, Checkpoint, Work, Execute, ShutDown,
          ReadInterrupted, Stopped, ReadCompletion, AlreadyTerminal, VerifyFails,
          IllegalCompletion, Finish, Restart, Return, Raise, Close, Goto
    <3> QED
      BY <1>b, <2>1, <3>1, <3>2
  <2> QED
    BY <1>1, <2>2, <2>3, <2>4, <2>5 DEF Unwritten
<1>2. ASSUME Written(p), ~(p \in Workers /\ Begin(p)) PROVE Counted'
  <2>1. tries' = tries
    <3>1. PICK new \in Rows : Commit(p, new) /\ new.tries = mem[p].tries
      BY <1>2, WritesAreSound DEF TInv
    <3>2. tries' = [t \in Tasks |-> tries[t]]
      BY <3>1 DEF Commit
    <3> QED
      BY <1>0, <3>2
  <2>2. runs' = runs
    BY <1>2
    DEF Written, Dispatch, Initialize, Cancel, Pause, Resume, Respond, Settle, Interrupt,
        CancelledMeanwhile, Complete
  <2>3. p \in Workers => pc'[p] # "loaded"
    BY <1>0, <1>2, ConstantsAssumption
    DEF Written, Dispatch, Interrupt, CancelledMeanwhile, Complete, Goto
  <2> QED
    BY <1>b, <2>1, <2>2, <2>3
<1>3. ASSUME p \in Workers, Begin(p) PROVE Counted'
  <2> DEFINE T == Task(p)
             m == mem[p]
  <2>1. /\ pc[p] = "loaded" /\ m.tries = tries /\ T \in Tasks /\ tries[T] < MaxAttempts
        /\ m \in Rows /\ lock = p
    BY <1>0, <1>3 DEF Begin, TInv, Control, Hand, Handling, Task, Job, LockHeld
  <2>2. runs' = [runs EXCEPT ![T] = @ + 1] /\ pc'[p] = "run"
    BY <1>0, <1>3 DEF Begin, Goto
  <2>3. tries' = [tries EXCEPT ![T] = @ + 1]
    <3> DEFINE new == [m EXCEPT !.exec = "running", !.task[T] = "running", !.tries[T] = @ + 1]
    <3>1. tries' = [t \in Tasks |-> IF new.tries[t] # m.tries[t] THEN new.tries[t] ELSE tries[t]]
      BY <1>3 DEF Begin, Commit
    <3>2. new.tries = [tries EXCEPT ![T] = @ + 1]
      BY <2>1 DEF Rows
    <3> HIDE DEF new, m, T
    <3> QED
      BY <1>0, <2>1, <3>1, <3>2
  <2>4. \A w \in Workers : pc'[w] # "loaded"
    <3>1. \A w \in Workers \ {p} : pc'[w] = "loaded" => lock = w
      BY LockStep
    <3> QED
      BY <2>1, <2>2, <3>1
  <2> HIDE DEF T, m
  <2>5. \A t \in Tasks : tries'[t] = IF t = T THEN tries[t] + 1 ELSE tries[t]
    BY <1>0, <2>3
  <2>6. \A t \in Tasks : tries'[t] <= MaxAttempts
    BY <1>0, <2>1, <2>5, ConstantsAssumption
  <2> QED
    BY <1>0, <2>2, <2>3, <2>4, <2>6 DEF Counted
<1> QED
  BY <1>1, <1>2, <1>3

(* IInv holds at the start ...                                             *)
LEMMA IInvInit == Init => IInv
<1> SUFFICES ASSUME Init PROVE LockHeld /\ Counted
  BY TInvInit DEF IInv
<1>1. \A w \in Workers : pc[w] = "idle"
  BY ConstantsAssumption DEF Init, Procs
<1> QED
  BY <1>1, ConstantsAssumption DEF Init, LockHeld, Counted, Handling

(* ... and is inductive.                                                   *)
LEMMA IInvStep == IInv /\ [Next]_vars => IInv'
<1> SUFFICES ASSUME IInv, [Next]_vars PROVE LockHeld' /\ Counted'
  BY TInvStep DEF IInv
<1>1. ASSUME NEW p \in Procs, Unwritten(p) \/ Written(p) PROVE LockHeld' /\ Counted'
  BY <1>1, LockStep, CountedStep DEF IInv
<1>2. CASE UNCHANGED vars
  BY <1>2 DEF IInv, vars, database, LockHeld, Counted, Handling
<1> QED
  BY <1>1, <1>2, StepsOfProcesses

(* Duplicated jobs, crashes, pauses and retries by the queue together      *)
(* start the executor of a task MaxAttempts times at most.                 *)
THEOREM StartsAreBounded == Spec => []RunsBounded
<1>1. Spec => []IInv
  BY IInvInit, IInvStep, PTL DEF Spec
<1>2. IInv => RunsBounded
  BY DEF IInv, Counted, RunsBounded
<1> QED
  BY <1>1, <1>2, PTL

-----------------------------------------------------------------------------
(* While requests and the worker take turns. *)

Ongoing == {"queued", "running", "retrying"}

(* What a worker has loaded of the tasks is what the table holds, but for  *)
(* dispatches and a cancellation.                                          *)
Near(w) ==
  exec = "cancelled" \/ \A t \in Tasks :
    \/ task[t] = mem[w].task[t]
    \/ mem[w].task[t] = "pending" /\ task[t] = "queued"

Running == {"run", "work", "interrupt", "interrupted", "complete", "completing"}

(* What a process may rely on between its read and its last commit, and a  *)
(* worker also while its executor runs.                                    *)
Local(p) ==
  /\ pc[p] = "init" => mem[p] = Blank
  /\ p \in Clients => (InTransaction(p) /\ pc[p] # "init" => planned /\ mem[p] = Table)
  /\ p \in Workers =>
       /\ pc[p] \in {"loaded", "interrupted"} => mem[p] = Table
       /\ pc[p] \in {"completing", "advance"} => planned
       /\ pc[p] \in {"completing", "advance"} => mem[p].exec = exec /\ Near(p)
       /\ pc[p] = "completing" => mem[p].task[Task(p)] = task[Task(p)]
       /\ pc[p] \in Running =>
            /\ planned /\ exec \in Ongoing \union {"paused", "cancelled"}
            /\ \A t \in Tasks : task[t] # "blocked"
            /\ Near(p)

(* What the rows of an execution promise each other. *)
Orderly ==
  /\ ~planned => Table = Blank
  /\ exec # "pending" /\ \A t \in Tasks : task[t] # "paused"
  /\ ExecutionMatchesTasks
  /\ exec \in Ongoing => \A t \in Tasks : task[t] # "blocked"
  /\ (\E t \in Tasks : task[t] = "cancelled") => exec \in Terminal

Turns == NoOverlap /\ Orderly /\ \A p \in Procs : Local(p)

UInv == IInv /\ (overlapped \/ Turns)

(* CompletionEvaluator.decide, by the tasks there are. *)
LEMMA DecideByTasks ==
  ASSUME NEW f \in [Tasks -> Statuses], NEW outs
  PROVE  Decide(f, outs) =
           IF \A t \in Tasks : f[t] = "completed" THEN "completed"
           ELSE IF \E t \in Tasks : f[t] = "waiting_user" THEN "waiting_user"
           ELSE IF \E t \in Tasks : f[t] = "blocked" THEN "blocked"
           ELSE IF \E t \in Tasks : f[t] \in {"failed", "partial"}
                THEN (IF outs # {} THEN "partial" ELSE "failed")
           ELSE IF \E t \in Tasks : f[t] = "cancelled" THEN "cancelled"
           ELSE IF \E t \in Tasks : f[t] = "retrying" THEN "retrying"
           ELSE "running"
<1> DEFINE S == {f[t] : t \in DOMAIN f}
<1>1. DOMAIN f = Tasks
  OBVIOUS
<1>2. S \subseteq {"completed"} <=> \A t \in Tasks : f[t] = "completed"
  BY <1>1
<1>3. /\ S \intersect {"waiting_user"} # {} <=> \E t \in Tasks : f[t] = "waiting_user"
      /\ S \intersect {"blocked"} # {} <=> \E t \in Tasks : f[t] = "blocked"
      /\ S \intersect {"cancelled"} # {} <=> \E t \in Tasks : f[t] = "cancelled"
      /\ S \intersect {"retrying"} # {} <=> \E t \in Tasks : f[t] = "retrying"
  <2>1. \A s : S \intersect {s} # {} <=> \E t \in Tasks : f[t] = s
    BY <1>1
  <2> HIDE DEF S
  <2> QED
    BY <2>1
<1>5. S \intersect {"failed", "partial"} # {} <=> \E t \in Tasks : f[t] \in {"failed", "partial"}
  BY <1>1
<1> HIDE DEF S
<1>4. Decide(f, outs) =
        IF S \subseteq {"completed"} THEN "completed"
        ELSE IF S \intersect {"waiting_user"} # {} THEN "waiting_user"
        ELSE IF S \intersect {"blocked"} # {} THEN "blocked"
        ELSE IF S \intersect {"failed", "partial"} # {}
             THEN (IF outs # {} THEN "partial" ELSE "failed")
        ELSE IF S \intersect {"cancelled"} # {} THEN "cancelled"
        ELSE IF S \intersect {"retrying"} # {} THEN "retrying"
        ELSE "running"
  BY DEF Decide, S
<1> QED
  BY <1>2, <1>3, <1>4, <1>5

(* A task that was dispatched meanwhile makes no difference to it, ... *)
LEMMA DecideIgnoresDispatch ==
  ASSUME NEW f \in [Tasks -> Statuses], NEW g \in [Tasks -> Statuses], NEW outs,
         \A t \in Tasks : g[t] = f[t] \/ (f[t] = "pending" /\ g[t] = "queued")
  PROVE  Decide(f, outs) = Decide(g, outs)
<1>1. \A s \in Statuses \ {"pending", "queued"} :
        (\E t \in Tasks : f[t] = s) <=> (\E t \in Tasks : g[t] = s)
  OBVIOUS
<1>2. (\A t \in Tasks : f[t] = "completed") <=> (\A t \in Tasks : g[t] = "completed")
  OBVIOUS
<1>3. /\ (\E t \in Tasks : f[t] = "waiting_user") <=> (\E t \in Tasks : g[t] = "waiting_user")
      /\ (\E t \in Tasks : f[t] = "blocked") <=> (\E t \in Tasks : g[t] = "blocked")
      /\ (\E t \in Tasks : f[t] = "cancelled") <=> (\E t \in Tasks : g[t] = "cancelled")
      /\ (\E t \in Tasks : f[t] = "retrying") <=> (\E t \in Tasks : g[t] = "retrying")
  BY <1>1 DEF Statuses
<1>4. (\E t \in Tasks : f[t] \in {"failed", "partial"}) <=>
      (\E t \in Tasks : g[t] \in {"failed", "partial"})
  OBVIOUS
<1> QED
  BY <1>2, <1>3, <1>4, DecideByTasks

(* ... nor does cancelling what a finished execution left open. *)
LEMMA DecideIgnoresCancel ==
  ASSUME NEW f \in [Tasks -> Statuses], NEW g \in [Tasks -> Statuses], NEW outs,
         \A t \in Tasks : g[t] = IF f[t] \in Terminal THEN f[t] ELSE "cancelled",
         Decide(f, outs) \in {"completed", "partial", "failed"}
  PROVE  Decide(g, outs) = Decide(f, outs)
<1>1. CASE \A t \in Tasks : f[t] = "completed"
  <2>1. \A t \in Tasks : g[t] = "completed"
    BY <1>1 DEF Terminal
  <2> QED
    BY <1>1, <2>1, DecideByTasks
<1>2. CASE ~\A t \in Tasks : f[t] = "completed"
  <2>1. /\ ~\E t \in Tasks : f[t] = "waiting_user"
        /\ ~\E t \in Tasks : f[t] = "blocked"
        /\ \E t \in Tasks : f[t] \in {"failed", "partial"}
        /\ Decide(f, outs) = IF outs # {} THEN "partial" ELSE "failed"
    BY <1>2, DecideByTasks
  <2>2. /\ ~\E t \in Tasks : g[t] = "waiting_user"
        /\ ~\E t \in Tasks : g[t] = "blocked"
        /\ \E t \in Tasks : g[t] \in {"failed", "partial"}
        /\ ~\A t \in Tasks : g[t] = "completed"
    BY <2>1 DEF Terminal
  <2>3. Decide(g, outs) = IF outs # {} THEN "partial" ELSE "failed"
    BY <2>2, DecideByTasks
  <2> QED
    BY <2>1, <2>3
<1> QED
  BY <1>1, <1>2

(* Who is not part of a step that writes no row keeps what it relies on.   *)
LEMMA OthersStay ==
  ASSUME NEW p \in Procs, Moved(p), UNCHANGED <<planned, exec, task, tries>>,
         NEW q \in Procs \ {p}, Local(q)
  PROVE  Local(q)'
<1>1. /\ pc'[q] = pc[q] /\ then'[q] = then[q] /\ mem'[q] = mem[q]
      /\ q \in Workers => job'[q] = job[q]
  BY DEF Moved
<1>2. InTransaction(q)' = InTransaction(q)
  BY <1>1 DEF InTransaction
<1>3. Table' = Table
  BY DEF Table
<1> QED
  BY <1>1, <1>2, <1>3 DEF Local, Near, Running, Task

(* A step that writes no row leaves the plan alone. *)
LEMMA UnwrittenPlan == ASSUME NEW p \in Procs, Unwritten(p) PROVE planned' = planned
<1>1. CASE NothingToDispatch(p) \/ Publish(p) \/ Republish(p) \/ Done(p) \/ Die(p)
  BY <1>1 DEF NothingToDispatch, Publish, Republish, Done, Die, database
<1>2. CASE Receive(p) \/ Reject(p) \/ (Initialize(p) /\ planned)
  BY <1>2 DEF Receive, Reject, Initialize, database
<1>3. CASE \/ TakeJob(p) \/ LockProject(p) \/ Skip(p) \/ RecoverGap(p) \/ GiveUp(p)
           \/ Checkpoint(p) \/ Work(p) \/ Execute(p) \/ ShutDown(p) \/ ReadInterrupted(p)
  BY <1>3 DEF TakeJob, LockProject, Skip, RecoverGap, GiveUp, Checkpoint, Work, Execute,
              ShutDown, ReadInterrupted, database
<1>4. CASE \/ Stopped(p) \/ ReadCompletion(p) \/ AlreadyTerminal(p) \/ VerifyFails(p)
           \/ IllegalCompletion(p) \/ Finish(p) \/ Restart(p)
  BY <1>4 DEF Stopped, ReadCompletion, AlreadyTerminal, VerifyFails, IllegalCompletion,
              Finish, Restart, database
<1> QED
  BY <1>1, <1>2, <1>3, <1>4 DEF Unwritten

(* An execution that goes on with a task that is not over has a plan, and  *)
(* no task of it is blocked.                                               *)
LEMMA UnfinishedGoesOn ==
  ASSUME Orderly, exec \in Statuses, NEW t \in Tasks, Unfinished(Table, t)
  PROVE  planned /\ exec \in Ongoing /\ \A u \in Tasks : task[u] # "blocked"
<1>1. /\ exec \notin Terminal \union Halted
      /\ task[t] # "pending"
  BY DEF Unfinished, Table
<1>2. planned
  BY <1>1 DEF Orderly, Table, Blank
<1>3. exec \in Ongoing
  BY <1>1 DEF Orderly, Statuses, Terminal, Halted, Ongoing
<1> QED
  BY <1>2, <1>3 DEF Orderly

(* What the process itself relies on after a step that writes no row. *)
LEMMA UnwrittenLocal ==
  ASSUME IInv, Orderly, NEW p \in Procs, Local(p), Unwritten(p)
  PROVE  Local(p)'
<1>0. /\ pc \in [Procs -> Places] /\ then \in [Procs -> {"idle", "control", "republish", "done", "finish", "down"}]
      /\ mem \in [Procs -> Rows] /\ exec \in Statuses /\ task \in [Tasks -> Statuses]
      /\ job \in [Workers -> Job \union {None}]
      /\ p \in Workers => p \notin Clients
  BY ConstantsAssumption DEF IInv, TInv, Control, GoodRows
<1>u. /\ UNCHANGED <<planned, exec, task, tries>> /\ Table' = Table
      /\ exec' = exec /\ task' = task /\ planned' = planned
  BY UnwrittenRows, UnwrittenPlan DEF IInv, TInv, Table
<1> DEFINE Moves == {"init", "control", "loaded", "interrupted", "completing", "advance"} \union Running
<1>q. ASSUME pc'[p] \notin Moves, ~(pc'[p] = "publish" /\ then'[p] = "control")
      PROVE  Local(p)'
  <2>1. ~InTransaction(p)' /\ pc'[p] # "init"
    BY <1>q DEF InTransaction, Running
  <2> QED
    BY <1>q, <2>1 DEF Local, Running
<1>m. Moves = {"init", "control", "loaded", "interrupted", "completing", "advance",
               "run", "work", "interrupt", "complete"}
  BY DEF Running
<1> HIDE DEF Moves
<1>1. CASE NothingToDispatch(p)
  <2>1. pc[p] = "advance" /\ pc'[p] = then[p] /\ then' = then /\ mem' = mem
    BY <1>0, <1>1 DEF NothingToDispatch, Goto
  <2>2. pc'[p] \in {"idle", "control", "republish", "done", "finish", "down"}
    BY <1>0, <2>1
  <2>3. p \in Clients => planned /\ mem[p] = Table
    BY <2>1 DEF Local, InTransaction
  <2> QED
    BY <1>u, <2>1, <2>2, <2>3 DEF Local, Running
<1>2. CASE Publish(p)
  <2>1. pc[p] = "publish" /\ pc'[p] \in {"publish", then[p]} /\ then' = then /\ mem' = mem
    BY <1>0, <1>2 DEF Publish, Goto
  <2>2. pc'[p] \in {"publish", "idle", "control", "republish", "done", "finish", "down"}
    BY <1>0, <2>1
  <2>3. then[p] = "control" /\ p \in Clients => planned /\ mem[p] = Table
    BY <2>1 DEF Local, InTransaction
  <2>4. InTransaction(p)' => then[p] = "control"
    BY <2>1, <2>2 DEF InTransaction
  <2> QED
    BY <1>u, <2>1, <2>2, <2>3, <2>4 DEF Local, Running
<1>3. CASE Republish(p)
  <2>1. pc'[p] \in {"publish", "done"} /\ then'[p] = "done"
    BY <1>0, <1>3 DEF Republish, Goto
  <2> QED
    BY <1>m, <1>q, <2>1
<1>4. CASE Done(p) \/ Die(p)
  <2>1. pc'[p] \in {"idle", "down"}
    BY <1>0, <1>4 DEF Done, Die, Close, Goto
  <2> QED
    BY <1>m, <1>q, <2>1
<1>5. ASSUME p \in Clients, Receive(p) PROVE Local(p)'
  <2>1. pc'[p] = IF planned THEN "control" ELSE "init"
    BY <1>0, <1>5 DEF Receive, Goto
  <2>2. mem'[p] = Table
    BY <1>0, <1>5 DEF Receive, Load
  <2>3. ~planned => Table = Blank
    BY DEF Orderly
  <2>4. Blank' = Blank
    BY DEF Blank
  <2> QED
    BY <1>0, <1>5, <1>u, <2>1, <2>2, <2>3, <2>4 DEF Local
<1>6. ASSUME p \in Clients, Reject(p) \/ (Initialize(p) /\ planned) PROVE Local(p)'
  <2>1. pc'[p] = "idle"
    BY <1>0, <1>6 DEF Reject, Initialize, Close, Goto
  <2> QED
    BY <1>m, <1>q, <2>1
<1>7. ASSUME p \in Workers, \/ TakeJob(p) \/ Skip(p) \/ Stopped(p) \/ VerifyFails(p)
                            \/ IllegalCompletion(p) \/ Finish(p)
      PROVE  Local(p)'
  <2>1. pc'[p] \in {"lock", "idle", "down"}
    BY <1>0, <1>7
    DEF TakeJob, Skip, Stopped, VerifyFails, IllegalCompletion, Finish, Return, Raise, Close, Goto
  <2> QED
    BY <1>m, <1>q, <2>1
<1>w. ASSUME p \in Workers,
             pc'[p] # "init" /\ (pc'[p] # "publish" \/ then'[p] # "control"),
             pc'[p] \in {"loaded", "interrupted"} => mem'[p] = Table,
             pc'[p] \in {"completing", "advance"} => planned,
             pc'[p] \in {"completing", "advance"} =>
               mem'[p].exec = exec /\ \/ exec = "cancelled"
                                      \/ \A t \in Tasks :
                                           \/ task[t] = mem'[p].task[t]
                                           \/ mem'[p].task[t] = "pending" /\ task[t] = "queued",
             pc'[p] = "completing" => job'[p] = job[p] /\ mem'[p].task[Task(p)] = task[Task(p)],
             pc'[p] \in Running =>
               /\ planned /\ exec \in Ongoing \union {"paused", "cancelled"}
               /\ \A t \in Tasks : task[t] # "blocked"
               /\ \/ exec = "cancelled"
                  \/ \A t \in Tasks :
                       \/ task[t] = mem'[p].task[t]
                       \/ mem'[p].task[t] = "pending" /\ task[t] = "queued"
      PROVE  Local(p)'
  BY <1>0, <1>u, <1>w DEF Local, Near, Task
<1>8. ASSUME p \in Workers, LockProject(p) PROVE Local(p)'
  <2>1. pc'[p] = "loaded" /\ mem'[p] = Table
    BY <1>0, <1>8 DEF LockProject, Goto, Load
  <2> QED
    BY <1>8, <1>w, <2>1 DEF Running
<1>9. ASSUME p \in Workers, RecoverGap(p) PROVE Local(p)'
  <2>1. /\ pc[p] = "loaded" /\ pc'[p] = "advance" /\ mem'[p] = mem[p]
        /\ mem[p].task[Task(p)] = "completed"
    BY <1>0, <1>9 DEF RecoverGap, Goto
  <2>2. mem[p] = Table /\ Task(p) \in Tasks
    BY <1>9, <2>1 DEF Local, IInv, TInv, Control, Hand, Handling, Task, Job
  <2>3. planned
    BY <2>1, <2>2 DEF Orderly, Blank
  <2> QED
    BY <1>9, <1>w, <2>1, <2>2, <2>3 DEF Running, Table
<1>10. ASSUME p \in Workers, GiveUp(p) PROVE Local(p)'
  <2>1. pc[p] = "loaded" /\ pc'[p] = "complete" /\ mem'[p] = mem[p] /\ Unfinished(mem[p], Task(p))
    BY <1>0, <1>10 DEF GiveUp, Goto
  <2>2. mem[p] = Table /\ Task(p) \in Tasks
    BY <1>10, <2>1 DEF Local, IInv, TInv, Control, Hand, Handling, Task, Job
  <2>3. planned /\ exec \in Ongoing /\ \A u \in Tasks : task[u] # "blocked"
    BY <1>0, <2>1, <2>2, UnfinishedGoesOn
  <2> QED
    BY <1>10, <1>w, <2>1, <2>2, <2>3 DEF Table
(* The executor runs, and the tasks in the session stay as they are. *)
<1>11. ASSUME p \in Workers, Checkpoint(p) \/ Work(p) \/ Execute(p) \/ ShutDown(p)
       PROVE  Local(p)'
  <2>1. pc[p] \in {"run", "work"} /\ pc'[p] \in {"run", "work", "interrupt", "complete"}
    BY <1>0, <1>11 DEF Checkpoint, Work, Execute, ShutDown, Goto
  <2>2. mem'[p].task = mem[p].task
    BY <1>0, <1>11 DEF Checkpoint, Work, Execute, ShutDown, Rows
  <2> QED
    BY <1>11, <1>w, <2>1, <2>2 DEF Local, Running, Near
<1>12. ASSUME p \in Workers, ReadInterrupted(p) PROVE Local(p)'
  <2>1. pc[p] = "interrupt" /\ pc'[p] = "interrupted" /\ mem'[p] = Table
    BY <1>0, <1>12 DEF ReadInterrupted, Goto, Load
  <2> QED
    BY <1>12, <1>w, <2>1 DEF Local, Running, Table
<1>13. ASSUME p \in Workers, ReadCompletion(p) PROVE Local(p)'
  <2> DEFINE k == Task(p)
  <2>1. pc[p] = "complete" /\ pc'[p] = "completing" /\ job'[p] = job[p] /\ k \in Tasks
    BY <1>0, <1>13 DEF ReadCompletion, Goto, IInv, TInv, Control, Hand, Handling, Task, Job
  <2> HIDE DEF k
  <2>2. \/ mem'[p] = Table
        \/ mem'[p] = [mem[p] EXCEPT !.exec = exec, !.task[k] = task[k], !.tries[k] = tries[k]]
    BY <1>0, <1>13 DEF ReadCompletion, k
  <2>3. /\ mem'[p].exec = exec /\ mem'[p].task[k] = task[k]
        /\ \A t \in Tasks : mem'[p].task[t] \in {task[t], mem[p].task[t]}
    <3>1. CASE mem'[p] = Table
      BY <1>0, <2>1, <3>1 DEF Table
    <3>2. CASE mem'[p] = [mem[p] EXCEPT !.exec = exec, !.task[k] = task[k], !.tries[k] = tries[k]]
      <4> DEFINE f == [mem[p].task EXCEPT ![k] = task[k]]
      <4>1. mem'[p].exec = exec /\ mem'[p].task = f
        BY <1>0, <3>2 DEF Rows
      <4>2. \A t \in Tasks : f[t] = IF t = k THEN task[k] ELSE mem[p].task[t]
        BY <1>0 DEF Rows
      <4> HIDE DEF f
      <4> QED
        BY <2>1, <4>1, <4>2
    <3> QED
      BY <2>2, <3>1, <3>2
  <2>4. Near(p) /\ planned /\ exec \in Ongoing \union {"paused", "cancelled"}
        /\ \A t \in Tasks : task[t] # "blocked"
    BY <1>13, <2>1 DEF Local, Running
  <2>5. \/ exec = "cancelled"
        \/ \A t \in Tasks : \/ task[t] = mem'[p].task[t]
                            \/ mem'[p].task[t] = "pending" /\ task[t] = "queued"
    BY <2>3, <2>4 DEF Near
  <2> QED
    BY <1>13, <1>w, <2>1, <2>3, <2>4, <2>5 DEF k
<1>14. ASSUME p \in Workers, AlreadyTerminal(p) PROVE Local(p)'
  <2>1. pc[p] = "completing" /\ pc'[p] = "advance" /\ mem'[p] = mem[p]
    BY <1>0, <1>14 DEF AlreadyTerminal, Goto
  <2> QED
    BY <1>14, <1>w, <2>1 DEF Local, Running, Near
<1>15. ASSUME p \in Workers, Restart(p) PROVE Local(p)'
  <2>1. pc'[p] = "idle" \/ (pc'[p] = "advance" /\ planned /\ mem'[p] = Table)
    BY <1>0, <1>15 DEF Restart, Goto, Load
  <2> QED
    BY <1>15, <1>w, <2>1 DEF Running, Table
<1> QED
  BY <1>1, <1>2, <1>3, <1>4, <1>5, <1>6, <1>7, <1>8, <1>9, <1>10, <1>11, <1>12, <1>13,
     <1>14, <1>15 DEF Unwritten

(* The moves the writes make are in the maps. *)
LEMMA MapsAllow ==
  /\ \A s \in Statuses \ Terminal :
       "cancelled" \in TaskTransitions[s] /\ "cancelled" \in ExecutionTransitions[s]
  /\ \A s \in {"pending", "blocked", "waiting_user", "running"} : "queued" \in TaskTransitions[s]
  /\ \A s \in {"paused", "blocked", "waiting_user"} : "queued" \in ExecutionTransitions[s]
  /\ \A s \in {"queued", "retrying"} :
       "running" \in TaskTransitions[s] /\ "running" \in ExecutionTransitions[s]
  /\ "blocked" \in ExecutionTransitions["queued"]
<1>1. \A s \in Statuses \ Terminal : "cancelled" \in TaskTransitions[s]
  BY DEF Statuses, Terminal, TaskTransitions
<1>2. /\ \A s \in {"pending", "blocked", "waiting_user", "running", "paused"} : "queued" \in TaskTransitions[s]
      /\ \A s \in {"queued", "retrying"} : "running" \in TaskTransitions[s]
      /\ "blocked" \in TaskTransitions["queued"]
  BY DEF Statuses, TaskTransitions
<1>3. /\ \A s \in Statuses \ {"pending"} : ExecutionTransitions[s] = TaskTransitions[s]
      /\ "cancelled" \in ExecutionTransitions["pending"]
  BY DEF Statuses, ExecutionTransitions, TaskTransitions
<1> QED
  BY <1>1, <1>2, <1>3 DEF Statuses

(* A session that has loaded the table leaves in it what it commits. *)
LEMMA FreshCommit ==
  ASSUME GoodRows, NEW p \in Procs, mem[p] = Table, NEW new \in Rows, Commit(p, new)
  PROVE  /\ exec' = new.exec /\ task' = new.task /\ tries' = new.tries
         /\ mem'[p] = new /\ Table' = new
<1>0. /\ new.task \in [Tasks -> Statuses] /\ new.tries \in [Tasks -> Nat]
      /\ new = [exec |-> new.exec, task |-> new.task, tries |-> new.tries]
      /\ task \in [Tasks -> Statuses] /\ tries \in [Tasks -> Nat] /\ mem \in [Procs -> Rows]
  BY DEF GoodRows, Rows
<1>1. exec' = new.exec
  BY DEF Commit, Table
<1>2. task' = new.task
  <2>1. task' = [t \in Tasks |-> IF new.task[t] # task[t] THEN new.task[t] ELSE task[t]]
    BY DEF Commit, Table
  <2> QED
    BY <1>0, <2>1
<1>3. tries' = new.tries
  <2>1. tries' = [t \in Tasks |-> IF new.tries[t] # tries[t] THEN new.tries[t] ELSE tries[t]]
    BY DEF Commit, Table
  <2> QED
    BY <1>0, <2>1
<1>4. mem'[p] = new
  BY <1>0 DEF Commit
<1> QED
  BY <1>0, <1>1, <1>2, <1>3, <1>4 DEF Table

(* The statuses move along the maps. *)
Legal ==
  /\ MayMove(ExecutionTransitions, exec, exec')
  /\ \A t \in Tasks : MayMove(TaskTransitions, task[t], task'[t])

(* What a worker relies on while its executor runs is left to it. *)
Undisturbed(w) ==
  /\ planned' /\ exec' \in Ongoing \union {"paused", "cancelled"}
  /\ \A t \in Tasks : task'[t] # "blocked"
  /\ \/ exec' = "cancelled"
     \/ \A t \in Tasks : \/ task'[t] = mem[w].task[t]
                         \/ mem[w].task[t] = "pending" /\ task'[t] = "queued"

(* A write does that to every worker but the one that writes. *)
Careful(p) ==
  /\ Orderly' /\ Legal
  /\ \A w \in Workers \ {p} : pc[w] \in Running => Undisturbed(w)

(* Nobody else is in a transaction when p writes. *)
LEMMA OthersUndisturbed ==
  ASSUME NEW p \in Procs, Moved(p), InTransaction(p), NoOverlap, NEW q \in Procs \ {p}, Local(q),
         q \in Workers /\ pc[q] \in Running => Undisturbed(q)
  PROVE  Local(q)'
<1>1. /\ pc'[q] = pc[q] /\ then'[q] = then[q] /\ mem'[q] = mem[q]
  BY DEF Moved
<1>2. ~InTransaction(q)
  BY DEF NoOverlap
<1>3. ~InTransaction(q)'
  BY <1>1, <1>2 DEF InTransaction
<1>4. pc'[q] \notin {"init", "loaded", "interrupted", "completing", "advance"}
  BY <1>3 DEF InTransaction
<1> QED
  BY <1>1, <1>3, <1>4 DEF Local, Near, Undisturbed

(* Only an execution that has a plan has an executor that runs. *)
LEMMA RunningGoesOn ==
  ASSUME NEW w \in Workers, Local(w), pc[w] \in Running
  PROVE  /\ planned /\ exec \in Ongoing \union {"paused", "cancelled"}
         /\ \A t \in Tasks : task[t] # "blocked"
         /\ Near(w)
  BY DEF Local

(* What a client writes, it writes over rows it has just read. *)
LEMMA ClientWrites ==
  ASSUME IInv, Turns, NEW p \in Clients,
         (Initialize(p) /\ ~planned) \/ Cancel(p) \/ Pause(p) \/ Resume(p) \/ Respond(p)
  PROVE  Careful(p) /\ Local(p)'
<1> DEFINE Fine == Careful(p) /\ Local(p)'
<1>0. /\ pc \in [Procs -> Places] /\ mem \in [Procs -> Rows] /\ Table \in Rows
      /\ exec \in Statuses /\ task \in [Tasks -> Statuses] /\ tries \in [Tasks -> Nat]
      /\ p \in Procs /\ p \notin Workers
      /\ GoodRows /\ Orderly /\ Local(p) /\ \A w \in Workers : Local(w)
  BY TableIsSound, ConstantsAssumption DEF IInv, TInv, Control, GoodRows, Turns, Procs
<1>o. /\ ~planned => Table = Blank
      /\ exec # "pending" /\ \A t \in Tasks : task[t] # "paused"
      /\ exec \in {"completed", "partial", "failed", "waiting_user"} => exec = Decide(task, outputs)
      /\ exec = "cancelled" => \A t \in Tasks : task[t] \in Terminal
      /\ exec \in Ongoing => \A t \in Tasks : task[t] # "blocked"
      /\ (\E t \in Tasks : task[t] = "cancelled") => exec \in Terminal
  BY <1>0 DEF Orderly, ExecutionMatchesTasks
<1>r. ASSUME NEW w \in Workers, pc[w] \in Running
      PROVE  /\ planned /\ exec \in Ongoing \union {"paused", "cancelled"}
             /\ \A t \in Tasks : task[t] # "blocked"
             /\ \/ exec = "cancelled"
                \/ \A t \in Tasks : \/ task[t] = mem[w].task[t]
                                    \/ mem[w].task[t] = "pending" /\ task[t] = "queued"
  BY <1>0, <1>r, RunningGoesOn DEF Near
<1>p. ASSUME pc'[p] = "advance", planned', mem'[p] = Table' PROVE Local(p)'
  BY <1>0, <1>p DEF Local
<1>1. ASSUME Initialize(p), ~planned PROVE Fine
  <2>1. /\ mem[p] = Table /\ exec = "queued" /\ \A t \in Tasks : task[t] = "pending"
    BY <1>0, <1>o, <1>1 DEF Initialize, Local, Blank, Table
  <2>2. PICK missing \in BOOLEAN : Commit(p, IF missing THEN [Table EXCEPT !.exec = "blocked"] ELSE Table)
    BY <1>1, <2>1 DEF Initialize
  <2> DEFINE new == IF missing THEN [Table EXCEPT !.exec = "blocked"] ELSE Table
  <2>3. new \in Rows /\ new.task = task /\ new.exec \in {"queued", "blocked"}
    BY <1>0, <2>1 DEF Rows, Table, Statuses
  <2> HIDE DEF new
  <2>4. exec' = new.exec /\ task' = task /\ mem'[p] = Table'
    BY <1>0, <2>1, <2>2, <2>3, FreshCommit DEF new
  <2>5. planned' /\ pc'[p] = "advance"
    BY <1>0, <1>1 DEF Initialize, Goto
  <2>6. Orderly'
    BY <2>1, <2>3, <2>4, <2>5 DEF Orderly, ExecutionMatchesTasks
  <2>7. Legal
    BY <2>1, <2>3, <2>4, MapsAllow DEF Legal, MayMove
  <2>8. \A w \in Workers : pc[w] \notin Running
    BY <1>1, <1>r
  <2> QED
    BY <1>p, <2>4, <2>5, <2>6, <2>7, <2>8 DEF Careful
<1>2. ASSUME Cancel(p) \/ Pause(p) \/ Resume(p) \/ Respond(p)
      PROVE  /\ planned /\ planned' /\ outputs' = outputs /\ mem[p] = Table /\ pc'[p] = "advance"
  <2>1. pc[p] = "control" /\ planned' = planned /\ outputs' = outputs /\ pc'[p] = "advance"
    BY <1>0, <1>2 DEF Cancel, Pause, Resume, Respond, Settle, Goto
  <2> QED
    BY <1>0, <2>1 DEF Local, InTransaction
<1>3. ASSUME Cancel(p) PROVE Fine
  <2> DEFINE e == IF exec \in Terminal THEN exec ELSE "cancelled"
             f == [t \in Tasks |-> IF task[t] \in Terminal THEN task[t] ELSE "cancelled"]
             new == [exec |-> e, task |-> f, tries |-> tries]
  <2>1. e \in Statuses /\ f \in [Tasks -> Statuses]
        /\ \A t \in Tasks : f[t] = IF task[t] \in Terminal THEN task[t] ELSE "cancelled"
    BY <1>0 DEF Statuses
  <2>2. Commit(p, new)
    <3>1. Commit(p, Cancelled(Table))
      BY <1>2, <1>3 DEF Cancel
    <3>2. Cancelled(Table) = [exec |-> e, task |-> f, tries |-> tries]
      <4>1. Cancelled(Table) = [Table EXCEPT !.exec = e, !.task = f]
        BY DEF Cancelled, Table
      <4> HIDE DEF e, f
      <4> QED
        BY <4>1 DEF Table
    <3> HIDE DEF e, f
    <3> QED
      BY <3>1, <3>2
  <2> HIDE DEF e, f
  <2>3. new \in Rows
    BY <1>0, <2>1 DEF Rows
  <2>4. exec' = e /\ task' = f /\ mem'[p] = Table'
    <3> HIDE DEF new
    <3>1. exec' = new.exec /\ task' = new.task /\ mem'[p] = Table'
      BY <1>0, <1>2, <1>3, <2>2, <2>3, FreshCommit
    <3> QED
      BY <3>1 DEF new
  <2>5. exec' \in Terminal /\ \A t \in Tasks : task'[t] \in Terminal
    BY <2>1, <2>4 DEF e, Terminal
  <2>6. exec' \in {"completed", "partial", "failed"} => exec' = Decide(task', outputs')
    <3> SUFFICES ASSUME exec' \in {"completed", "partial", "failed"} PROVE exec' = Decide(task', outputs')
      OBVIOUS
    <3>1. exec' = exec /\ exec = Decide(task, outputs) /\ outputs' = outputs
      BY <1>2, <1>3, <1>o, <2>4 DEF e
    <3>2. Decide(task', outputs) = Decide(task, outputs)
      BY <1>0, <2>1, <2>4, <3>1, DecideIgnoresCancel
    <3> QED
      BY <3>1, <3>2
  <2>7. Orderly'
    BY <1>2, <1>3, <2>5, <2>6 DEF Orderly, ExecutionMatchesTasks, Terminal, Ongoing
  <2>8. Legal
    BY <1>0, <2>1, <2>4, MapsAllow DEF Legal, MayMove, e
  <2>9. ASSUME NEW w \in Workers, pc[w] \in Running PROVE Undisturbed(w)
    <3>1. exec' = "cancelled"
      BY <1>r, <2>4, <2>9 DEF e, Ongoing, Terminal
    <3> QED
      BY <1>2, <1>3, <2>5, <3>1 DEF Undisturbed, Terminal
  <2> QED
    BY <1>2, <1>3, <1>p, <2>4, <2>7, <2>8, <2>9 DEF Careful
<1>4. ASSUME Pause(p) PROVE Fine
  <2>1. Commit(p, [Table EXCEPT !.exec = "paused"]) /\ CanPause(Table)
    BY <1>2, <1>4 DEF Pause
  <2>2. [Table EXCEPT !.exec = "paused"] \in Rows
    BY <1>0 DEF Rows, Statuses
  <2>3. exec' = "paused" /\ task' = task /\ mem'[p] = Table'
    BY <1>0, <1>2, <1>4, <2>1, <2>2, FreshCommit DEF Table
  <2>4. exec \notin Terminal /\ MayMove(ExecutionTransitions, exec, "paused")
    BY <2>1 DEF CanPause, Table
  <2>5. Orderly'
    BY <1>2, <1>4, <1>o, <2>3, <2>4 DEF Orderly, ExecutionMatchesTasks, Ongoing
  <2>6. Legal
    BY <2>3, <2>4 DEF Legal, MayMove
  <2>7. ASSUME NEW w \in Workers, pc[w] \in Running PROVE Undisturbed(w)
    BY <1>2, <1>4, <1>r, <2>3, <2>4, <2>7 DEF Undisturbed, Terminal
  <2> QED
    BY <1>2, <1>4, <1>p, <2>3, <2>5, <2>6, <2>7 DEF Careful
(* The execution is queued again, with the tasks that were blocked and     *)
(* perhaps one that waits.                                                 *)
<1>5. ASSUME NEW f \in [Tasks -> Statuses], planned, planned', outputs' = outputs,
             mem[p] = Table, pc'[p] = "advance",
             Commit(p, [exec |-> "queued", task |-> f, tries |-> tries]),
             exec \in {"paused", "blocked", "waiting_user"},
             \A t \in Tasks : \/ f[t] = task[t] /\ task[t] # "blocked"
                              \/ f[t] = "queued" /\ task[t] \in {"blocked", "waiting_user"},
             exec \in {"paused", "blocked"} => \A t \in Tasks : task[t] # "blocked" => f[t] = task[t]
      PROVE  Fine
  <2> DEFINE new == [exec |-> "queued", task |-> f, tries |-> tries]
  <2>1. new \in Rows
    BY <1>0, <1>5 DEF Rows, Statuses
  <2>2. exec' = "queued" /\ task' = f /\ mem'[p] = Table'
    <3> HIDE DEF new
    <3>1. exec' = new.exec /\ task' = new.task /\ mem'[p] = Table'
      BY <1>0, <1>5, <2>1, FreshCommit DEF new
    <3> QED
      BY <3>1 DEF new
  <2>3. exec \notin Terminal
    BY <1>5 DEF Terminal
  <2>4. /\ \A t \in Tasks : f[t] # "blocked" /\ f[t] # "paused" /\ f[t] # "cancelled"
    BY <1>5, <1>o, <2>3
  <2>5. Orderly'
    BY <1>5, <2>2, <2>4 DEF Orderly, ExecutionMatchesTasks
  <2>6. Legal
    BY <1>0, <1>5, <2>2, MapsAllow DEF Legal, MayMove
  <2>7. ASSUME NEW w \in Workers, pc[w] \in Running PROVE Undisturbed(w)
    <3>1. exec = "paused" /\ \A t \in Tasks : task[t] # "blocked"
      BY <1>5, <1>r, <2>7 DEF Ongoing
    <3>2. task' = task
      BY <1>0, <1>5, <2>2, <3>1
    <3> QED
      BY <1>5, <1>r, <2>2, <2>7, <3>1, <3>2 DEF Undisturbed, Ongoing
  <2> QED
    BY <1>5, <1>p, <2>2, <2>5, <2>6, <2>7 DEF Careful
<1>q. /\ Requeued(Table) = [exec |-> "queued", task |-> Requeued(Table).task, tries |-> tries]
      /\ Requeued(Table).task \in [Tasks -> Statuses]
      /\ \A t \in Tasks : Requeued(Table).task[t] = IF task[t] = "blocked" THEN "queued" ELSE task[t]
  <2> DEFINE f == [t \in Tasks |-> IF task[t] = "blocked" THEN "queued" ELSE task[t]]
  <2>1. Requeued(Table) = [exec |-> "queued", task |-> f, tries |-> tries]
    <3>1. Requeued(Table) = [Table EXCEPT !.exec = "queued", !.task = f]
      BY DEF Requeued, Table
    <3> HIDE DEF f
    <3> QED
      BY <3>1 DEF Table
  <2>2. f \in [Tasks -> Statuses] /\ \A t \in Tasks : f[t] = IF task[t] = "blocked" THEN "queued" ELSE task[t]
    BY <1>0 DEF Statuses
  <2> HIDE DEF f
  <2> QED
    BY <2>1, <2>2
<1>6. ASSUME Resume(p) PROVE Fine
  <2>1. exec \in {"paused", "blocked"} /\ Commit(p, Requeued(Table))
    BY <1>2, <1>6 DEF Resume, CanResume, Table
  <2> QED
    BY <1>2, <1>5, <1>6, <1>q, <2>1
<1>7. ASSUME Respond(p) PROVE Fine
  <2>1. PICK t \in Waiting(Table) : Commit(p, [Requeued(Table) EXCEPT !.task[t] = "queued"])
    BY <1>2, <1>7 DEF Respond
  <2> DEFINE f == [Requeued(Table).task EXCEPT ![t] = "queued"]
  <2>2. /\ f \in [Tasks -> Statuses]
        /\ \A u \in Tasks : f[u] = IF u = t THEN "queued" ELSE Requeued(Table).task[u]
    BY <1>q DEF Statuses
  <2>3. t \in Tasks /\ task[t] = "waiting_user" /\ exec = "waiting_user"
    <3>1. Table.exec = "waiting_user" /\ t \in Tasks /\ Table.task[t] = "waiting_user"
      BY <1>2, <1>7 DEF Respond, Waiting
    <3> QED
      BY <3>1 DEF Table
  <2>4. Commit(p, [exec |-> "queued", task |-> f, tries |-> tries])
    <3>1. [Requeued(Table) EXCEPT !.task[t] = "queued"] = [exec |-> "queued", task |-> f, tries |-> tries]
      BY <1>q
    <3> HIDE DEF f
    <3> QED
      BY <2>1, <3>1
  <2> HIDE DEF f
  <2> QED
    BY <1>2, <1>5, <1>7, <1>q, <2>2, <2>3, <2>4
<1> QED
  BY <1>1, <1>3, <1>4, <1>6, <1>7

(* Whoever dispatches has read the execution while it went on. *)
LEMMA DispatchTurns ==
  ASSUME IInv, Turns, NEW p \in Procs, Dispatch(p)
  PROVE  Careful(p) /\ Local(p)'
<1>0. /\ pc \in [Procs -> Places] /\ mem \in [Procs -> Rows]
      /\ exec \in Statuses /\ task \in [Tasks -> Statuses] /\ tries \in [Tasks -> Nat]
      /\ mem[p].exec \in Statuses /\ mem[p].task \in [Tasks -> Statuses]
      /\ mem[p].tries \in [Tasks -> Nat]
      /\ p \in Clients => p \notin Workers
      /\ GoodRows /\ Orderly /\ Local(p) /\ \A w \in Workers : Local(w)
  BY ConstantsAssumption DEF IInv, TInv, Control, GoodRows, Turns, Procs, Rows
<1>1. PICK t \in Dispatchable(mem[p]) : Commit(p, [mem[p] EXCEPT !.task[t] = "queued"])
  BY DEF Dispatch
<1>2. /\ pc[p] = "advance" /\ pc'[p] = "publish" /\ planned' = planned /\ outputs' = outputs
  BY <1>0 DEF Dispatch, Goto
<1>3. /\ mem[p].exec \notin Terminal \union Halted
      /\ t \in Tasks /\ mem[p].task[t] = "pending"
  BY <1>1 DEF Dispatchable, Ready
<1>4. /\ planned /\ mem[p].exec = exec /\ Near(p)
      /\ p \in Clients => mem[p] = Table
  BY <1>2 DEF Local, InTransaction, Near, Turns, Procs, Table
<1>5. exec \in Ongoing /\ exec # "cancelled"
  BY <1>0, <1>3, <1>4 DEF Orderly, Statuses, Terminal, Halted, Ongoing
<1>6. \A u \in Tasks : \/ task[u] = mem[p].task[u]
                       \/ mem[p].task[u] = "pending" /\ task[u] = "queued"
  BY <1>4, <1>5 DEF Near
<1> DEFINE f == [mem[p].task EXCEPT ![t] = "queued"]
           new == [exec |-> mem[p].exec, task |-> f, tries |-> mem[p].tries]
<1>7. /\ f \in [Tasks -> Statuses]
      /\ \A u \in Tasks : f[u] = IF u = t THEN "queued" ELSE mem[p].task[u]
  BY <1>0 DEF Statuses
<1>8. Commit(p, new) /\ new \in Rows
  <2>1. [mem[p] EXCEPT !.task[t] = "queued"] = new
    <3>1. [mem[p] EXCEPT !.task[t] = "queued"] = [mem[p] EXCEPT !.task = f]
      BY <1>0 DEF Rows
    <3> HIDE DEF f
    <3> QED
      BY <1>0, <3>1 DEF Rows
  <2> HIDE DEF f
  <2> QED
    BY <1>0, <1>1, <1>7, <2>1 DEF Rows
<1> HIDE DEF f
<1>9. exec' = exec /\ \A u \in Tasks : task'[u] = IF u = t THEN "queued" ELSE task[u]
  <2>1. exec' = exec /\ task' = [u \in Tasks |-> IF f[u] # mem[p].task[u] THEN f[u] ELSE task[u]]
    BY <1>8 DEF Commit
  <2> QED
    BY <1>3, <1>7, <2>1
<1>10. task[t] \in {"pending", "queued"}
  BY <1>3, <1>6
<1>11. Orderly'
  BY <1>2, <1>4, <1>5, <1>9, <1>0 DEF Orderly, ExecutionMatchesTasks, Ongoing
<1>12. Legal
  BY <1>9, <1>10, MapsAllow DEF Legal, MayMove
<1>13. ASSUME NEW w \in Workers, pc[w] \in Running PROVE Undisturbed(w)
  <2>1. /\ \A u \in Tasks : task[u] # "blocked"
        /\ \A u \in Tasks : \/ task[u] = mem[w].task[u]
                            \/ mem[w].task[u] = "pending" /\ task[u] = "queued"
    BY <1>0, <1>5, <1>13, RunningGoesOn DEF Near
  <2> QED
    BY <1>2, <1>4, <1>5, <1>9, <1>10, <2>1 DEF Undisturbed
<1>14. Local(p)'
  <2>1. p \in Clients => mem'[p] = Table'
    <3> HIDE DEF new
    <3> QED
      BY <1>0, <1>4, <1>8, FreshCommit
  <2> QED
    BY <1>2, <1>4, <2>1 DEF Local, Running
<1> QED
  BY <1>11, <1>12, <1>13, <1>14 DEF Careful

(* A worker that writes holds the lock, so no other worker is running. *)
LEMMA AloneUnderLock ==
  ASSUME IInv, NEW p \in Workers, Handling(p), NEW w \in Workers \ {p}
  PROVE  pc[w] \notin Running
  BY DEF IInv, LockHeld, Handling, Running

(* The executor of a task starts. *)
LEMMA BeginTurns ==
  ASSUME IInv, Turns, NEW p \in Workers, Begin(p)
  PROVE  Careful(p) /\ Local(p)'
<1> DEFINE T == Task(p)
<1>0. /\ pc \in [Procs -> Places] /\ mem \in [Procs -> Rows] /\ Table \in Rows
      /\ exec \in Statuses /\ task \in [Tasks -> Statuses] /\ tries \in [Tasks -> Nat]
      /\ p \in Procs /\ p \notin Clients
      /\ GoodRows /\ Orderly /\ Local(p)
  BY TableIsSound, ConstantsAssumption DEF IInv, TInv, Control, GoodRows, Turns, Procs
<1>1. /\ pc[p] = "loaded" /\ pc'[p] = "run" /\ planned' = planned /\ outputs' = outputs
      /\ Handling(p) /\ T \in Tasks
  BY <1>0 DEF Begin, Goto, Handling, IInv, TInv, Control, Hand, Task, Job
<1>2. mem[p] = Table /\ Unfinished(Table, T)
  BY <1>1 DEF Begin, Local, Turns, Procs
<1> HIDE DEF T
<1>3. planned /\ exec \in Ongoing /\ \A u \in Tasks : task[u] # "blocked"
  BY <1>0, <1>1, <1>2, UnfinishedGoesOn
<1>4. task[T] \in {"queued", "running", "retrying"}
  BY <1>0, <1>1, <1>2 DEF Unfinished, Table, Terminal, Statuses, Orderly
<1> DEFINE f == [task EXCEPT ![T] = "running"]
           g == [tries EXCEPT ![T] = @ + 1]
           new == [Table EXCEPT !.exec = "running", !.task = f, !.tries = g]
<1>5. /\ f \in [Tasks -> Statuses] /\ g \in [Tasks -> Nat]
      /\ \A u \in Tasks : f[u] = IF u = T THEN "running" ELSE task[u]
  BY <1>0, <1>1 DEF Statuses
<1>6. Commit(p, new)
  <2>1. Commit(p, [Table EXCEPT !.exec = "running", !.task[T] = "running", !.tries[T] = @ + 1])
    BY <1>2 DEF Begin, T
  <2>2. [Table EXCEPT !.exec = "running", !.task[T] = "running", !.tries[T] = @ + 1] = new
    <3>1. ASSUME NEW rows \in Rows
          PROVE  [rows EXCEPT !.exec = "running", !.task[T] = "running", !.tries[T] = @ + 1]
                   = [rows EXCEPT !.exec = "running", !.task = [rows.task EXCEPT ![T] = "running"],
                                  !.tries = [rows.tries EXCEPT ![T] = @ + 1]]
      BY DEF Rows
    <3>2. Table.task = task /\ Table.tries = tries
      BY DEF Table
    <3> QED
      BY <1>0, <3>1, <3>2
  <2> HIDE DEF new
  <2> QED
    BY <2>1, <2>2
<1> HIDE DEF f, g
<1>7. exec' = "running" /\ task' = f /\ mem'[p].task = task'
  <2>1. new \in Rows /\ new.exec = "running" /\ new.task = f
    <3>1. "running" \in Statuses
      BY DEF Statuses
    <3> QED
      BY <1>0, <1>5, <3>1 DEF Rows
  <2> HIDE DEF new
  <2> QED
    BY <1>0, <1>2, <1>6, <2>1, FreshCommit
<1>8. \A t \in Tasks : task[t] # "cancelled"
  BY <1>0, <1>3 DEF Orderly, Ongoing, Terminal
<1>9. Orderly'
  BY <1>0, <1>1, <1>3, <1>5, <1>7, <1>8 DEF Orderly, ExecutionMatchesTasks
<1>10. Legal
  BY <1>3, <1>4, <1>5, <1>7, MapsAllow DEF Legal, MayMove, Ongoing
<1>11. Local(p)'
  BY <1>0, <1>1, <1>3, <1>5, <1>7 DEF Local, Near, Ongoing
<1> QED
  BY <1>1, <1>9, <1>10, <1>11, AloneUnderLock DEF Careful

(* An interrupted task is put back; one of a cancelled execution is over   *)
(* by then.                                                                *)
LEMMA InterruptTurns ==
  ASSUME IInv, Turns, NEW p \in Workers, Interrupt(p)
  PROVE  Careful(p) /\ Local(p)'
<1> DEFINE T == Task(p)
<1>0. /\ pc \in [Procs -> Places] /\ mem \in [Procs -> Rows] /\ Table \in Rows
      /\ exec \in Statuses /\ task \in [Tasks -> Statuses] /\ tries \in [Tasks -> Nat]
      /\ p \in Procs /\ p \notin Clients
      /\ GoodRows /\ Orderly /\ Local(p)
  BY TableIsSound, ConstantsAssumption DEF IInv, TInv, Control, GoodRows, Turns, Procs
<1>1. /\ pc[p] = "interrupted" /\ pc'[p] \in {"stopping", "finish"}
      /\ planned' = planned /\ outputs' = outputs
      /\ Handling(p) /\ T \in Tasks /\ mem[p] = Table
  BY <1>0 DEF Interrupt, Goto, Handling, IInv, TInv, Control, Hand, Task, Job, Local
<1>2. planned /\ exec \in Ongoing \union {"paused", "cancelled"}
      /\ \A t \in Tasks : task[t] # "blocked"
  BY <1>0, <1>1, RunningGoesOn DEF Running
<1>3. Commit(p, PutBack(Table, T))
  BY <1>1 DEF Interrupt
<1> HIDE DEF T
<1>4. PutBack(Table, T) = IF task[T] = "running" THEN [Table EXCEPT !.task[T] = "queued"] ELSE Table
  <2>1. ~(exec = "cancelled" /\ task[T] \notin Terminal)
    BY <1>0, <1>1 DEF Orderly, ExecutionMatchesTasks
  <2> QED
    BY <2>1 DEF PutBack, Table
<1>5. /\ exec' = exec
      /\ \A t \in Tasks : task'[t] = IF t = T /\ task[T] = "running" THEN "queued" ELSE task[t]
  <2>1. CASE task[T] = "running"
    <3> DEFINE f == [task EXCEPT ![T] = "queued"]
               new == [exec |-> exec, task |-> f, tries |-> tries]
    <3>1. f \in [Tasks -> Statuses] /\ \A t \in Tasks : f[t] = IF t = T THEN "queued" ELSE task[t]
      BY <1>0 DEF Statuses
    <3>2. PutBack(Table, T) = new
      BY <1>4, <2>1 DEF Table
    <3> HIDE DEF f
    <3>3. new \in Rows
      BY <1>0, <3>1 DEF Rows
    <3>4. exec' = new.exec /\ task' = new.task
      <4> HIDE DEF new
      <4> QED
        BY <1>0, <1>1, <1>3, <3>2, <3>3, FreshCommit
    <3> QED
      BY <2>1, <3>1, <3>4
  <2>2. CASE task[T] # "running"
    <3>1. exec' = Table.exec /\ task' = Table.task
      BY <1>0, <1>1, <1>3, <1>4, <2>2, FreshCommit
    <3> QED
      BY <2>2, <3>1 DEF Table
  <2> QED
    BY <2>1, <2>2
<1>6. exec = "cancelled" => \A t \in Tasks : task'[t] = task[t]
  BY <1>0, <1>5 DEF Orderly, ExecutionMatchesTasks, Terminal
<1>7. Orderly'
  <2>1. exec' \notin {"completed", "partial", "failed", "waiting_user"}
    BY <1>2, <1>5 DEF Ongoing
  <2> QED
    BY <1>0, <1>1, <1>2, <1>5, <1>6, <2>1 DEF Orderly, ExecutionMatchesTasks
<1>8. Legal
  BY <1>5, MapsAllow DEF Legal, MayMove
<1>9. Local(p)'
  BY <1>0, <1>1 DEF Local, Running
<1> QED
  BY <1>1, <1>7, <1>8, <1>9, AloneUnderLock DEF Careful

(* What a completion makes of the tasks is what the execution becomes. *)
LEMMA CompleteTurns ==
  ASSUME IInv, Turns, NEW p \in Workers, Complete(p)
  PROVE  Careful(p) /\ Local(p)'
<1> DEFINE T == Task(p)
           m == mem[p]
<1>0. /\ pc \in [Procs -> Places] /\ mem \in [Procs -> Rows] /\ m \in Rows
      /\ m.exec \in Statuses /\ m.task \in [Tasks -> Statuses] /\ m.tries \in [Tasks -> Nat]
      /\ exec \in Statuses /\ task \in [Tasks -> Statuses] /\ tries \in [Tasks -> Nat]
      /\ p \in Procs /\ p \notin Clients
      /\ GoodRows /\ Orderly /\ Local(p)
  BY ConstantsAssumption DEF IInv, TInv, Control, GoodRows, Turns, Procs, Rows
<1>1. /\ pc[p] = "completing" /\ pc'[p] = "advance" /\ planned' = planned
      /\ Handling(p) /\ T \in Tasks /\ outputs' = OutputsAfter(p)
      /\ m.task[T] \notin Terminal /\ m.exec # "cancelled" /\ LegalCompletion(p)
      /\ result[p] \in Outcomes \union {Exhausted}
  BY <1>0 DEF Complete, Completing, Goto, Handling, IInv, TInv, Control, Hand, Task, Job
<1>2. /\ planned /\ m.exec = exec /\ Near(p) /\ m.task[T] = task[T]
      /\ exec \in Ongoing \union {"paused", "cancelled"}
      /\ \A t \in Tasks : task[t] # "blocked"
  BY <1>0, <1>1 DEF Local, Running
<1> DEFINE f == Applied(p)
           e == IF exec = "paused" THEN exec ELSE Goal(p)
           g == [task EXCEPT ![T] = Target(p)]
<1>3. /\ Target(p) \in {"retrying", "completed", "blocked", "waiting_user", "failed"}
      /\ Target(p) \in Statuses
  <2>1. result[p].status \in {"completed", "blocked", "waiting_user", "failed"}
    BY <1>1
    DEF Outcomes, Exhausted, Completed, Blocked, WaitUser, PartImport, Transient, Permanent
  <2> QED
    BY <2>1 DEF Target, Statuses
<1>4. LegalCompletion(p) <=>
        /\ MayMove(TaskTransitions, m.task[T], Target(p))
        /\ m.exec = "paused" \/ MayMove(ExecutionTransitions, m.exec, Goal(p))
  BY DEF LegalCompletion
<1>5. f = [m.task EXCEPT ![T] = Target(p)] /\ Goal(p) = Decide(f, OutputsAfter(p))
  BY DEF Applied, Goal
<1>6. Commit(p, [m EXCEPT !.task = f, !.exec = e])
  BY <1>2 DEF Complete
<1> HIDE DEF f, T
<1>7. /\ f \in [Tasks -> Statuses] /\ g \in [Tasks -> Statuses]
      /\ \A t \in Tasks : f[t] = IF t = T THEN Target(p) ELSE m.task[t]
      /\ \A t \in Tasks : g[t] = IF t = T THEN Target(p) ELSE task[t]
  BY <1>0, <1>3, <1>5
<1> HIDE DEF g
<1>8. \A t \in Tasks : \/ task[t] = m.task[t]
                       \/ m.task[t] = "pending" /\ task[t] = "queued"
  BY <1>1, <1>2 DEF Near
<1>9. Goal(p) = Decide(g, outputs')
  <2>1. \A t \in Tasks : g[t] = f[t] \/ (f[t] = "pending" /\ g[t] = "queued")
    BY <1>7, <1>8
  <2> QED
    BY <1>1, <1>5, <1>7, <2>1, DecideIgnoresDispatch
<1>10. Goal(p) \in Statuses \ {"pending"}
  <2>1. Goal(p) \in {"completed", "waiting_user", "blocked", "partial", "failed", "cancelled",
                     "retrying", "running"}
    BY <1>7, <1>9, DecideByTasks
  <2> QED
    BY <2>1 DEF Statuses
<1>11. e \in Statuses /\ e # "pending"
  BY <1>0, <1>10 DEF Statuses
<1>12. exec' = e /\ task' = g /\ mem'[p].exec = e /\ mem'[p].task = f
  <2> DEFINE new == [m EXCEPT !.task = f, !.exec = e]
  <2> HIDE DEF e
  <2>1. new.exec = e /\ new.task = f
    BY <1>0 DEF Rows
  <2>2. Commit(p, new)
    BY <1>6
  <2> HIDE DEF new, m
  <2>3. exec' = e
    BY <1>2, <2>1, <2>2 DEF Commit, m
  <2>4. task' = [t \in Tasks |-> IF f[t] # m.task[t] THEN f[t] ELSE task[t]]
    BY <2>1, <2>2 DEF Commit, m
  <2>5. task' \in [Tasks -> Statuses] /\ \A t \in Tasks : task'[t] = g[t]
    <3>1. \A t \in Tasks : task'[t] = IF f[t] # m.task[t] THEN f[t] ELSE task[t]
      BY <2>4
    <3>2. \A t \in Tasks : task'[t] = g[t]
      BY <1>2, <1>7, <3>1
    <3> QED
      BY <1>0, <1>7, <2>4, <3>2
  <2>6. task' = g
    BY <1>7, <2>5
  <2>7. mem'[p] = new
    BY <1>0, <2>2 DEF Commit
  <2> QED
    BY <2>1, <2>3, <2>6, <2>7
<1>13. \A t \in Tasks : task[t] # "cancelled" /\ task[t] # "paused" /\ exec \notin Terminal
  BY <1>0, <1>1, <1>2 DEF Orderly, Ongoing, Terminal
<1>14. \A t \in Tasks : g[t] # "cancelled" /\ g[t] # "paused"
  BY <1>3, <1>7, <1>13
<1>15. /\ exec' \in {"completed", "partial", "failed", "waiting_user"} => exec' = Decide(task', outputs')
       /\ exec' # "cancelled"
       /\ exec' \in Ongoing => \A t \in Tasks : task'[t] # "blocked"
  <2>1. CASE exec = "paused"
    BY <1>12, <2>1 DEF Ongoing
  <2>2. CASE exec # "paused"
    <3>1. exec' = Goal(p)
      BY <1>12, <2>2
    <3>2. Goal(p) # "cancelled"
      BY <1>7, <1>9, <1>14, DecideByTasks
    <3>3. Goal(p) \in Ongoing => \A t \in Tasks : g[t] # "blocked"
      BY <1>7, <1>9, DecideByTasks DEF Ongoing
    <3> QED
      BY <1>9, <1>12, <3>1, <3>2, <3>3
  <2> QED
    BY <2>1, <2>2
<1>16. Orderly'
  BY <1>1, <1>2, <1>11, <1>12, <1>14, <1>15 DEF Orderly, ExecutionMatchesTasks
<1>17. Legal
  <2>1. MayMove(TaskTransitions, task[T], Target(p))
        /\ (exec = "paused" \/ MayMove(ExecutionTransitions, exec, Goal(p)))
    BY <1>1, <1>2, <1>4
  <2> QED
    BY <1>7, <1>12, <2>1 DEF Legal, MayMove
<1>18. Local(p)'
  <2>1. \A t \in Tasks : \/ g[t] = f[t]
                         \/ f[t] = "pending" /\ g[t] = "queued"
    BY <1>7, <1>8
  <2> QED
    BY <1>0, <1>1, <1>2, <1>12, <2>1 DEF Local, Near, Running
<1> QED
  BY <1>1, <1>16, <1>17, <1>18, AloneUnderLock DEF Careful

(* A step by turns: what everybody relies on stays true, and the stored    *)
(* statuses move along their maps.                                         *)
LEMMA TurnStep ==
  ASSUME IInv, Turns, NoOverlap', NEW p \in Procs, Unwritten(p) \/ Written(p)
  PROVE  Turns' /\ Legal
<1>0. /\ NoOverlap /\ Orderly /\ \A q \in Procs : Local(q)
      /\ Moved(p)
  BY OneMoves DEF Turns, IInv
<1>1. CASE Unwritten(p)
  <2>1. UNCHANGED <<planned, exec, task, tries, outputs>>
    BY <1>1, UnwrittenRows, UnwrittenPlan DEF IInv, TInv
  <2>2. Orderly'
    BY <1>0, <2>1 DEF Orderly, ExecutionMatchesTasks, Table, Blank
  <2>3. Local(p)'
    BY <1>0, <1>1, UnwrittenLocal
  <2>4. ASSUME NEW q \in Procs \ {p} PROVE Local(q)'
    BY <1>0, <2>1, OthersStay
  <2>5. Legal
    BY <2>1 DEF Legal, MayMove
  <2> QED
    BY <2>2, <2>3, <2>4, <2>5 DEF Turns
<1>2. CASE Written(p)
  <2>1. ~(p \in Workers /\ CancelledMeanwhile(p))
    <3> SUFFICES ASSUME p \in Workers, CancelledMeanwhile(p) PROVE FALSE
      OBVIOUS
    <3>1. pc[p] = "completing" /\ Handling(p)
      BY DEF CancelledMeanwhile, Handling
    <3>2. Task(p) \in Tasks
      BY <3>1 DEF IInv, TInv, Control, Hand, Task, Job
    <3>3. mem[p].exec = exec /\ mem[p].task[Task(p)] = task[Task(p)]
      BY <1>0, <3>1 DEF Local
    <3>4. exec = "cancelled" /\ task[Task(p)] \notin Terminal
      BY <3>3 DEF CancelledMeanwhile
    <3> QED
      BY <1>0, <3>2, <3>4 DEF Orderly, ExecutionMatchesTasks
  <2>2. Careful(p) /\ Local(p)'
    BY <1>2, <2>1, ClientWrites, DispatchTurns, BeginTurns, InterruptTurns, CompleteTurns
    DEF Written
  <2>3. InTransaction(p)
    BY <1>2, <2>1
    DEF Written, Dispatch, Initialize, Cancel, Pause, Resume, Respond, Begin, Interrupt,
        Complete, Completing, InTransaction
  <2>4. ASSUME NEW q \in Procs \ {p} PROVE Local(q)'
    BY <1>0, <2>2, <2>3, OthersUndisturbed DEF Careful
  <2> QED
    BY <2>2, <2>4 DEF Turns, Careful
<1> QED
  BY <1>1, <1>2

(* One client is about to initialize the execution, and nobody has read yet. *)
LEMMA UInvInit == TurnsInit => UInv
<1> SUFFICES ASSUME TurnsInit PROVE IInv /\ Turns
  BY DEF UInv
<1>0. Init
  BY DEF TurnsInit
<1>1. PICK creator \in Clients : pc = [p \in Procs |-> IF p = creator THEN "init" ELSE "idle"]
  BY <1>0 DEF Init
<1>2. /\ \A p \in Procs : pc[p] = IF p = creator THEN "init" ELSE "idle"
      /\ \A p \in Procs : mem[p] = Blank
      /\ creator \notin Workers
  BY <1>0, <1>1, ConstantsAssumption DEF Init
<1>3. NoOverlap
  BY <1>2 DEF NoOverlap, InTransaction
<1>4. Table = Blank /\ exec = "queued" /\ \A t \in Tasks : task[t] = "pending"
  BY <1>0 DEF Init, Table, Blank
<1>5. Orderly
  BY <1>4 DEF Orderly, ExecutionMatchesTasks
<1>6. \A p \in Procs : Local(p)
  BY <1>2 DEF Local, InTransaction, Running
<1> QED
  BY <1>0, <1>3, <1>5, <1>6, IInvInit DEF Turns

(* The three facts about a step of the whole: the invariant stays, and     *)
(* what a step may do while they take turns.                               *)
LEMMA UInvStep ==
  ASSUME UInv, [TurnsNext]_<<vars, overlapped, controlled>>
  PROVE  /\ UInv'
         /\ overlapped' \/ Legal
<1>1. CASE UNCHANGED <<vars, overlapped, controlled>>
  <2>1. IInv'
    BY <1>1, IInvStep DEF UInv
  <2>2. Turns' <=> Turns
    BY <1>1
    DEF vars, database, Turns, NoOverlap, InTransaction, Orderly, ExecutionMatchesTasks, Local,
        Near, Table, Blank, Task, Running
  <2>3. UNCHANGED <<exec, task, overlapped>>
    BY <1>1 DEF vars, database
  <2> QED
    BY <2>1, <2>2, <2>3 DEF UInv, Legal, MayMove
<1>2. CASE TurnsNext
  <2>1. IInv'
    BY <1>2, IInvStep DEF UInv, TurnsNext
  <2>2. CASE overlapped'
    BY <2>1, <2>2 DEF UInv
  <2>3. CASE ~overlapped'
    <3>1. ~overlapped /\ NoOverlap'
      BY <1>2, <2>3 DEF TurnsNext
    <3>2. IInv /\ Turns
      BY <3>1 DEF UInv
    <3>3. PICK p \in Procs : Unwritten(p) \/ Written(p)
      BY <1>2, StepsOfProcesses DEF TurnsNext
    <3>4. Turns' /\ Legal
      BY <3>1, <3>2, <3>3, TurnStep
    <3> QED
      BY <2>1, <3>4 DEF UInv
  <2> QED
    BY <2>2, <2>3
<1> QED
  BY <1>1, <1>2

(* As long as requests and workers take turns, an execution that stopped   *)
(* has the status its tasks call for, and a cancelled one has no task      *)
(* open: whatever dies, however often jobs are repeated.                   *)
THEOREM StopsMatchTasks == TurnsSpec => []MatchesInTurns
<1>1. TurnsInit => UInv
  BY UInvInit
<1>2. UInv /\ [TurnsNext]_<<vars, overlapped, controlled>> => UInv'
  BY UInvStep
<1>3. UInv => MatchesInTurns
  BY DEF UInv, Turns, Orderly, MatchesInTurns
<1> QED
  BY <1>1, <1>2, <1>3, PTL DEF TurnsSpec

(* The stored statuses move along the maps of task_contracts.py only, as   *)
(* long as requests and workers take turns.                                *)
THEOREM StatusesMoveLegally == TurnsSpec => LegalMovesInTurns
<1>1. TurnsInit => UInv
  BY UInvInit
<1>2. UInv /\ [TurnsNext]_<<vars, overlapped, controlled>> => UInv'
  BY UInvStep
<1>3. UInv /\ [TurnsNext]_<<vars, overlapped, controlled>> =>
        [\/ overlapped'
         \/ /\ MayMove(ExecutionTransitions, exec, exec')
            /\ \A t \in Tasks : MayMove(TaskTransitions, task[t], task'[t])]_vars
  BY UInvStep DEF Legal
<1> QED
  BY <1>1, <1>2, <1>3, PTL DEF TurnsSpec, LegalMovesInTurns
=============================================================================
