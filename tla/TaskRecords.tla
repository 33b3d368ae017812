----------------------------- MODULE TaskRecords -----------------------------
(***************************************************************************)
(* utils/task_manager.py: the record of one upload, in a file and in Redis *)
(* at the same time, as the API and the worker read and rewrite it.        *)
(*                                                                         *)
(* A record is the set of the updates it contains; update number 0 creates *)
(* it.  A file that somebody is writing is cut short.  The lock is one of  *)
(* threads: processes have none in common.                                 *)
(***************************************************************************)
EXTENDS Naturals, FiniteSets

CONSTANTS
  None,
  Processes,    \* that use the records
  MaxUpdates,   \* bound: updates
  MaxOutages    \* bound: times Redis is not there

Record == SUBSET (0..MaxUpdates)
File   == [of : Record, whole : BOOLEAN]

RecordsAssumption ==
  /\ MaxUpdates \in Nat /\ MaxOutages \in Nat
  /\ None \notin Processes /\ (\A r \in Record : r # None) /\ \A f \in File : f # None

VARIABLES
  onDisk,     \* the file: None, or [of, whole]
  temporary,  \* the file beside it: None, or who opened it last
  inRedis,    \* None or a record
  redisUp,
  user,       \* what each process is at
  resting,    \* the processes that do not ask Redis for now
  updates,    \* updates begun
  applied,    \* updates that are over, since the creation
  outages,
  overlapped  \* were two processes at it at once, or one cut off

recordVars == <<onDisk, temporary, inRedis, redisUp, user, resting, updates, applied,
                outages, overlapped>>

Idle == [at |-> "idle", record |-> {}, update |-> 0]

RecordsInit ==
  /\ onDisk = None /\ temporary = None /\ inRedis = None /\ redisUp = TRUE
  /\ user = [p \in Processes |-> Idle] /\ resting = {} /\ updates = 0
  /\ applied = None /\ outages = 0 /\ overlapped = FALSE

Others(p) == {q \in Processes \ {p} : user[q] # Idle}
Enter(p, step) ==
  /\ user[p] = Idle /\ user' = [user EXCEPT ![p] = step]
  /\ overlapped' = (overlapped \/ Others(p) # {})
Reaches(p) == redisUp /\ p \notin resting
(* One that finds Redis gone leaves it alone for 30 seconds. *)
Noticed(p) == resting' = IF redisUp THEN resting ELSE resting \union {p}

-----------------------------------------------------------------------------
(* create_task *)
Create(p) ==
  /\ updates = 0 /\ updates' = 1
  /\ Enter(p, [at |-> "open", record |-> {0}, update |-> 0])
  /\ UNCHANGED <<onDisk, temporary, inRedis, redisUp, resting, applied, outages>>

(* _read_task_redis, and the file when Redis has nothing: Redis wins, also *)
(* where the file is newer.                                                *)
Found(p) ==
  IF Reaches(p) /\ inRedis # None THEN inRedis
  ELSE IF onDisk # None /\ onDisk.whole THEN onDisk.of ELSE None

(* update_task; without a record, or with half of one, nothing happens. *)
Update(p) ==
  /\ updates \in 1..MaxUpdates /\ Found(p) # None /\ updates' = updates + 1
  /\ Enter(p, [at |-> "open", record |-> Found(p) \union {updates}, update |-> updates])
  /\ Noticed(p)
  /\ UNCHANGED <<onDisk, temporary, inRedis, redisUp, applied, outages>>

(* _write_task_file.  Who opens the temporary file empties it; two that    *)
(* have it open write into one file, under whichever name it has.          *)
Open(p) ==
  /\ user[p].at = "open" /\ temporary' = p
  /\ user' = [user EXCEPT ![p].at = "replace"]
  /\ UNCHANGED <<onDisk, inRedis, redisUp, resting, updates, applied, outages, overlapped>>

Opened == {user[q].record : q \in {q \in Processes : user[q].at = "replace"}}

(* The second of two finds no file to rename: the update fails, logged. *)
Replace(p) ==
  /\ user[p].at = "replace"
  /\ IF temporary = None
     THEN user' = [user EXCEPT ![p] = Idle] /\ UNCHANGED <<onDisk, temporary>>
     ELSE /\ \E of \in IF temporary = p THEN {user[p].record} ELSE Opened,
                whole \in IF temporary = p THEN {TRUE} ELSE BOOLEAN :
               onDisk' = [of |-> of, whole |-> whole]
          /\ temporary' = None /\ user' = [user EXCEPT ![p].at = "publish"]
  /\ UNCHANGED <<inRedis, redisUp, resting, updates, applied, outages, overlapped>>

(* _write_task_redis *)
Publish(p) ==
  /\ user[p].at = "publish" /\ user' = [user EXCEPT ![p] = Idle]
  /\ inRedis' = IF Reaches(p) THEN user[p].record ELSE inRedis
  /\ applied' = (IF applied = None THEN {} ELSE applied) \union {user[p].update}
  /\ Noticed(p)
  /\ UNCHANGED <<onDisk, temporary, redisUp, updates, outages, overlapped>>

(* remove_task: first the file; Redis is asked also by one that rests. *)
Remove(p) ==
  /\ updates > 0 /\ Enter(p, [Idle EXCEPT !.at = "forget"])
  /\ onDisk' = None
  /\ UNCHANGED <<temporary, inRedis, redisUp, resting, updates, applied, outages>>

Forget(p) ==
  /\ user[p].at = "forget" /\ user' = [user EXCEPT ![p] = Idle]
  /\ inRedis' = IF redisUp THEN None ELSE inRedis
  /\ applied' = None
  /\ UNCHANGED <<onDisk, temporary, redisUp, resting, updates, outages, overlapped>>

-----------------------------------------------------------------------------
(* Redis goes and comes back; the record's time to live is over, or the 30 *)
(* seconds are; a process is killed.                                       *)
Outage ==
  /\ redisUp /\ outages < MaxOutages /\ redisUp' = FALSE /\ outages' = outages + 1
  /\ UNCHANGED <<onDisk, temporary, inRedis, user, resting, updates, applied, overlapped>>
Recovery ==
  /\ ~redisUp /\ redisUp' = TRUE
  /\ UNCHANGED <<onDisk, temporary, inRedis, user, resting, updates, applied, outages,
                 overlapped>>
Expire ==
  /\ inRedis # None /\ inRedis' = None
  /\ UNCHANGED <<onDisk, temporary, redisUp, user, resting, updates, applied, outages,
                 overlapped>>
AskAgain(p) ==
  /\ p \in resting /\ resting' = resting \ {p}
  /\ UNCHANGED <<onDisk, temporary, inRedis, redisUp, user, updates, applied, outages,
                 overlapped>>
Killed(p) ==
  /\ user[p] # Idle /\ user' = [user EXCEPT ![p] = Idle] /\ overlapped' = TRUE
  /\ resting' = resting \ {p}
  /\ UNCHANGED <<onDisk, temporary, inRedis, redisUp, updates, applied, outages>>

RecordsNext ==
  \/ \E p \in Processes : \/ Create(p) \/ Update(p) \/ Open(p) \/ Replace(p)
                          \/ Publish(p) \/ Remove(p) \/ Forget(p)
                          \/ AskAgain(p) \/ Killed(p)
  \/ Outage \/ Recovery \/ Expire

-----------------------------------------------------------------------------
Quiet == \A p \in Processes : user[p] = Idle

(* Every variable has its type. *)
RecordsTypeOK ==
  /\ onDisk \in {None} \union File
  /\ temporary \in {None} \union Processes /\ inRedis \in {None} \union Record
  /\ redisUp \in BOOLEAN /\ resting \subseteq Processes /\ overlapped \in BOOLEAN
  /\ user \in [Processes -> [at : {"idle", "open", "replace", "publish", "forget"},
                             record : Record, update : 0..MaxUpdates]]
  /\ updates \in 0..MaxUpdates + 1 /\ applied \in {None} \union Record
  /\ outages \in 0..MaxOutages

(* As long as the processes take turns, a record is whole for whoever      *)
(* reads it, and while Redis has always been there, it contains every      *)
(* update and is gone once it was removed.                                 *)
RecordsAreKept ==
  ~overlapped =>
    /\ onDisk # None => onDisk.whole
    /\ outages = 0 /\ Quiet => \A p \in Processes : Found(p) = applied

(* task_manager.py:86, "to prevent torn JSON".  Not so for two processes. *)
FileIsWhole == onDisk # None => onDisk.whole

(* task_manager.py:69, "go on with the file" while Redis cannot be         *)
(* written.  Not so once it can be read again: it has the older record.    *)
OutagesLoseNothing ==
  ~overlapped /\ Quiet => \A p \in Processes : Found(p) = applied
=============================================================================
