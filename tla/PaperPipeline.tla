--------------------------- MODULE PaperPipeline ---------------------------
(***************************************************************************)
(* The import of one paper: the upload, retry and delete requests of       *)
(* backend/app/api/papers.py, the processing job of the worker             *)
(* (_process_paper_async) and what the worker does about interrupted       *)
(* imports when it starts (recover_incomplete_paper_tasks).                *)
(*                                                                         *)
(* A paper lives in four stores which share no transaction: the rows of    *)
(* PostgreSQL, the chunks of the knowledge base, the PDF file and the task *)
(* record (file and Redis).  A step of the model is a stretch of code that *)
(* changes one store, or that runs without an await; a worker can be       *)
(* killed between two steps.  The queue is the one of JobQueue with one    *)
(* worker: a FIFO and the job in hand, given back when the worker starts.  *)
(*                                                                         *)
(* The paper has text, tables and pictures; the number of chunks or rows   *)
(* of a kind is counted in complete copies.                                *)
(***************************************************************************)
EXTENDS Naturals, FiniteSets, SequencesExt

CONSTANTS
  Clients,      \* requests in progress at the same time
  None,         \* no record, no job
  MaxRecovery,  \* the 2 of _recover_one_paper_task
  Faults,       \* the operations that may fail
  Requests,     \* the requests clients make after the upload
  MaxRequests,  \* bound: requests after the upload
  MaxDeaths     \* bound: deaths of the worker

FaultPlaces == {"text", "structure", "persist", "index", "clear", "enhance",
                "mediaRows", "mediaIndex", "purge", "enqueue", "raise"}

ASSUME PipelineAssumption ==
  /\ Faults \subseteq FaultPlaces
  /\ Requests \subseteq {"retry", "delete", "remove"}
  /\ MaxRecovery \in Nat \ {0} /\ MaxRequests \in Nat /\ MaxDeaths \in Nat

(* The task record: TaskProgress with the two details the code reads back. *)
Status == {"pending", "processing", "ready", "completed", "failed"}
Media  == {"absent", "not_started", "processing", "completed", "failed",
           "interrupted"}
Record == [status : Status, media : Media, recoveries : 0..MaxRecovery]

ASSUME NoneAssumption == None \notin Record \union {"core", "media"}

(* The worker runs one job at a time ("loop") and, after a start, the      *)
(* recovery coroutine of the paper ("recovery") next to it.                *)
Runs == {"loop", "recovery"}

Recovering == {"recover", "purgeRow", "purgeIndex"}
Unready    == {"extract", "structure", "persist", "index", "publish",
               "clearRows", "clearIndex"}
Enhancing  == {"enhance", "mediaRows", "mediaIndex", "complete"}
RunPlaces  == {"idle", "ack"} \union Recovering \union Unready \union Enhancing

ClientPlaces == {"idle", "decide", "purge", "sendUpload", "sendCore",
                 "sendMedia", "dropIndex", "dropRow", "dropRecord",
                 "removeIndex", "removeRow"}

VARIABLES
  row,         \* the Paper row with its sections is committed
  mediaRows,   \* copies of its table and image rows
  text,        \* copies of its text chunks in the knowledge base
  mediaText,   \* copies of its table and image chunks
  pdf,         \* the uploaded file is on disk
  record,      \* the task record, or None
  jobs,        \* waiting jobs of this paper
  hand,        \* the job the worker has reserved
  up,          \* the worker process runs
  pc,          \* where each run of the worker is
  cpc,         \* where each client's request is
  seen,        \* the record a request has read
  seenRow,     \* whether a request has found the row
  uploaded,    \* the upload was made
  requests,    \* history: what was requested after the upload
  deaths,
  recoveries   \* history: how often the import was restarted from the PDF

stores  == <<row, mediaRows, text, mediaText, pdf>>
queue   == <<jobs, hand>>
clients == <<cpc, seen, seenRow, uploaded, requests>>
worker  == <<up, pc, deaths, recoveries>>
vars    == <<stores, record, queue, clients, worker>>

Init ==
  /\ row = FALSE /\ mediaRows = 0 /\ text = 0 /\ mediaText = 0 /\ pdf = FALSE
  /\ record = None
  /\ jobs = <<>> /\ hand = None
  /\ up = TRUE /\ deaths = 0 /\ recoveries = 0
  /\ pc = [r \in Runs |-> "idle"]
  /\ cpc = [c \in Clients |-> "idle"]
  /\ seen = [c \in Clients |-> None]
  /\ seenRow = [c \in Clients |-> FALSE]
  /\ uploaded = FALSE /\ requests = <<>>

(* update_task does nothing when the record is gone. *)
Update(new) == record' = IF record = None THEN None ELSE new

(* finish_stage writes new details: what the old ones said is lost. *)
Stage(media) == [record EXCEPT !.media = media, !.recoveries = 0]

Says(status, media) ==
  [status |-> status, media |-> media, recoveries |-> 0]

Goto(r, place)     == pc' = [pc EXCEPT ![r] = place]
Continue(c, place) == cpc' = [cpc EXCEPT ![c] = place]

(* From the chunks to the record there is no await: the other coroutine of *)
(* the worker does not run.                                                *)
Turn(r) == \A q \in Runs \ {r} : pc[q] \notin {"publish", "complete"}

At(r, place) == Turn(r) /\ pc[r] = place

(* A job handler returns to the loop, which acknowledges the job. *)
Return(r) == Goto(r, IF r = "loop" THEN "ack" ELSE "idle")

(* The except branch of _process_paper_async; core_ready holds from        *)
(* "enhance" on.                                                           *)
Abandon(r) ==
  /\ Return(r)
  /\ Update(IF pc[r] \in Enhancing THEN Says("completed", "failed")
            ELSE Says("failed", "not_started"))

-----------------------------------------------------------------------------
(* Faulty variants of the actions below, for the mutation runs only.       *)

(* The core transaction announces the paper before its text is indexed.    *)
PersistAndAnnounce(r) ==
  /\ At(r, "persist") /\ ~row
  /\ row' = TRUE
  /\ Goto(r, "index")
  /\ Update(Says("ready", "processing"))
  /\ UNCHANGED <<mediaRows, text, mediaText, pdf, queue, clients, up, deaths,
                 recoveries>>

(* The retry of the enhancement clears the rows but not the chunks. *)
ClearRowsOnly ==
  /\ At("loop", "clearIndex") /\ pdf
  /\ Goto("loop", "enhance")
  /\ Update([record EXCEPT !.status = "ready", !.media = "processing"])
  /\ UNCHANGED <<stores, queue, clients, up, deaths, recoveries>>

(* The deletion of a failed import forgets the partial row. *)
DeleteNoRow(c) ==
  /\ cpc[c] = "dropRow"
  /\ Continue(c, "dropRecord")
  /\ UNCHANGED <<stores, record, queue, worker, seen, seenRow, uploaded,
                 requests>>

(* A failed enqueue that leaves the record as if the job was queued. *)
SendWithoutRestore(c, kind) ==
  /\ Continue(c, "idle")
  /\ \/ jobs' = Append(jobs, kind)
     \/ "enqueue" \in Faults /\ UNCHANGED jobs
  /\ UNCHANGED <<stores, record, hand, worker, seen, seenRow, uploaded,
                 requests>>

(* Recovery without a limit. *)
StartAlwaysRecovers ==
  /\ ~up /\ up' = TRUE
  /\ hand' = None
  /\ jobs' = IF hand = None THEN jobs ELSE Append(jobs, hand)
  /\ UNCHANGED <<stores, clients, deaths>>
  /\ record # None /\ record.status \in {"pending", "processing"} /\ pdf
  /\ record' = [record EXCEPT !.status = "processing", !.recoveries = @ + 1]
  /\ Goto("recovery", "recover")
  /\ recoveries' = recoveries + 1

(* The end of the enhancement written into the details only. *)
CompleteDetails(r) ==
  /\ At(r, "complete")
  /\ Return(r)
  /\ Update(Stage("completed"))
  /\ UNCHANGED <<stores, queue, clients, up, deaths, recoveries>>
-----------------------------------------------------------------------------
(* POST /upload: the file is stored and the record created, then the job   *)
(* is enqueued.                                                            *)
Upload(c) ==
  /\ cpc[c] = "idle" /\ ~uploaded
  /\ uploaded' = TRUE
  /\ pdf' = TRUE
  /\ record' = Says("pending", "absent")
  /\ Continue(c, "sendUpload")
  /\ UNCHANGED <<row, mediaRows, text, mediaText, queue, worker, seen,
                 seenRow, requests>>

SendUpload(c) ==
  /\ cpc[c] = "sendUpload"
  /\ Continue(c, "idle")
  /\ \/ /\ jobs' = Append(jobs, "core")
        /\ UNCHANGED record
     \/ /\ "enqueue" \in Faults
        /\ Update([record EXCEPT !.status = "failed"])
        /\ UNCHANGED jobs
  /\ UNCHANGED <<stores, hand, worker, seen, seenRow, uploaded, requests>>

-----------------------------------------------------------------------------
(* The worker's loop with the job it reserves; handle_paper_process is in  *)
(* _process_paper_async without an await.                                  *)
TakeCore ==
  /\ up /\ At("loop", "idle")
  /\ jobs # <<>> /\ Head(jobs) = "core"
  /\ hand' = "core" /\ jobs' = Tail(jobs)
  /\ Goto("loop", "extract")
  /\ Update([record EXCEPT !.status = "processing"])
  /\ UNCHANGED <<stores, clients, up, deaths, recoveries>>

TakeMedia ==
  /\ up /\ At("loop", "idle")
  /\ jobs # <<>> /\ Head(jobs) = "media"
  /\ hand' = "media" /\ jobs' = Tail(jobs)
  /\ Goto("loop", "clearRows")
  /\ UNCHANGED <<stores, record, clients, up, deaths, recoveries>>

(* The handlers catch every exception, so the job is always acknowledged. *)
Acknowledge ==
  /\ pc["loop"] = "ack" /\ Turn("loop")
  /\ hand' = None
  /\ Goto("loop", "idle")
  /\ UNCHANGED <<stores, record, jobs, clients, up, deaths, recoveries>>

(* A PDF without extractable text is removed. *)
Extract ==
  /\ At("loop", "extract")
  /\ \/ /\ pdf
        /\ Goto("loop", "structure")
        /\ Update([Stage("absent") EXCEPT !.status = "processing"])
        /\ UNCHANGED pdf
     \/ /\ ~pdf \/ "text" \in Faults
        /\ pdf' = FALSE
        /\ Abandon("loop")
  /\ UNCHANGED <<row, mediaRows, text, mediaText, queue, clients, up, deaths,
                 recoveries>>

(* The parser falls back on the text when the file is gone, or raises. *)
Structure(r) ==
  /\ At(r, "structure")
  /\ \/ Goto(r, "persist") /\ Update(Stage("absent"))
     \/ (~pdf \/ "structure" \in Faults) /\ Abandon(r)
  /\ UNCHANGED <<stores, queue, clients, up, deaths, recoveries>>

(* persist_core inserts the row: it raises when the row is there already. *)
Persist(r) ==
  /\ At(r, "persist")
  /\ \/ /\ ~row
        /\ row' = TRUE
        /\ Goto(r, "index")
        /\ Update(Stage("absent"))
     \/ /\ row \/ "persist" \in Faults
        /\ Abandon(r)
        /\ UNCHANGED row
  /\ UNCHANGED <<mediaRows, text, mediaText, pdf, queue, clients, up, deaths,
                 recoveries>>

Index(r) ==
  /\ At(r, "index")
  /\ \/ /\ text' = text + 1
        /\ Goto(r, "publish")
        /\ Update(Stage("absent"))
     \/ /\ "index" \in Faults
        /\ Abandon(r)
        /\ UNCHANGED text
  /\ UNCHANGED <<row, mediaRows, mediaText, pdf, queue, clients, up, deaths,
                 recoveries>>

(* The paper is announced as readable. *)
Publish(r) ==
  /\ At(r, "publish")
  /\ Goto(r, "enhance")
  /\ Update(Says("ready", "processing"))
  /\ UNCHANGED <<stores, queue, clients, up, deaths, recoveries>>

(* The stages of the media enhancement that store nothing. *)
Enhance(r) ==
  /\ At(r, "enhance")
  /\ \/ Goto(r, "mediaRows") /\ Update(Stage("processing"))
     \/ "enhance" \in Faults /\ Abandon(r)
  /\ UNCHANGED <<stores, queue, clients, up, deaths, recoveries>>

(* Table and image rows refer to the paper's row. *)
MediaRows(r) ==
  /\ At(r, "mediaRows")
  /\ \/ /\ row
        /\ mediaRows' = mediaRows + 1
        /\ Goto(r, "mediaIndex")
        /\ Update(Stage("processing"))
     \/ /\ ~row \/ "mediaRows" \in Faults
        /\ Abandon(r)
        /\ UNCHANGED mediaRows
  /\ UNCHANGED <<row, text, mediaText, pdf, queue, clients, up, deaths,
                 recoveries>>

MediaIndex(r) ==
  /\ At(r, "mediaIndex")
  /\ \/ /\ mediaText' = mediaText + 1
        /\ Goto(r, "complete")
        /\ Update(Stage("processing"))
     \/ /\ "mediaIndex" \in Faults
        /\ Abandon(r)
        /\ UNCHANGED mediaText
  /\ UNCHANGED <<row, mediaRows, text, pdf, queue, clients, up, deaths,
                 recoveries>>

Complete(r) ==
  /\ At(r, "complete")
  /\ Return(r)
  /\ Update(Says("completed", "completed"))
  /\ UNCHANGED <<stores, queue, clients, up, deaths, recoveries>>

-----------------------------------------------------------------------------
(* A media-only run removes what an earlier run left before it starts.     *)
ClearRows ==
  /\ At("loop", "clearRows")
  /\ \/ /\ row
        /\ mediaRows' = 0
        /\ Goto("loop", "clearIndex")
        /\ UNCHANGED record
     \/ /\ ~row
        /\ Abandon("loop")
        /\ UNCHANGED mediaRows
  /\ UNCHANGED <<row, text, mediaText, pdf, queue, clients, up, deaths,
                 recoveries>>

ClearIndex ==
  /\ At("loop", "clearIndex")
  /\ \/ /\ pdf
        /\ mediaText' = 0
        /\ Goto("loop", "enhance")
        /\ Update([record EXCEPT !.status = "ready", !.media = "processing"])
     \/ /\ ~pdf \/ "clear" \in Faults
        /\ Abandon("loop")
        /\ UNCHANGED mediaText
  /\ UNCHANGED <<row, mediaRows, text, pdf, queue, clients, up, deaths,
                 recoveries>>

-----------------------------------------------------------------------------
(* The worker is killed: its coroutines are lost, the job it had reserved  *)
(* stays in the processing list.                                           *)
Die ==
  /\ up /\ deaths < MaxDeaths
  /\ up' = FALSE /\ deaths' = deaths + 1
  /\ pc' = [r \in Runs |-> "idle"]
  /\ UNCHANGED <<stores, record, queue, clients, recoveries>>

(* recover_processing_jobs, the first thing a worker does. *)
GiveBack ==
  /\ ~up /\ up' = TRUE
  /\ hand' = None
  /\ jobs' = IF hand = None THEN jobs ELSE Append(jobs, hand)
  /\ UNCHANGED <<stores, clients, deaths>>

Interrupted == record # None /\ record.status \in {"pending", "processing"}

StartSettled ==
  /\ GiveBack
  /\ record # None => record.status \in {"completed", "failed"}
  /\ UNCHANGED <<record, pc, recoveries>>

(* The text is usable: the interrupted enhancement is not restarted. *)
StartReady ==
  /\ GiveBack
  /\ record # None /\ record.status = "ready"
  /\ record' = [record EXCEPT !.status = "completed", !.media = "interrupted"]
  /\ UNCHANGED <<pc, recoveries>>

(* _recover_one_paper_task up to its first await, which is where the new   *)
(* coroutine stops before the loop takes a job.                            *)
StartGivesUp ==
  /\ GiveBack
  /\ Interrupted
  /\ record.recoveries >= MaxRecovery \/ ~pdf
  /\ record' = [record EXCEPT !.status = "failed"]
  /\ UNCHANGED <<pc, recoveries>>

StartRecovery ==
  /\ GiveBack
  /\ Interrupted
  /\ record.recoveries < MaxRecovery /\ pdf
  /\ record' = [record EXCEPT !.status = "processing", !.recoveries = @ + 1]
  /\ Goto("recovery", "recover")
  /\ recoveries' = recoveries + 1

Start == StartSettled \/ StartReady \/ StartGivesUp \/ StartRecovery

(* The text of the PDF: found, empty, or an exception that no one catches. *)
RecoverText ==
  /\ At("recovery", "recover")
  /\ \/ pdf /\ Goto("recovery", "purgeRow") /\ UNCHANGED record
     \/ /\ pdf /\ "text" \in Faults
        /\ Goto("recovery", "idle")
        /\ Update([record EXCEPT !.status = "failed"])
     \/ /\ ~pdf \/ "raise" \in Faults
        /\ Goto("recovery", "idle")
        /\ UNCHANGED record
  /\ UNCHANGED <<stores, queue, clients, up, deaths, recoveries>>

RecoverDeleteRow ==
  /\ At("recovery", "purgeRow")
  /\ row' = FALSE /\ mediaRows' = 0
  /\ Goto("recovery", "purgeIndex")
  /\ UNCHANGED <<text, mediaText, pdf, record, queue, clients, up, deaths,
                 recoveries>>

(* delete_paper of the knowledge base reports a failure that no caller     *)
(* looks at.                                                               *)
PurgeIndex ==
  \/ text' = 0 /\ mediaText' = 0
  \/ "purge" \in Faults /\ UNCHANGED <<text, mediaText>>

RecoverDeleteIndex ==
  /\ At("recovery", "purgeIndex")
  /\ PurgeIndex
  /\ Goto("recovery", "structure")
  /\ Update([record EXCEPT !.status = "processing"])
  /\ UNCHANGED <<row, mediaRows, pdf, queue, clients, up, deaths, recoveries>>

-----------------------------------------------------------------------------
Ask(c, request) ==
  /\ cpc[c] = "idle" /\ uploaded
  /\ request \in Requests /\ Len(requests) < MaxRequests
  /\ requests' = Append(requests, request)

(* POST /tasks/{id}/retry reads the record, then the row. *)
Retry(c) ==
  /\ Ask(c, "retry")
  /\ record # None
  /\ seen' = [seen EXCEPT ![c] = record]
  /\ Continue(c, "decide")
  /\ UNCHANGED <<stores, record, queue, worker, seenRow, uploaded>>

RetryMedia(c) ==
  /\ cpc[c] = "decide" /\ row
  /\ \/ /\ seen[c].media \in {"failed", "interrupted", "not_started"} /\ pdf
        /\ Update([seen[c] EXCEPT !.status = "ready", !.media = "processing"])
        /\ Continue(c, "sendMedia")
     \/ /\ seen[c].media \in {"absent", "processing", "completed"} \/ ~pdf
        /\ Continue(c, "idle")
        /\ UNCHANGED record
  /\ UNCHANGED <<stores, queue, worker, seen, seenRow, uploaded, requests>>

RetryCore(c) ==
  /\ cpc[c] = "decide" /\ ~row
  /\ Continue(c, IF seen[c].status = "failed" /\ pdf THEN "purge" ELSE "idle")
  /\ UNCHANGED <<stores, record, queue, worker, seen, seenRow, uploaded,
                 requests>>

RetryPurge(c) ==
  /\ cpc[c] = "purge"
  /\ PurgeIndex
  /\ Update([seen[c] EXCEPT !.status = "pending", !.media = "not_started"])
  /\ Continue(c, "sendCore")
  /\ UNCHANGED <<row, mediaRows, pdf, queue, worker, seen, seenRow, uploaded,
                 requests>>

(* A failed enqueue restores the status and the media status it has read.  *)
SendRetry(c, kind) ==
  /\ Continue(c, "idle")
  /\ \/ /\ jobs' = Append(jobs, kind)
        /\ UNCHANGED record
     \/ /\ "enqueue" \in Faults
        /\ Update(IF kind = "media" THEN seen[c]
                  ELSE [seen[c] EXCEPT !.media = "not_started"])
        /\ UNCHANGED jobs
  /\ UNCHANGED <<stores, hand, worker, seen, seenRow, uploaded, requests>>

SendMedia(c) == cpc[c] = "sendMedia" /\ SendRetry(c, "media")
SendCore(c)  == cpc[c] = "sendCore" /\ SendRetry(c, "core")

-----------------------------------------------------------------------------
(* DELETE /tasks/{id}: a failed import and whatever it left. *)
Delete(c) ==
  /\ Ask(c, "delete")
  /\ record # None /\ record.status = "failed"
  /\ seenRow' = [seenRow EXCEPT ![c] = row]
  /\ Continue(c, "dropIndex")
  /\ UNCHANGED <<stores, record, queue, worker, seen, uploaded>>

DeleteIndex(c) ==
  /\ cpc[c] = "dropIndex"
  /\ PurgeIndex
  /\ Continue(c, "dropRow")
  /\ UNCHANGED <<row, mediaRows, pdf, record, queue, worker, seen, seenRow,
                 uploaded, requests>>

DeleteRow(c) ==
  /\ cpc[c] = "dropRow"
  /\ IF seenRow[c] THEN row' = FALSE /\ mediaRows' = 0
                   ELSE UNCHANGED <<row, mediaRows>>
  /\ Continue(c, "dropRecord")
  /\ UNCHANGED <<text, mediaText, pdf, record, queue, worker, seen, seenRow,
                 uploaded, requests>>

DeleteRecord(c) ==
  /\ cpc[c] = "dropRecord"
  /\ pdf' = FALSE /\ record' = None
  /\ Continue(c, "idle")
  /\ UNCHANGED <<row, mediaRows, text, mediaText, queue, worker, seen,
                 seenRow, uploaded, requests>>

(* DELETE /{paper_id} leaves the task record. *)
RemovePaper(c) ==
  /\ Ask(c, "remove")
  /\ row
  /\ Continue(c, "removeIndex")
  /\ UNCHANGED <<stores, record, queue, worker, seen, seenRow, uploaded>>

RemoveIndex(c) ==
  /\ cpc[c] = "removeIndex"
  /\ PurgeIndex
  /\ Continue(c, "removeRow")
  /\ UNCHANGED <<row, mediaRows, pdf, record, queue, worker, seen, seenRow,
                 uploaded, requests>>

RemoveRow(c) ==
  /\ cpc[c] = "removeRow"
  /\ row' = FALSE /\ mediaRows' = 0 /\ pdf' = FALSE
  /\ Continue(c, "idle")
  /\ UNCHANGED <<text, mediaText, record, queue, worker, seen, seenRow,
                 uploaded, requests>>

-----------------------------------------------------------------------------
RunStep(r) ==
  \/ Structure(r) \/ Persist(r) \/ Index(r) \/ Publish(r)
  \/ Enhance(r) \/ MediaRows(r) \/ MediaIndex(r) \/ Complete(r)

LoopStep ==
  \/ TakeCore \/ TakeMedia \/ Acknowledge
  \/ Extract \/ ClearRows \/ ClearIndex
  \/ RunStep("loop")

RecoveryStep ==
  \/ RecoverText \/ RecoverDeleteRow \/ RecoverDeleteIndex
  \/ RunStep("recovery")

(* What is left of a request once it was received. *)
Proceed(c) ==
  \/ SendUpload(c)
  \/ RetryMedia(c) \/ RetryCore(c) \/ RetryPurge(c) \/ SendMedia(c)
  \/ SendCore(c)
  \/ DeleteIndex(c) \/ DeleteRow(c) \/ DeleteRecord(c)
  \/ RemoveIndex(c) \/ RemoveRow(c)

Receive(c) == Upload(c) \/ Retry(c) \/ Delete(c) \/ RemovePaper(c)

Next ==
  \/ LoopStep \/ RecoveryStep \/ Start \/ Die
  \/ \E c \in Clients : Receive(c) \/ Proceed(c)

Spec == Init /\ [][Next]_vars

(* The worker's coroutines go on, docker restarts it, and the API answers  *)
(* what it has received; no request has to come and no worker has to die.  *)
Fairness ==
  /\ WF_vars(LoopStep) /\ WF_vars(RecoveryStep) /\ WF_vars(Start)
  /\ \A c \in Clients : WF_vars(Proceed(c))

FairSpec == Spec /\ Fairness

-----------------------------------------------------------------------------
(* Every variable has its type. *)
TypeOK ==
  /\ row \in BOOLEAN /\ pdf \in BOOLEAN /\ up \in BOOLEAN
  /\ mediaRows \in Nat /\ text \in Nat /\ mediaText \in Nat
  /\ record \in Record \union {None}
  /\ jobs \in Seq({"core", "media"}) /\ hand \in {"core", "media", None}
  /\ pc \in [Runs -> RunPlaces] /\ cpc \in [Clients -> ClientPlaces]
  /\ seen \in [Clients -> Record \union {None}]
  /\ seenRow \in [Clients -> BOOLEAN] /\ uploaded \in BOOLEAN
  /\ Len(requests) <= MaxRequests /\ deaths \in 0..MaxDeaths
  /\ recoveries \in Nat

Readable == record # None /\ record.status \in {"ready", "completed"}

(* A user who waits for the answers: requests find no job at work.         *)
Patient == \A c \in Clients :
  cpc[c] \notin {"idle", "sendUpload"} => jobs = <<>> /\ hand = None

(* What the record tells the user is in the stores: a paper that is        *)
(* announced as ready or completed has its rows and its text chunks, and   *)
(* one whose enhancement is completed has its tables and pictures, whatever*)
(* failed and was retried before.  It holds while nothing is interrupted,  *)
(* the requests come one after the other and the text index never fails.   *)
RecordTellsTruth ==
  /\ Readable => row /\ text >= 1
  /\ Readable /\ record.media = "completed" =>
       mediaRows >= 1 /\ mediaText >= 1

(* Somebody has asked to delete the paper or the failed import.  Both stop *)
(* neither a job nor a recovery that is at work and ignore what the        *)
(* knowledge base answers; what job and recovery promise each other holds  *)
(* until then.                                                             *)
Withdrawn == {"delete", "remove"} \intersect Range(requests) # {}

(* Nothing is stored twice, whichever step failed or died, however often   *)
(* the job was delivered and whoever retried, unless the import itself was *)
(* restarted from the PDF (see RecoveryIsIdempotent) or deleted.           *)
RetriesDoNotDuplicate ==
  recoveries = 0 /\ ~Withdrawn => text <= 1 /\ mediaRows <= 1 /\ mediaText <= 1

(* When the record of an import goes, everything the import stored has     *)
(* gone before: rows, chunks and file.                                     *)
DeletedLeavesNothing ==
  [][record # None /\ record' = None =>
       ~row' /\ ~pdf' /\ mediaRows' = 0 /\ text' = 0 /\ mediaText' = 0]_vars

InProgress ==
  record # None /\ record.status \in {"pending", "processing", "ready"}

(* No import is forgotten: while the record says that work is under way, a *)
(* job waits or is in hand, a recovery runs, a request is about to enqueue *)
(* the job, or a worker that is down will look at the record; unless the   *)
(* paper was deleted.                                                      *)
Attended ==
  InProgress =>
    \/ jobs # <<>> \/ hand # None \/ pc["recovery"] # "idle" \/ ~up
    \/ \E c \in Clients : cpc[c] \in {"sendUpload", "sendCore", "sendMedia"}
    \/ Withdrawn

(* Whatever dies or fails, the record of an import stops saying that work  *)
(* is under way, unless its paper was deleted: the recovery of an import   *)
(* whose file has gone only logs that.                                     *)
EverySettles == InProgress ~> ~InProgress \/ Withdrawn

-----------------------------------------------------------------------------
(* What documentation, comments and tests say.                             *)

(* docs/SMOKE_TESTS.md:90: a ready paper is readable and can be asked      *)
(* about.                                                                  *)
ReadyIsReadable == Readable => row /\ text >= 1

(* papers.py:776: a failing enhancement does not make a paper whose text   *)
(* is stored a failed import.                                              *)
UsableIsNotFailed ==
  row /\ text >= 1 => record = None \/ record.status # "failed"

(* papers.py:1555: after a restart the paper is kept with its text usable; *)
(* it is not imported once more.                                           *)
InterruptedIsKept ==
  [][record # None /\ record.status = "completed" /\
     record.media = "interrupted" =>
       record' = None \/ record'.status \notin {"processing", "failed"}]_vars

(* papers.py:1485: the recoveries of an import are limited.                *)
RecoveryIsLimited == recoveries <= MaxRecovery

(* papers.py:1512: recovery rebuilds the paper and keeps the pipeline      *)
(* idempotent.                                                             *)
RecoveryIsIdempotent == text <= 1
=============================================================================
