------------------------- MODULE PaperPipelineProofs -------------------------
(***************************************************************************)
(* What holds of the import of a paper (PaperPipeline) for any number of   *)
(* requests at the same time, deaths of the worker and recoveries.         *)
(*                                                                         *)
(* Once says why nothing is stored twice: the row is inserted once, so the *)
(* text is indexed once, and whoever adds tables and pictures starts where *)
(* there are none.  Followed says why no import is forgotten: who takes a  *)
(* job, a record or a worker out of the picture leaves another one in it.  *)
(* TruthInv says, for requests that come one after the other while nothing *)
(* dies, how the place of the request or of the run tells what is stored.  *)
(***************************************************************************)
EXTENDS PaperPipeline, TLAPS

RequestKinds == {"retry", "delete", "remove"}

(* The types, and that a request decides on a record it has read. *)
Typed ==
  /\ TypeOK
  /\ requests \in Seq(RequestKinds)
  /\ \A c \in Clients :
       cpc[c] \in {"decide", "purge", "sendMedia", "sendCore"} => seen[c] \in Record

(* The record of an import stays one. *)
LEMMA UpdateIsTyped ==
  ASSUME record \in Record \union {None}, NEW new, Update(new),
         record \in Record => new \in Record
  PROVE  record' \in Record \union {None}
  BY DEF Update

(* The records the code writes. *)
LEMMA RecordsAreTyped ==
  /\ \A s \in Status, m \in Media : Says(s, m) \in Record
  /\ \A r \in Record, s \in Status : [r EXCEPT !.status = s] \in Record
  /\ \A r \in Record, m \in Media : [r EXCEPT !.media = m] \in Record
  /\ \A r \in Record, s \in Status, m \in Media : [r EXCEPT !.status = s, !.media = m] \in Record
  /\ record \in Record =>
       \A m \in Media : Stage(m) \in Record
                        /\ [Stage(m) EXCEPT !.status = "processing"] \in Record
  /\ record \in Record /\ record.recoveries < MaxRecovery
       => [record EXCEPT !.status = "processing", !.recoveries = @ + 1] \in Record
  /\ {"pending", "processing", "ready", "completed", "failed"} = Status
  /\ {"absent", "not_started", "processing", "completed", "failed", "interrupted"} = Media
<1>1. 0 \in 0..MaxRecovery
  BY PipelineAssumption
<1>2. "processing" \in Status
  BY DEF Status
<1>3. record \in Record =>
       \A m \in Media : Stage(m) \in Record
                        /\ [Stage(m) EXCEPT !.status = "processing"] \in Record
  BY <1>1, <1>2 DEF Stage, Record
<1>4. record \in Record /\ record.recoveries < MaxRecovery
       => [record EXCEPT !.status = "processing", !.recoveries = @ + 1] \in Record
  <2> SUFFICES ASSUME record \in Record, record.recoveries < MaxRecovery
               PROVE  [record EXCEPT !.status = "processing", !.recoveries = @ + 1] \in Record
    OBVIOUS
  <2>1. record.recoveries \in 0..MaxRecovery
    BY DEF Record
  <2>2. record.recoveries + 1 \in 0..MaxRecovery
    BY <2>1, PipelineAssumption
  <2> QED
    BY <1>2, <2>2 DEF Record
<1>5. /\ \A s \in Status, m \in Media : Says(s, m) \in Record
      /\ \A r \in Record, s \in Status : [r EXCEPT !.status = s] \in Record
      /\ \A r \in Record, m \in Media : [r EXCEPT !.media = m] \in Record
      /\ \A r \in Record, s \in Status, m \in Media : [r EXCEPT !.status = s, !.media = m] \in Record
  BY <1>1 DEF Says, Record
<1> QED
  BY <1>3, <1>4, <1>5 DEF Status, Media

(* Every step, by what it is part of. *)
RunsStep == LoopStep \/ RecoveryStep

(* The steps of the worker that read and write the record, by the record   *)
(* they leave.                                                             *)
LEMMA WorkerRecords ==
  ASSUME Typed, RunsStep
  PROVE  record' \in Record \union {None}
<1>0. record \in Record \union {None}
  BY DEF Typed, TypeOK
<1>a. \A new : Update(new) /\ (record \in Record => new \in Record) => record' \in Record \union {None}
  BY <1>0, UpdateIsTyped
<1>b. ASSUME NEW r, Abandon(r) PROVE record' \in Record \union {None}
  BY <1>a, <1>b, RecordsAreTyped DEF Abandon
<1>1. ASSUME NEW r, RunStep(r) PROVE record' \in Record \union {None}
  <2>1. CASE Structure(r) \/ Persist(r) \/ Index(r) \/ Publish(r)
    BY <1>a, <1>b, <2>1, RecordsAreTyped DEF Structure, Persist, Index, Publish
  <2>2. CASE Enhance(r) \/ MediaRows(r) \/ MediaIndex(r) \/ Complete(r)
    BY <1>a, <1>b, <2>2, RecordsAreTyped DEF Enhance, MediaRows, MediaIndex, Complete
  <2> QED
    BY <1>1, <2>1, <2>2 DEF RunStep
<1>2. CASE TakeCore \/ TakeMedia \/ Acknowledge
  BY <1>0, <1>2, <1>a, RecordsAreTyped DEF TakeCore, TakeMedia, Acknowledge
<1>3. CASE Extract
  BY <1>0, <1>3, <1>a, <1>b, RecordsAreTyped DEF Extract
<1>4. CASE ClearRows \/ ClearIndex
  BY <1>0, <1>4, <1>a, <1>b, RecordsAreTyped DEF ClearRows, ClearIndex
<1>5. CASE RecoverText \/ RecoverDeleteRow \/ RecoverDeleteIndex
  BY <1>0, <1>5, <1>a, RecordsAreTyped DEF RecoverText, RecoverDeleteRow, RecoverDeleteIndex
<1> QED
  BY <1>1, <1>2, <1>3, <1>4, <1>5 DEF RunsStep, LoopStep, RecoveryStep

(* The rest of what the worker's runs change. *)
LEMMA WorkerTypes ==
  ASSUME Typed, RunsStep
  PROVE  /\ UNCHANGED <<clients, up, deaths, recoveries>>
         /\ row' \in BOOLEAN /\ pdf' \in BOOLEAN
         /\ mediaRows' \in Nat /\ text' \in Nat /\ mediaText' \in Nat
         /\ jobs' \in Seq({"core", "media"}) /\ hand' \in {"core", "media", None}
         /\ pc' \in [Runs -> RunPlaces]
<1> DEFINE Fine == /\ UNCHANGED <<clients, up, deaths, recoveries>>
                   /\ row' \in BOOLEAN /\ pdf' \in BOOLEAN
                   /\ mediaRows' \in Nat /\ text' \in Nat /\ mediaText' \in Nat
                   /\ jobs' \in Seq({"core", "media"}) /\ hand' \in {"core", "media", None}
                   /\ pc' \in [Runs -> RunPlaces]
<1>0. /\ row \in BOOLEAN /\ pdf \in BOOLEAN /\ mediaRows \in Nat /\ text \in Nat /\ mediaText \in Nat
      /\ jobs \in Seq({"core", "media"}) /\ hand \in {"core", "media", None}
      /\ pc \in [Runs -> RunPlaces]
  BY DEF Typed, TypeOK
<1>p. ASSUME NEW r, NEW place \in RunPlaces, Goto(r, place) PROVE pc' \in [Runs -> RunPlaces]
  BY <1>0, <1>p DEF Goto
<1>q. /\ "idle" \in RunPlaces /\ "ack" \in RunPlaces
      /\ "purgeRow" \in RunPlaces /\ "purgeIndex" \in RunPlaces
      /\ "extract" \in RunPlaces /\ "structure" \in RunPlaces /\ "persist" \in RunPlaces
      /\ "index" \in RunPlaces /\ "publish" \in RunPlaces
      /\ "clearRows" \in RunPlaces /\ "clearIndex" \in RunPlaces /\ "enhance" \in RunPlaces
      /\ "mediaRows" \in RunPlaces /\ "mediaIndex" \in RunPlaces /\ "complete" \in RunPlaces
  BY DEF RunPlaces, Recovering, Unready, Enhancing
<1>b. ASSUME NEW r, Abandon(r) \/ Return(r) PROVE pc' \in [Runs -> RunPlaces]
  BY <1>p, <1>q, <1>b DEF Abandon, Return
<1>1. ASSUME NEW r, RunStep(r) PROVE Fine
  <2>1. CASE Structure(r) \/ Publish(r)
    BY <1>0, <1>b, <1>p, <1>q, <2>1 DEF Structure, Publish, stores, queue
  <2>2. CASE Persist(r)
    BY <1>0, <1>b, <1>p, <1>q, <2>2 DEF Persist, queue
  <2>3. CASE Index(r)
    BY <1>0, <1>b, <1>p, <1>q, <2>3 DEF Index, queue
  <2>4. CASE Enhance(r) \/ Complete(r)
    BY <1>0, <1>b, <1>p, <1>q, <2>4 DEF Enhance, Complete, stores, queue
  <2>5. CASE MediaRows(r) \/ MediaIndex(r)
    BY <1>0, <1>b, <1>p, <1>q, <2>5 DEF MediaRows, MediaIndex, queue
  <2> QED
    BY <1>1, <2>1, <2>2, <2>3, <2>4, <2>5 DEF RunStep
<1>2. CASE TakeCore \/ TakeMedia \/ Acknowledge
  <2>1. jobs' \in Seq({"core", "media"}) /\ hand' \in {"core", "media", None}
    <3>1. jobs' = jobs \/ (jobs # <<>> /\ jobs' = Tail(jobs))
      BY <1>2 DEF TakeCore, TakeMedia, Acknowledge
    <3>2. hand' \in {"core", "media", None}
      BY <1>2 DEF TakeCore, TakeMedia, Acknowledge
    <3> QED
      BY <1>0, <3>1, <3>2
  <2>2. \E place \in {"extract", "clearRows", "idle"} : Goto("loop", place)
    BY <1>2 DEF TakeCore, TakeMedia, Acknowledge
  <2>3. UNCHANGED <<stores, clients, up, deaths, recoveries>>
    BY <1>2 DEF TakeCore, TakeMedia, Acknowledge
  <2> QED
    BY <1>0, <1>p, <1>q, <2>1, <2>2, <2>3 DEF stores
<1>3. CASE Extract
  BY <1>0, <1>b, <1>p, <1>q, <1>3 DEF Extract, queue
<1>4. CASE ClearRows \/ ClearIndex
  BY <1>0, <1>b, <1>p, <1>q, <1>4 DEF ClearRows, ClearIndex, queue
<1>5. ASSUME RecoverText \/ RecoverDeleteRow \/ RecoverDeleteIndex PROVE Fine
  <2>1. CASE RecoverText
    BY <1>0, <1>p, <1>q, <2>1 DEF RecoverText, stores, queue
  <2>2. CASE RecoverDeleteRow
    BY <1>0, <1>p, <1>q, <2>2 DEF RecoverDeleteRow, queue
  <2>3. CASE RecoverDeleteIndex
    BY <1>0, <1>p, <1>q, <2>3 DEF RecoverDeleteIndex, PurgeIndex, queue
  <2> QED
    BY <1>5, <2>1, <2>2, <2>3
<1> QED
  BY <1>1, <1>2, <1>3, <1>4, <1>5 DEF RunsStep, LoopStep, RecoveryStep

(* The worker dies and starts. *)
LEMMA RestartTypes ==
  ASSUME Typed, Die \/ Start
  PROVE  /\ UNCHANGED <<stores, clients>>
         /\ up' \in BOOLEAN /\ deaths' \in 0..MaxDeaths /\ recoveries' \in Nat
         /\ record' \in Record \union {None}
         /\ jobs' \in Seq({"core", "media"}) /\ hand' \in {"core", "media", None}
         /\ pc' \in [Runs -> RunPlaces]
<1>0. /\ up \in BOOLEAN /\ deaths \in 0..MaxDeaths /\ recoveries \in Nat
      /\ record \in Record \union {None}
      /\ jobs \in Seq({"core", "media"}) /\ hand \in {"core", "media", None}
      /\ pc \in [Runs -> RunPlaces] /\ "idle" \in RunPlaces /\ "recover" \in RunPlaces
  BY DEF Typed, TypeOK, RunPlaces, Recovering
<1>1. CASE Die
  <2>1. deaths' \in 0..MaxDeaths
    BY <1>0, <1>1, PipelineAssumption DEF Die
  <2> QED
    BY <1>0, <1>1, <2>1 DEF Die, queue
<1>2. CASE Start
  <2>1. UNCHANGED <<stores, clients, deaths>> /\ up' = TRUE /\ hand' = None
        /\ jobs' \in Seq({"core", "media"})
    <3>1. GiveBack
      BY <1>2 DEF Start, StartSettled, StartReady, StartGivesUp, StartRecovery
    <3>2. Append(jobs, hand) \in Seq({"core", "media"}) \/ hand = None
      BY <1>0
    <3> QED
      BY <1>0, <3>1, <3>2 DEF GiveBack
  <2>2. recoveries' \in Nat /\ pc' \in [Runs -> RunPlaces]
    BY <1>0, <1>2 DEF Start, StartSettled, StartReady, StartGivesUp, StartRecovery, Goto
  <2>3. record' \in Record \union {None}
    <3>1. CASE StartSettled
      BY <1>0, <3>1 DEF StartSettled
    <3>2. CASE StartReady
      BY <1>0, <3>2, RecordsAreTyped DEF StartReady
    <3>3. CASE StartGivesUp
      BY <1>0, <3>3, RecordsAreTyped DEF StartGivesUp, Interrupted
    <3>4. CASE StartRecovery
      BY <1>0, <3>4, RecordsAreTyped DEF StartRecovery, Interrupted
    <3> QED
      BY <1>2, <3>1, <3>2, <3>3, <3>4 DEF Start
  <2> QED
    BY <1>0, <2>1, <2>2, <2>3
<1> QED
  BY <1>1, <1>2

(* A request goes on. *)
LEMMA RequestTypes ==
  ASSUME Typed, NEW c \in Clients, Receive(c) \/ Proceed(c)
  PROVE  /\ UNCHANGED <<worker, hand>>
         /\ row' \in BOOLEAN /\ pdf' \in BOOLEAN /\ uploaded' \in BOOLEAN
         /\ mediaRows' \in Nat /\ text' \in Nat /\ mediaText' \in Nat
         /\ jobs' \in Seq({"core", "media"})
         /\ cpc' \in [Clients -> ClientPlaces]
         /\ \A d \in Clients \ {c} : cpc'[d] = cpc[d] /\ seen'[d] = seen[d]
         /\ seenRow' \in [Clients -> BOOLEAN]
         /\ requests' \in Seq(RequestKinds) /\ Len(requests') <= MaxRequests
<1> DEFINE Others == \A d \in Clients \ {c} : cpc'[d] = cpc[d] /\ seen'[d] = seen[d]
           Fine == /\ UNCHANGED <<worker, hand>>
                   /\ row' \in BOOLEAN /\ pdf' \in BOOLEAN /\ uploaded' \in BOOLEAN
                   /\ mediaRows' \in Nat /\ text' \in Nat /\ mediaText' \in Nat
                   /\ jobs' \in Seq({"core", "media"})
                   /\ cpc' \in [Clients -> ClientPlaces] /\ Others
                   /\ seenRow' \in [Clients -> BOOLEAN]
                   /\ requests' \in Seq(RequestKinds) /\ Len(requests') <= MaxRequests
<1>0. /\ row \in BOOLEAN /\ pdf \in BOOLEAN /\ mediaRows \in Nat /\ text \in Nat /\ mediaText \in Nat
      /\ jobs \in Seq({"core", "media"}) /\ uploaded \in BOOLEAN
      /\ cpc \in [Clients -> ClientPlaces] /\ seen \in [Clients -> Record \union {None}]
      /\ seenRow \in [Clients -> BOOLEAN]
      /\ requests \in Seq(RequestKinds) /\ Len(requests) <= MaxRequests
  BY DEF Typed, TypeOK
<1>p. ASSUME NEW place \in ClientPlaces, Continue(c, place),
             seen' = seen \/ seen' = [seen EXCEPT ![c] = record]
      PROVE  cpc' \in [Clients -> ClientPlaces] /\ Others
  BY <1>0, <1>p DEF Continue
<1>q. /\ "idle" \in ClientPlaces /\ "decide" \in ClientPlaces /\ "purge" \in ClientPlaces
      /\ "sendUpload" \in ClientPlaces /\ "sendCore" \in ClientPlaces
      /\ "sendMedia" \in ClientPlaces /\ "dropIndex" \in ClientPlaces
      /\ "dropRow" \in ClientPlaces /\ "dropRecord" \in ClientPlaces
      /\ "removeIndex" \in ClientPlaces /\ "removeRow" \in ClientPlaces
  BY DEF ClientPlaces
<1>j. \A kind \in {"core", "media"} : Append(jobs, kind) \in Seq({"core", "media"})
  BY <1>0
<1> HIDE DEF Others
<1>a. ASSUME NEW kind, Ask(c, kind)
      PROVE  requests' \in Seq(RequestKinds) /\ Len(requests') <= MaxRequests
  <2>1. kind \in RequestKinds /\ requests' = Append(requests, kind) /\ Len(requests) < MaxRequests
    BY <1>a, PipelineAssumption DEF Ask, RequestKinds
  <2> QED
    BY <1>0, <2>1, PipelineAssumption
<1>1. ASSUME Upload(c) PROVE Fine
  BY <1>0, <1>1, <1>p, <1>q DEF Upload, queue, worker
<1>2. ASSUME Retry(c) \/ RemovePaper(c) \/ Delete(c) PROVE Fine
  BY <1>0, <1>2, <1>a, <1>p, <1>q DEF Retry, RemovePaper, Delete, stores, queue, worker
<1>3. ASSUME SendUpload(c) \/ SendMedia(c) \/ SendCore(c) PROVE Fine
  BY <1>0, <1>3, <1>j, <1>p, <1>q DEF SendUpload, SendMedia, SendCore, SendRetry, stores, worker
<1>4. ASSUME RetryMedia(c) \/ RetryCore(c) PROVE Fine
  BY <1>0, <1>4, <1>p, <1>q DEF RetryMedia, RetryCore, stores, queue, worker
<1>5. ASSUME RetryPurge(c) PROVE Fine
  BY <1>0, <1>5, <1>p, <1>q DEF RetryPurge, PurgeIndex, queue, worker
<1>6. ASSUME DeleteIndex(c) \/ RemoveIndex(c) PROVE Fine
  BY <1>0, <1>6, <1>p, <1>q DEF DeleteIndex, RemoveIndex, PurgeIndex, queue, worker
<1>7. ASSUME DeleteRow(c) \/ DeleteRecord(c) \/ RemoveRow(c) PROVE Fine
  <2>1. ASSUME DeleteRow(c) PROVE Fine
    <3>1. row' \in BOOLEAN /\ mediaRows' \in Nat
      <4>1. CASE seenRow[c]
        <5>1. row' = FALSE /\ mediaRows' = 0
          BY <2>1, <4>1, Zenon DEF DeleteRow
        <5> QED
          BY <5>1
      <4>2. CASE ~seenRow[c]
        BY <1>0, <2>1, <4>2 DEF DeleteRow
      <4> QED
        BY <4>1, <4>2
    <3> QED
      BY <1>0, <1>p, <1>q, <2>1, <3>1 DEF DeleteRow, queue, worker
  <2>2. CASE DeleteRecord(c)
    BY <1>0, <1>p, <1>q, <2>2 DEF DeleteRecord, queue, worker
  <2>3. CASE RemoveRow(c)
    BY <1>0, <1>p, <1>q, <2>3 DEF RemoveRow, queue, worker
  <2> QED
    BY <1>7, <2>1, <2>2, <2>3
<1> QED
  BY <1>1, <1>2, <1>3, <1>4, <1>5, <1>6, <1>7 DEF Receive, Proceed, Others

(* What a request has read and what it writes into the record. *)
LEMMA RequestRecords ==
  ASSUME Typed, NEW c \in Clients, Receive(c) \/ Proceed(c)
  PROVE  /\ record' \in Record \union {None}
         /\ seen' \in [Clients -> Record \union {None}]
         /\ cpc'[c] \in {"decide", "purge", "sendMedia", "sendCore"} => seen'[c] \in Record
<1> DEFINE Fine == /\ record' \in Record \union {None}
                   /\ seen' \in [Clients -> Record \union {None}]
                   /\ cpc'[c] \in {"decide", "purge", "sendMedia", "sendCore"} => seen'[c] \in Record
<1>0. /\ record \in Record \union {None} /\ seen \in [Clients -> Record \union {None}]
      /\ cpc \in [Clients -> ClientPlaces]
      /\ cpc[c] \in {"decide", "purge", "sendMedia", "sendCore"} => seen[c] \in Record
  BY DEF Typed, TypeOK
<1>a. \A new : Update(new) /\ (record \in Record => new \in Record) => record' \in Record \union {None}
  BY <1>0, UpdateIsTyped
<1>1. CASE Upload(c)
  BY <1>0, <1>1, RecordsAreTyped DEF Upload, Continue
<1>2. CASE Retry(c) \/ RemovePaper(c) \/ Delete(c)
  BY <1>0, <1>2 DEF Retry, RemovePaper, Delete, Continue
<1>3. CASE SendUpload(c) \/ SendMedia(c) \/ SendCore(c)
  BY <1>0, <1>3, <1>a, RecordsAreTyped DEF SendUpload, SendMedia, SendCore, SendRetry, Continue
<1>4. CASE RetryMedia(c) \/ RetryCore(c)
  BY <1>0, <1>4, <1>a, RecordsAreTyped DEF RetryMedia, RetryCore, Continue
<1>5. CASE RetryPurge(c)
  BY <1>0, <1>5, <1>a, RecordsAreTyped DEF RetryPurge, Continue
<1>6. CASE DeleteIndex(c) \/ RemoveIndex(c) \/ DeleteRow(c) \/ DeleteRecord(c) \/ RemoveRow(c)
  BY <1>0, <1>6 DEF DeleteIndex, RemoveIndex, DeleteRow, DeleteRecord, RemoveRow, Continue
<1> QED
  BY <1>1, <1>2, <1>3, <1>4, <1>5, <1>6 DEF Receive, Proceed

LEMMA TypedInit == Init => Typed
<1> SUFFICES ASSUME Init PROVE Typed
  OBVIOUS
<1>1. requests \in Seq(RequestKinds) /\ Len(requests) <= MaxRequests /\ jobs \in Seq({"core", "media"})
  BY PipelineAssumption DEF Init
<1>2. "idle" \in RunPlaces /\ "idle" \in ClientPlaces
  BY DEF RunPlaces, ClientPlaces
<1>3. /\ pc \in [Runs -> RunPlaces] /\ cpc \in [Clients -> ClientPlaces]
      /\ \A c \in Clients : cpc[c] = "idle"
  BY <1>2 DEF Init
<1>4. /\ seen \in [Clients -> Record \union {None}] /\ seenRow \in [Clients -> BOOLEAN]
      /\ deaths \in 0..MaxDeaths /\ recoveries \in Nat /\ uploaded \in BOOLEAN
      /\ record \in Record \union {None} /\ hand \in {"core", "media", None}
      /\ row \in BOOLEAN /\ pdf \in BOOLEAN /\ up \in BOOLEAN
      /\ mediaRows \in Nat /\ text \in Nat /\ mediaText \in Nat
  <2>1. /\ seen \in [Clients -> Record \union {None}] /\ seenRow \in [Clients -> BOOLEAN]
        /\ record \in Record \union {None} /\ hand \in {"core", "media", None}
    BY DEF Init
  <2>2. /\ deaths \in 0..MaxDeaths /\ recoveries \in Nat
        /\ mediaRows \in Nat /\ text \in Nat /\ mediaText \in Nat
    BY PipelineAssumption DEF Init
  <2>3. row \in BOOLEAN /\ pdf \in BOOLEAN /\ up \in BOOLEAN /\ uploaded \in BOOLEAN
    BY DEF Init
  <2> QED
    BY <2>1, <2>2, <2>3
<1>5. TypeOK
  BY <1>1, <1>3, <1>4 DEF TypeOK
<1> QED
  BY <1>1, <1>3, <1>5 DEF Typed

LEMMA TypedStep == Typed /\ [Next]_vars => Typed'
<1> SUFFICES ASSUME Typed, [Next]_vars PROVE Typed'
  OBVIOUS
<1>1. CASE RunsStep
  BY <1>1, WorkerTypes, WorkerRecords DEF Typed, TypeOK, clients
<1>2. CASE Die \/ Start
  BY <1>2, RestartTypes DEF Typed, TypeOK, clients, stores
<1>3. ASSUME NEW c \in Clients, Receive(c) \/ Proceed(c) PROVE Typed'
  BY <1>3, RequestTypes, RequestRecords DEF Typed, TypeOK, worker
<1>4. CASE UNCHANGED vars
  BY <1>4 DEF Typed, TypeOK, vars, stores, queue, clients, worker
<1> QED
  BY <1>1, <1>2, <1>3, <1>4 DEF Next, RunsStep

(* Types, for any number of requests, deaths and recoveries. *)
THEOREM PipelineTypes == Spec => []TypeOK
<1>1. Typed => TypeOK
  BY DEF Typed
<1> QED
  BY <1>1, TypedInit, TypedStep, PTL DEF Spec

-----------------------------------------------------------------------------
(* Nothing is stored twice. *)

(* Who removes something was asked to; and until somebody was, and until a *)
(* recovery starts from the PDF, the loop adds text to a row that is new   *)
(* and tables and pictures where there are none.                           *)
OnceStored ==
  /\ text <= 1 /\ mediaRows <= 1 /\ mediaText <= 1
  /\ ~row => text = 0 /\ mediaRows = 0 /\ mediaText = 0
  /\ pc["loop"] = "index" => text = 0
  /\ pc["loop"] \in {"index", "publish", "enhance", "mediaRows", "clearIndex"} => mediaRows = 0
  /\ pc["loop"] \in {"index", "publish", "enhance", "mediaRows", "mediaIndex"} => mediaText = 0
  /\ pc["loop"] \in {"index", "publish", "enhance", "mediaRows", "mediaIndex", "clearIndex"} => row

Asked == \A c \in Clients :
  cpc[c] \in {"dropIndex", "dropRow", "dropRecord", "removeIndex", "removeRow"} => Withdrawn

Once ==
  /\ Asked
  /\ recoveries = 0 => pc["recovery"] = "idle"
  /\ recoveries = 0 /\ ~Withdrawn => OnceStored

(* A withdrawal is never forgotten. *)
LEMMA WithdrawnStays ==
  ASSUME Typed, NEW kind, requests' = requests \/ requests' = Append(requests, kind)
  PROVE  /\ Withdrawn => Withdrawn'
         /\ requests' = requests => (Withdrawn' <=> Withdrawn)
         /\ requests' = Append(requests, kind) /\ kind \in {"delete", "remove"} => Withdrawn'
<1>0. requests \in Seq(RequestKinds)
  BY DEF Typed
<1>1. Withdrawn <=> \E i \in DOMAIN requests : requests[i] \in {"delete", "remove"}
  BY DEF Withdrawn, Range
<1>2. Withdrawn' <=> \E i \in DOMAIN requests' : requests'[i] \in {"delete", "remove"}
  BY DEF Withdrawn, Range
<1>3. CASE requests' = requests
  BY <1>1, <1>2, <1>3
<1>4. CASE requests' = Append(requests, kind)
  <2>1. /\ DOMAIN requests = 1..Len(requests) /\ Len(requests) \in Nat
        /\ DOMAIN requests' = 1..(Len(requests) + 1)
        /\ \A i \in 1..Len(requests) : requests'[i] = requests[i]
        /\ requests'[Len(requests) + 1] = kind
    BY <1>0, <1>4
  <2>2. \A i \in DOMAIN requests : i \in DOMAIN requests' /\ requests'[i] = requests[i]
    BY <2>1
  <2>3. Len(requests) + 1 \in DOMAIN requests'
    BY <2>1
  <2> QED
    BY <1>1, <1>2, <1>3, <2>1, <2>2, <2>3
<1> QED
  BY <1>3, <1>4

(* The loop, ... *)
LEMMA LoopStoresOnce ==
  ASSUME Typed, OnceStored, LoopStep
  PROVE  OnceStored'
<1>0. /\ row \in BOOLEAN /\ mediaRows \in Nat /\ text \in Nat /\ mediaText \in Nat
      /\ pc \in [Runs -> RunPlaces] /\ "loop" \in Runs
  BY DEF Typed, TypeOK, Runs
<1>g. ASSUME NEW place, Goto("loop", place) PROVE pc'["loop"] = place
  BY <1>0, <1>g DEF Goto
<1>b. ASSUME Abandon("loop") \/ Return("loop") PROVE pc'["loop"] = "ack"
  BY <1>g, <1>b DEF Abandon, Return
<1>1. CASE TakeCore \/ TakeMedia \/ Acknowledge
  <2>1. UNCHANGED <<row, text, mediaRows, mediaText>> /\ pc'["loop"] \in {"extract", "clearRows", "idle"}
    BY <1>g, <1>1 DEF TakeCore, TakeMedia, Acknowledge, stores
  <2> QED
    BY <2>1 DEF OnceStored
<1>2. CASE Extract \/ Structure("loop")
  <2>1. UNCHANGED <<row, text, mediaRows, mediaText>> /\ pc'["loop"] \in {"structure", "persist", "ack"}
    BY <1>b, <1>g, <1>2 DEF Extract, Structure, stores
  <2> QED
    BY <2>1 DEF OnceStored
<1>3. CASE Persist("loop")
  <2>1. /\ UNCHANGED <<text, mediaRows, mediaText>>
        /\ \/ ~row /\ row' /\ pc'["loop"] = "index"
           \/ row' = row /\ pc'["loop"] = "ack"
    BY <1>b, <1>g, <1>3 DEF Persist
  <2> QED
    BY <2>1 DEF OnceStored
<1>4. CASE Index("loop")
  <2>1. /\ UNCHANGED <<row, mediaRows, mediaText>> /\ pc["loop"] = "index"
        /\ \/ text' = text + 1 /\ pc'["loop"] = "publish"
           \/ text' = text /\ pc'["loop"] = "ack"
    BY <1>b, <1>g, <1>4 DEF Index, At
  <2> QED
    BY <1>0, <2>1 DEF OnceStored
<1>5. CASE Publish("loop") \/ Enhance("loop") \/ Complete("loop")
  <2>1. /\ UNCHANGED <<row, text, mediaRows, mediaText>>
        /\ \/ pc["loop"] = "publish" /\ pc'["loop"] = "enhance"
           \/ pc["loop"] = "enhance" /\ pc'["loop"] = "mediaRows"
           \/ pc'["loop"] = "ack"
    BY <1>b, <1>g, <1>5 DEF Publish, Enhance, Complete, At, stores
  <2> QED
    BY <2>1 DEF OnceStored
<1>6. CASE MediaRows("loop")
  <2>1. /\ UNCHANGED <<row, text, mediaText>> /\ pc["loop"] = "mediaRows"
        /\ \/ mediaRows' = mediaRows + 1 /\ pc'["loop"] = "mediaIndex"
           \/ mediaRows' = mediaRows /\ pc'["loop"] = "ack"
    BY <1>b, <1>g, <1>6 DEF MediaRows, At
  <2> QED
    BY <1>0, <2>1 DEF OnceStored
<1>7. CASE MediaIndex("loop")
  <2>1. /\ UNCHANGED <<row, text, mediaRows>> /\ pc["loop"] = "mediaIndex"
        /\ \/ mediaText' = mediaText + 1 /\ pc'["loop"] = "complete"
           \/ mediaText' = mediaText /\ pc'["loop"] = "ack"
    BY <1>b, <1>g, <1>7 DEF MediaIndex, At
  <2> QED
    BY <1>0, <2>1 DEF OnceStored
<1>8. CASE ClearRows
  <2>1. /\ UNCHANGED <<row, text, mediaText>>
        /\ \/ row /\ mediaRows' = 0 /\ pc'["loop"] = "clearIndex"
           \/ mediaRows' = mediaRows /\ pc'["loop"] = "ack"
    BY <1>b, <1>g, <1>8 DEF ClearRows
  <2> QED
    BY <2>1 DEF OnceStored
<1>9. CASE ClearIndex
  <2>1. /\ UNCHANGED <<row, text, mediaRows>> /\ pc["loop"] = "clearIndex"
        /\ \/ mediaText' = 0 /\ pc'["loop"] = "enhance"
           \/ mediaText' = mediaText /\ pc'["loop"] = "ack"
    BY <1>b, <1>g, <1>9 DEF ClearIndex, At
  <2> QED
    BY <2>1 DEF OnceStored
<1> QED
  BY <1>1, <1>2, <1>3, <1>4, <1>5, <1>6, <1>7, <1>8, <1>9 DEF LoopStep, RunStep

(* ... and a request that nobody made to remove the paper. *)
LEMMA RequestsStoreOnce ==
  ASSUME Typed, Asked, OnceStored, ~Withdrawn, NEW c \in Clients, Receive(c) \/ Proceed(c)
  PROVE  OnceStored'
<1>0. row \in BOOLEAN /\ mediaRows \in Nat /\ text \in Nat /\ mediaText \in Nat
  BY DEF Typed, TypeOK
<1>1. pc' = pc
  BY RequestTypes DEF worker
<1>2. cpc[c] \notin {"dropIndex", "dropRow", "dropRecord", "removeIndex", "removeRow"}
  BY DEF Asked
<1>3. /\ UNCHANGED <<row, mediaRows>>
      /\ UNCHANGED <<text, mediaText>> \/ PurgeIndex
  <2>1. CASE Upload(c) \/ Retry(c) \/ RemovePaper(c) \/ Delete(c)
    BY <2>1 DEF Upload, Retry, RemovePaper, Delete, stores
  <2>2. CASE SendUpload(c) \/ SendMedia(c) \/ SendCore(c)
    BY <2>2 DEF SendUpload, SendMedia, SendCore, SendRetry, stores
  <2>3. CASE RetryMedia(c) \/ RetryCore(c) \/ RetryPurge(c)
    BY <2>3 DEF RetryMedia, RetryCore, RetryPurge, stores
  <2> QED
    BY <1>2, <2>1, <2>2, <2>3
    DEF Receive, Proceed, DeleteIndex, DeleteRow, DeleteRecord, RemoveIndex, RemoveRow
<1> QED
  BY <1>0, <1>1, <1>3 DEF OnceStored, PurgeIndex

LEMMA RequestsGrow ==
  ASSUME Typed, [Next]_vars
  PROVE  /\ Withdrawn => Withdrawn'
         /\ Asked => Asked'
<1>0. cpc \in [Clients -> ClientPlaces]
  BY DEF Typed, TypeOK
<1>1. ASSUME NEW c \in Clients, Receive(c) \/ Proceed(c)
      PROVE  /\ Withdrawn => Withdrawn'
             /\ Asked => Asked'
  <2>1. \A d \in Clients \ {c} : cpc'[d] = cpc[d]
    BY <1>1, RequestTypes
  <2>2. CASE \/ Upload(c) \/ SendUpload(c) \/ SendMedia(c) \/ SendCore(c)
             \/ RetryMedia(c) \/ RetryCore(c) \/ RetryPurge(c)
    <3>1. requests' = requests
          /\ cpc'[c] \in {"sendUpload", "idle", "purge", "sendCore", "sendMedia"}
      BY <1>0, <2>2
      DEF Upload, SendUpload, SendMedia, SendCore, SendRetry, RetryMedia, RetryCore, RetryPurge,
          Continue
    <3> QED
      BY <2>1, <3>1, WithdrawnStays DEF Asked
  <2>3. CASE Retry(c)
    <3>1. requests' = Append(requests, "retry") /\ cpc'[c] = "decide"
      BY <1>0, <2>3 DEF Retry, Ask, Continue
    <3> QED
      BY <2>1, <3>1, WithdrawnStays DEF Asked
  <2>4. CASE Delete(c) \/ RemovePaper(c)
    <3>1. PICK kind \in {"delete", "remove"} : requests' = Append(requests, kind)
      BY <2>4 DEF Delete, RemovePaper, Ask
    <3> QED
      BY <3>1, WithdrawnStays DEF Asked
  <2>5. CASE \/ DeleteIndex(c) \/ DeleteRow(c) \/ DeleteRecord(c) \/ RemoveIndex(c) \/ RemoveRow(c)
    <3>1. /\ requests' = requests
          /\ cpc[c] \in {"dropIndex", "dropRow", "dropRecord", "removeIndex", "removeRow"}
      BY <2>5 DEF DeleteIndex, DeleteRow, DeleteRecord, RemoveIndex, RemoveRow
    <3>2. Asked => Withdrawn'
      BY <3>1, WithdrawnStays DEF Asked
    <3> QED
      BY <3>1, <3>2, WithdrawnStays DEF Asked
  <2> QED
    BY <1>1, <2>2, <2>3, <2>4, <2>5 DEF Receive, Proceed
<1>2. ASSUME UNCHANGED <<cpc, requests>>
      PROVE  /\ Withdrawn => Withdrawn'
             /\ Asked => Asked'
  BY <1>2, WithdrawnStays DEF Asked
<1>3. CASE RunsStep
  BY <1>2, <1>3, WorkerTypes DEF clients
<1>4. CASE Die \/ Start
  BY <1>2, <1>4, RestartTypes DEF clients
<1>5. CASE UNCHANGED vars
  BY <1>2, <1>5 DEF vars, clients
<1> QED
  BY <1>1, <1>3, <1>4, <1>5 DEF Next, RunsStep

LEMMA OnceStep == Typed /\ Once /\ [Next]_vars => Once'
<1> SUFFICES ASSUME Typed, Once, [Next]_vars PROVE Once'
  OBVIOUS
<1>0. /\ pc \in [Runs -> RunPlaces] /\ recoveries \in Nat
  BY DEF Typed, TypeOK
<1>a. Asked' /\ (Withdrawn => Withdrawn')
  BY RequestsGrow DEF Once
<1>1. ASSUME recoveries' = recoveries, pc'["recovery"] = pc["recovery"],
             recoveries = 0 /\ ~Withdrawn /\ OnceStored => OnceStored'
      PROVE  Once'
  BY <1>a, <1>1 DEF Once
<1>2. CASE LoopStep
  <2>1. recoveries' = recoveries
    BY <1>2, WorkerTypes DEF RunsStep
  <2>2. pc'["recovery"] = pc["recovery"]
    <3>1. \E place : Goto("loop", place)
      BY <1>2
      DEF LoopStep, RunStep, TakeCore, TakeMedia, Acknowledge, Extract, ClearRows, ClearIndex,
          Structure, Persist, Index, Publish, Enhance, MediaRows, MediaIndex, Complete, Abandon,
          Return
    <3> QED
      BY <1>0, <3>1 DEF Goto, Runs
  <2> QED
    BY <1>1, <1>2, <2>1, <2>2, LoopStoresOnce
<1>3. CASE RecoveryStep
  <2>1. recoveries' = recoveries
    BY <1>3, WorkerTypes DEF RunsStep
  <2>2. pc["recovery"] # "idle"
    BY <1>3
    DEF RecoveryStep, RunStep, RecoverText, RecoverDeleteRow, RecoverDeleteIndex, At,
        Structure, Persist, Index, Publish, Enhance, MediaRows, MediaIndex, Complete
  <2> QED
    BY <1>a, <2>1, <2>2 DEF Once
<1>4. CASE Die
  <2>1. /\ recoveries' = recoveries /\ pc'["recovery"] = "idle" /\ pc'["loop"] = "idle"
        /\ UNCHANGED stores
    BY <1>4 DEF Die, Runs
  <2> QED
    BY <1>a, <2>1 DEF Once, OnceStored, stores
<1>5. CASE Start
  <2>1. UNCHANGED stores /\ ((recoveries' = recoveries /\ pc' = pc) \/ recoveries' = recoveries + 1)
    BY <1>5 DEF Start, StartSettled, StartReady, StartGivesUp, StartRecovery, GiveBack
  <2> QED
    BY <1>0, <1>a, <2>1 DEF Once, OnceStored, stores
<1>6. ASSUME NEW c \in Clients, Receive(c) \/ Proceed(c) PROVE Once'
  <2>1. recoveries' = recoveries /\ pc' = pc
    BY <1>6, RequestTypes DEF worker
  <2>2. Asked
    BY DEF Once
  <2> QED
    BY <1>1, <1>6, <2>1, <2>2, RequestsStoreOnce
<1>7. CASE UNCHANGED vars
  BY <1>1, <1>7 DEF vars, stores, worker, OnceStored
<1> QED
  BY <1>2, <1>3, <1>4, <1>5, <1>6, <1>7 DEF Next

LEMMA OnceInit == Init => Once
  BY DEF Init, Once, Asked, OnceStored, Runs

(* Nothing is stored twice, whichever step failed or died, however often   *)
(* the job was delivered and however many requests retried at once, unless *)
(* the import was restarted from the PDF or somebody asked to delete it.   *)
THEOREM NothingIsDuplicated == Spec => []RetriesDoNotDuplicate
<1>1. Once => RetriesDoNotDuplicate
  BY DEF Once, OnceStored, RetriesDoNotDuplicate
<1> QED
  BY <1>1, TypedInit, TypedStep, OnceInit, OnceStep, PTL DEF Spec

-----------------------------------------------------------------------------
(* No import is forgotten. *)

Sending == \E c \in Clients : cpc[c] \in {"sendUpload", "sendCore", "sendMedia"}

(* A recovery that finds no file ends without a word. *)
RecoveryFollows == pc["recovery"] # "idle" /\ (pc["recovery"] = "recover" => pdf)

Minded == pc["loop"] \notin {"idle", "ack"} \/ RecoveryFollows \/ jobs # <<>> \/ Sending

(* A job in hand whose handler has returned will do nothing more: what is  *)
(* still in progress then has somebody else who minds it.                  *)
Followed ==
  /\ ~up => pc["loop"] = "idle" /\ pc["recovery"] = "idle"
  /\ pc["loop"] # "idle" => hand # None
  /\ InProgress => ~up \/ Minded \/ Withdrawn

(* Neither an enqueue nor a recovery fails without being noticed. *)
NothingSlips == Faults \intersect {"enqueue", "raise"} = {}

(* A record that says the import has ended. *)
LEMMA Ended ==
  ASSUME NEW media, NEW status \in {"completed", "failed"}, Update(Says(status, media))
  PROVE  ~InProgress'
<1>1. record' = None \/ record' = Says(status, media)
  BY DEF Update
<1>2. Says(status, media).status = status
  BY DEF Says
<1> QED
  BY <1>1, <1>2 DEF InProgress

(* The places a run goes to, and what it says when it stops. *)
LEMMA RunEnds ==
  ASSUME Typed, NEW r \in Runs, RunStep(r)
  PROVE  /\ pc[r] # "idle" /\ UNCHANGED <<queue, pdf>>
         /\ record' # None => record # None
         /\ \A q \in Runs \ {r} : pc'[q] = pc[q]
         /\ \/ pc'[r] \in {"persist", "index", "publish", "enhance", "mediaRows", "mediaIndex",
                           "complete"}
            \/ pc'[r] = (IF r = "loop" THEN "ack" ELSE "idle") /\ ~InProgress'
<1>0. pc \in [Runs -> RunPlaces]
  BY DEF Typed, TypeOK
<1>g. ASSUME NEW place, Goto(r, place)
      PROVE  pc'[r] = place /\ \A q \in Runs \ {r} : pc'[q] = pc[q]
  BY <1>0, <1>g DEF Goto
<1>1. pc[r] # "idle"
  BY DEF RunStep, Structure, Persist, Index, Publish, Enhance, MediaRows, MediaIndex, Complete, At
<1>2. UNCHANGED <<queue, pdf>>
  BY DEF RunStep, Structure, Persist, Index, Publish, Enhance, MediaRows, MediaIndex, Complete,
         stores
<1>3. CASE Abandon(r)
  <2>1. ~InProgress'
    BY <1>3, Ended DEF Abandon
  <2> QED
    BY <1>1, <1>2, <1>3, <1>g, <2>1 DEF Abandon, Return, Update
<1>4. CASE Complete(r)
  <2>1. ~InProgress'
    BY <1>4, Ended DEF Complete
  <2> QED
    BY <1>1, <1>2, <1>4, <1>g, <2>1 DEF Complete, Return, Update
<1>5. CASE ~Abandon(r) /\ ~Complete(r)
  <2>1. \E place \in {"persist", "index", "publish", "enhance", "mediaRows", "mediaIndex",
                      "complete"} : Goto(r, place)
    BY <1>5 DEF RunStep, Structure, Persist, Index, Publish, Enhance, MediaRows, MediaIndex
  <2>2. record' # None => record # None
    BY <1>5 DEF RunStep, Structure, Persist, Index, Publish, Enhance, MediaRows, MediaIndex,
                Update
  <2> QED
    BY <1>1, <1>2, <1>g, <2>1, <2>2
<1> QED
  BY <1>3, <1>4, <1>5

(* What is left when the loop goes on. *)
LEMMA LoopFollows ==
  ASSUME Typed, Followed, LoopStep
  PROVE  Followed'
<1>0. /\ pc \in [Runs -> RunPlaces] /\ "loop" \in Runs /\ "recovery" \in Runs
      /\ "core" # None /\ "media" # None
      /\ UNCHANGED <<clients, up>>
  BY NoneAssumption, WorkerTypes DEF Typed, TypeOK, Runs, RunsStep
<1>c. up' = up /\ Sending' = Sending /\ Withdrawn' = Withdrawn
  BY <1>0 DEF clients, Sending, Withdrawn
<1>g. ASSUME NEW place, Goto("loop", place)
      PROVE  pc'["loop"] = place /\ pc'["recovery"] = pc["recovery"]
  BY <1>0, <1>g DEF Goto
<1>1. CASE TakeCore \/ TakeMedia
  <2>1. /\ up /\ hand' \in {"core", "media"}
        /\ pc'["loop"] \in {"extract", "clearRows"} /\ pc'["recovery"] = pc["recovery"]
    BY <1>g, <1>1 DEF TakeCore, TakeMedia
  <2> QED
    BY <1>0, <1>c, <2>1 DEF Followed, Minded
<1>2. CASE Acknowledge
  <2>1. /\ pc["loop"] = "ack" /\ pc'["loop"] = "idle" /\ pc'["recovery"] = pc["recovery"]
        /\ UNCHANGED <<record, pdf, jobs>>
    BY <1>g, <1>2 DEF Acknowledge, stores
  <2>2. InProgress' = InProgress /\ (Minded' <=> Minded)
    BY <1>c, <2>1 DEF InProgress, Minded, RecoveryFollows
  <2> QED
    BY <1>c, <2>1, <2>2 DEF Followed
(* The other steps of the loop keep the job in hand. *)
<1>3. ASSUME pc["loop"] # "idle", UNCHANGED hand, pc'["recovery"] = pc["recovery"],
             pc'["loop"] \notin {"idle", "ack"} \/ ~InProgress'
      PROVE  Followed'
  BY <1>c, <1>3 DEF Followed, Minded
<1>b. ASSUME Abandon("loop")
      PROVE  pc'["loop"] = "ack" /\ pc'["recovery"] = pc["recovery"] /\ ~InProgress'
  <2>1. ~InProgress'
    BY <1>b, Ended DEF Abandon
  <2> QED
    BY <1>b, <1>g, <2>1 DEF Abandon, Return
<1>4. CASE Extract \/ ClearRows \/ ClearIndex
  <2>1. pc["loop"] \in {"extract", "clearRows", "clearIndex"} /\ hand' = hand
    BY <1>4 DEF Extract, ClearRows, ClearIndex, At, queue
  <2>2. CASE Abandon("loop")
    BY <1>3, <1>b, <2>1, <2>2
  <2>3. CASE ~Abandon("loop")
    BY <1>3, <1>4, <1>g, <2>1, <2>3 DEF Extract, ClearRows, ClearIndex
  <2> QED
    BY <2>2, <2>3
<1>5. CASE RunStep("loop")
  <2>1. /\ pc["loop"] # "idle" /\ hand' = hand /\ pc'["recovery"] = pc["recovery"]
        /\ pc'["loop"] \notin {"idle", "ack"} \/ ~InProgress'
    BY <1>0, <1>5, RunEnds DEF queue
  <2> QED
    BY <1>3, <2>1
<1> QED
  BY <1>1, <1>2, <1>4, <1>5 DEF LoopStep

(* A recovery that ends leaves nothing in progress, or has found no file. *)
LEMMA RecoveryKeepsFollowed ==
  ASSUME Typed, Followed, NothingSlips, RecoveryStep
  PROVE  Followed'
<1>0. /\ pc \in [Runs -> RunPlaces] /\ "loop" \in Runs /\ "recovery" \in Runs
      /\ record \in Record \union {None}
      /\ UNCHANGED <<clients, up>>
  BY WorkerTypes DEF Typed, TypeOK, Runs, RunsStep
<1>c. up' = up /\ Sending' = Sending /\ Withdrawn' = Withdrawn
  BY <1>0 DEF clients, Sending, Withdrawn
<1>g. ASSUME NEW place, Goto("recovery", place)
      PROVE  pc'["recovery"] = place /\ pc'["loop"] = pc["loop"]
  BY <1>0, <1>g DEF Goto
<1>1. /\ pc["recovery"] # "idle" /\ jobs' = jobs /\ hand' = hand /\ pc'["loop"] = pc["loop"]
      /\ \/ ~InProgress'
         \/ RecoveryFollows'
         \/ ~RecoveryFollows /\ record' = record
  <2>1. CASE RecoverText
    <3>1. pc["recovery"] = "recover" /\ UNCHANGED <<queue, pdf>>
      BY <2>1 DEF RecoverText, At, stores
    <3>2. pc'["loop"] = pc["loop"]
      BY <1>g, <2>1 DEF RecoverText
    <3>3. CASE pdf /\ Goto("recovery", "purgeRow")
      BY <1>g, <3>1, <3>2, <3>3 DEF RecoveryFollows, queue
    <3>4. CASE Update([record EXCEPT !.status = "failed"])
      <4>1. record' = None \/ record'.status = "failed"
        BY <1>0, <3>4 DEF Update, Record
      <4> QED
        BY <3>1, <3>2, <4>1 DEF InProgress, queue
    <3>5. CASE ~pdf /\ record' = record
      BY <3>1, <3>2, <3>5 DEF RecoveryFollows, queue
    <3> QED
      BY <2>1, <3>3, <3>4, <3>5 DEF RecoverText, NothingSlips
  <2>2. CASE RecoverDeleteRow \/ RecoverDeleteIndex
    <3>1. pc'["recovery"] \in {"purgeIndex", "structure"} /\ pc'["loop"] = pc["loop"]
      BY <1>g, <2>2 DEF RecoverDeleteRow, RecoverDeleteIndex
    <3>2. pc["recovery"] # "idle" /\ UNCHANGED queue
      BY <2>2 DEF RecoverDeleteRow, RecoverDeleteIndex, At
    <3> QED
      BY <3>1, <3>2 DEF RecoveryFollows, queue
  <2>3. CASE RunStep("recovery")
    BY <1>0, <2>3, RunEnds DEF RecoveryFollows, queue
  <2> QED
    BY <2>1, <2>2, <2>3 DEF RecoveryStep
<1>2. up
  BY <1>1 DEF Followed
<1>3. InProgress' => Minded' \/ Withdrawn'
  <2>1. CASE ~RecoveryFollows /\ record' = record
    BY <1>1, <1>2, <1>c, <2>1 DEF Followed, Minded, InProgress
  <2> QED
    BY <1>1, <2>1 DEF Minded
<1> QED
  BY <1>1, <1>2, <1>3, <1>c DEF Followed

(* A worker that dies is to start, and one that starts looks at the record. *)
LEMMA RestartFollows ==
  ASSUME Typed, Followed, Die \/ Start
  PROVE  Followed'
<1>0. /\ pc \in [Runs -> RunPlaces] /\ "loop" \in Runs /\ "recovery" \in Runs
      /\ record \in Record \union {None}
      /\ UNCHANGED <<stores, clients>>
  BY RestartTypes DEF Typed, TypeOK, Runs
<1>1. CASE Die
  <2>1. ~up' /\ pc'["loop"] = "idle" /\ pc'["recovery"] = "idle"
    BY <1>0, <1>1 DEF Die
  <2> QED
    BY <2>1 DEF Followed
<1>2. CASE Start
  <2>1. up' = TRUE /\ pc["loop"] = "idle" /\ pc["recovery"] = "idle"
    BY <1>2 DEF Start, StartSettled, StartReady, StartGivesUp, StartRecovery, GiveBack, Followed
  <2>2. pc'["loop"] = "idle" /\ (RecoveryFollows' \/ ~InProgress')
    <3>1. CASE StartSettled
      BY <2>1, <3>1 DEF StartSettled, InProgress
    <3>2. CASE StartReady
      <4>1. record'.status = "completed" /\ pc' = pc
        BY <1>0, <3>2 DEF StartReady, Record
      <4> QED
        BY <2>1, <4>1 DEF InProgress
    <3>3. CASE StartGivesUp
      <4>1. record'.status = "failed" /\ pc' = pc
        BY <1>0, <3>3 DEF StartGivesUp, Interrupted, Record
      <4> QED
        BY <2>1, <4>1 DEF InProgress
    <3>4. CASE StartRecovery
      BY <1>0, <2>1, <3>4 DEF StartRecovery, Goto, RecoveryFollows, stores
    <3> QED
      BY <1>2, <3>1, <3>2, <3>3, <3>4 DEF Start
  <2> QED
    BY <2>1, <2>2 DEF Followed, Minded
<1> QED
  BY <1>1, <1>2

(* A request that sets an import going sends its job. *)
LEMMA RequestFollows ==
  ASSUME Typed, Asked, Followed, NothingSlips, NEW c \in Clients, Receive(c) \/ Proceed(c)
  PROVE  Followed'
<1>0. /\ cpc \in [Clients -> ClientPlaces]
      /\ UNCHANGED <<worker, hand>> /\ \A d \in Clients \ {c} : cpc'[d] = cpc[d]
      /\ jobs \in Seq({"core", "media"})
      /\ Withdrawn => Withdrawn'
  BY RequestTypes, RequestsGrow DEF Typed, TypeOK, Next
<1>w. pc' = pc /\ up' = up /\ hand' = hand
  BY <1>0 DEF worker
<1>g. \A place : Continue(c, place) => cpc'[c] = place
  BY <1>0 DEF Continue
(* Either the job is on its way, or the record and whoever follows it stay.*)
<1>1. ASSUME \/ ~InProgress' \/ Sending' \/ jobs' # <<>> \/ Withdrawn'
             \/ record' = record /\ jobs' = jobs /\ pdf' = pdf /\ (Sending => Sending')
      PROVE  Followed'
  BY <1>0, <1>w, <1>1 DEF Followed, InProgress, Minded, RecoveryFollows
<1>s. ASSUME cpc[c] \notin {"sendUpload", "sendCore", "sendMedia"}
      PROVE  Sending => Sending'
  BY <1>0, <1>s DEF Sending
<1>2. CASE Upload(c) \/ RetryPurge(c)
  <2>1. cpc'[c] \in {"sendUpload", "sendCore"}
    BY <1>g, <1>2 DEF Upload, RetryPurge
  <2> QED
    BY <1>1, <2>1 DEF Sending
<1>3. CASE Retry(c) \/ Delete(c) \/ RemovePaper(c) \/ RetryCore(c)
  <2>1. cpc[c] \notin {"sendUpload", "sendCore", "sendMedia"}
    BY <1>3 DEF Retry, Delete, RemovePaper, Ask, RetryCore
  <2>2. record' = record /\ jobs' = jobs /\ pdf' = pdf
    BY <1>3 DEF Retry, Delete, RemovePaper, RetryCore, stores, queue
  <2> QED
    BY <1>1, <1>s, <2>1, <2>2
<1>4. CASE RetryMedia(c)
  <2>1. CASE cpc'[c] = "sendMedia"
    BY <1>1, <2>1 DEF Sending
  <2>2. CASE cpc'[c] # "sendMedia"
    <3>1. cpc[c] = "decide" /\ record' = record /\ jobs' = jobs /\ pdf' = pdf
      BY <1>4, <1>g, <2>2 DEF RetryMedia, stores, queue
    <3> QED
      BY <1>1, <1>s, <3>1
  <2> QED
    BY <2>1, <2>2
<1>5. CASE SendUpload(c) \/ SendMedia(c) \/ SendCore(c)
  <2>1. \E kind \in {"core", "media"} : jobs' = Append(jobs, kind)
    BY <1>5 DEF SendUpload, SendMedia, SendCore, SendRetry, NothingSlips
  <2>2. jobs' # <<>>
    BY <1>0, <2>1
  <2> QED
    BY <1>1, <2>2
<1>6. CASE DeleteIndex(c) \/ DeleteRow(c) \/ DeleteRecord(c) \/ RemoveIndex(c) \/ RemoveRow(c)
  <2>1. cpc[c] \in {"dropIndex", "dropRow", "dropRecord", "removeIndex", "removeRow"}
    BY <1>6 DEF DeleteIndex, DeleteRow, DeleteRecord, RemoveIndex, RemoveRow
  <2> QED
    BY <1>0, <1>1, <2>1 DEF Asked
<1> QED
  BY <1>2, <1>3, <1>4, <1>5, <1>6 DEF Receive, Proceed

LEMMA FollowedStep ==
  ASSUME NothingSlips
  PROVE  Typed /\ Once /\ Followed /\ [Next]_vars => Followed'
<1> SUFFICES ASSUME Typed, Once, Followed, [Next]_vars PROVE Followed'
  OBVIOUS
<1>1. CASE UNCHANGED vars
  <2>1. /\ pc' = pc /\ up' = up /\ hand' = hand /\ jobs' = jobs /\ record' = record
        /\ pdf' = pdf /\ cpc' = cpc /\ requests' = requests
    BY <1>1 DEF vars, stores, queue, clients, worker
  <2> QED
    BY <2>1 DEF Followed, InProgress, Minded, RecoveryFollows, Sending, Withdrawn
<1> QED
  BY <1>1, LoopFollows, RecoveryKeepsFollowed, RestartFollows, RequestFollows DEF Next, Once

LEMMA FollowedInit == Init => Followed
  BY DEF Init, Followed, InProgress, Runs

(* No import is forgotten: as long as its record says that work is under   *)
(* way, a job waits or is in hand, a recovery runs, a request is about to  *)
(* send the job or the worker is about to start, however many requests and *)
(* deaths there are; unless somebody asked to delete the paper, an enqueue *)
(* failed or a recovery raised an exception.                               *)
THEOREM NoImportIsForgotten == NothingSlips => (Spec => []Attended)
<1> SUFFICES ASSUME NothingSlips PROVE Spec => []Attended
  OBVIOUS
<1>1. Followed => Attended
  BY DEF Followed, Attended, Minded, RecoveryFollows, Sending
<1>2. Typed /\ Once /\ Followed /\ [Next]_vars => Followed'
  BY FollowedStep
<1> QED
  BY <1>1, <1>2, TypedInit, TypedStep, OnceInit, OnceStep, FollowedInit, PTL DEF Spec
-----------------------------------------------------------------------------
(* When nothing dies, the text index does not fail and requests come one   *)
(* after the other, each when no job is at work (Patient).  Then there is  *)
(* one thing at a time: the request, its job in the queue, or the run.     *)
Orderly ==
  /\ \E c \in Clients : \A d \in Clients : d = c
  /\ MaxDeaths = 0 /\ Requests \subseteq {"retry", "delete"}
  /\ Faults \intersect {"index", "purge"} = {}

Waiting(kind) == jobs # <<>> /\ Head(jobs) = kind

OneAtATime ==
  /\ up /\ pc["recovery"] = "idle"
  /\ hand = None <=> pc["loop"] = "idle"
  /\ Len(jobs) <= 1 /\ (hand # None => jobs = <<>>)
  /\ \A c \in Clients : cpc[c] # "idle" => jobs = <<>> /\ hand = None
  /\ ~uploaded \/ record = None =>
       jobs = <<>> /\ hand = None /\ \A c \in Clients : cpc[c] = "idle"
  /\ ~uploaded => ~row /\ record = None

(* Where an import without a row is built, and where one with a row is     *)
(* completed or repeated.                                                  *)
Building(c) ==
  \/ Waiting("core") \/ pc["loop"] \in {"extract", "structure", "persist"}
  \/ cpc[c] \in {"sendUpload", "purge", "sendCore"}

Repeating(c) ==
  Waiting("media") \/ pc["loop"] \in {"clearRows", "clearIndex"} \/ cpc[c] = "sendMedia"

Stored(c) ==
  /\ ~row => mediaRows = 0 /\ text = 0 /\ mediaText = 0
  /\ row => text >= 1 \/ pc["loop"] = "index" \/ cpc[c] = "dropRow"
  /\ Building(c) => ~row
  /\ Repeating(c) => row /\ record.media = "processing"
  /\ pc["loop"] \in {"index", "publish"} \union Enhancing => row
  /\ pc["loop"] \in {"mediaIndex", "complete"} => mediaRows >= 1
  /\ pc["loop"] = "complete" => mediaText >= 1

(* What a request has read still holds. *)
SeenHolds(c) ==
  /\ cpc[c] = "sendMedia" => seen[c].media # "completed"
  /\ cpc[c] \in {"purge", "sendCore"} => seen[c].status = "failed"
  /\ cpc[c] \in {"dropIndex", "dropRow"} => seenRow[c] = row
  /\ cpc[c] \in {"dropIndex", "dropRow", "dropRecord"} => record.status = "failed"
  /\ cpc[c] = "dropRow" => text = 0 /\ mediaText = 0
  /\ cpc[c] = "dropRecord" => ~row
  /\ cpc[c] \notin {"removeIndex", "removeRow"}

TruthInv ==
  /\ Typed /\ OneAtATime /\ RecordTellsTruth
  /\ \A c \in Clients : Stored(c) /\ SeenHolds(c)

(* What the code's updates say in the fields of the record. *)
LEMMA RecordFields ==
  /\ record \in Record => \A m \in Media : /\ Stage(m).status = record.status
                                           /\ Stage(m).media = m
                                           /\ [Stage(m) EXCEPT !.status = "processing"].status = "processing"
                                           /\ [Stage(m) EXCEPT !.status = "processing"].media = m
  /\ \A s, m : Says(s, m).status = s /\ Says(s, m).media = m
<1>1. ASSUME record \in Record, NEW m \in Media
      PROVE  /\ Stage(m).status = record.status /\ Stage(m).media = m
             /\ [Stage(m) EXCEPT !.status = "processing"].status = "processing"
             /\ [Stage(m) EXCEPT !.status = "processing"].media = m
  <2>1. Stage(m) \in Record
    BY <1>1, RecordsAreTyped
  <2>2. Stage(m).status = record.status /\ Stage(m).media = m
    BY <1>1 DEF Stage, Record
  <2> QED
    BY <2>1, <2>2 DEF Record
<1> QED
  BY <1>1 DEF Says, Record

LEMMA StatusSet ==
  ASSUME NEW r \in Record, NEW s \in Status
  PROVE  /\ [r EXCEPT !.status = s] \in Record
         /\ [r EXCEPT !.status = s].status = s /\ [r EXCEPT !.status = s].media = r.media
  BY DEF Record

LEMMA SaysBoth ==
  ASSUME NEW s \in Status, NEW m \in Media
  PROVE  Says(s, m) \in Record /\ Says(s, m).status = s /\ Says(s, m).media = m
  BY PipelineAssumption DEF Record, Says

LEMMA LastJob ==
  ASSUME NEW S, NEW s \in Seq(S), s # <<>>, Len(s) <= 1
  PROVE  Tail(s) = <<>>
<1>1. Len(s) \in Nat /\ Len(s) # 0
  OBVIOUS
<1>2. Len(s) = 1
  BY <1>1
<1>3. Tail(s) \in Seq(S) /\ Len(Tail(s)) = 0
  BY <1>2
<1> QED
  BY <1>3

(* The worker's loop, step by step. *)
LEMMA LoopTells ==
  ASSUME Orderly, Typed, OneAtATime, RecordTellsTruth, NEW c \in Clients,
         \A d \in Clients : d = c, Stored(c), LoopStep
  PROVE  OneAtATime' /\ RecordTellsTruth' /\ Stored(c)' /\ SeenHolds(c)' /\ record' \in Record
<1> USE NoneAssumption
<1> DEFINE L == pc["loop"]
           Core == {"extract", "structure", "persist"}
           Later == {"index", "publish"} \union Enhancing
<1>0. /\ cpc[c] = "idle" /\ record \in Record /\ record # None /\ uploaded
      /\ UNCHANGED <<clients, up, deaths>>
      /\ pc \in [Runs -> RunPlaces] /\ pc["recovery"] = "idle" /\ up
      /\ text \in Nat /\ mediaRows \in Nat /\ mediaText \in Nat
  <2>1. UNCHANGED <<clients, up, deaths>>
    BY WorkerTypes DEF RunsStep
  <2>2. hand # None \/ jobs # <<>>
    BY DEF OneAtATime, LoopStep, TakeCore, TakeMedia, Acknowledge, Extract, ClearRows, ClearIndex,
           RunStep, Structure, Persist, Index, Publish, Enhance, MediaRows, MediaIndex, Complete, At
  <2> QED
    BY <2>1, <2>2 DEF OneAtATime, Typed, TypeOK
(* What is left to say of a step: where the run and the job are, and what  *)
(* the record says about the stores.                                       *)
<1> DEFINE Mid == /\ pc' = [pc EXCEPT !["loop"] = pc'["loop"]]
                  /\ hand' = None <=> pc'["loop"] = "idle"
                  /\ Len(jobs') <= 1 /\ (hand' # None => jobs' = <<>>)
                  /\ record' \in Record
<1>1. ASSUME Mid, RecordTellsTruth', Stored(c)'
      PROVE  OneAtATime' /\ RecordTellsTruth' /\ Stored(c)' /\ SeenHolds(c)' /\ record' \in Record
  <2>1. pc'["recovery"] = "idle"
    BY <1>0, <1>1 DEF Runs
  <2>2. cpc' = cpc /\ up' = up /\ uploaded' = uploaded
    BY <1>0 DEF clients
  <2>3. OneAtATime'
    BY <1>0, <1>1, <2>1, <2>2 DEF OneAtATime
  <2> QED
    BY <1>0, <1>1, <2>2, <2>3 DEF SeenHolds
<1>2. ASSUME NEW place, Goto("loop", place) PROVE pc' = [pc EXCEPT !["loop"] = pc'["loop"]] /\ pc'["loop"] = place
  BY <1>0, <1>2 DEF Goto, Runs
<1>3. ASSUME NEW new, Update(new) PROVE record' = new
  BY <1>0, <1>3 DEF Update
(* A step of a run that keeps the job in hand. *)
<1>s. /\ {"processing", "ready", "completed", "failed", "pending"} \subseteq Status
      /\ {"processing", "completed", "failed", "absent", "not_started"} \subseteq Media
      /\ "processing" \in Status /\ "ready" \in Status /\ "processing" \in Media
  BY DEF Status, Media
<1>4. ASSUME UNCHANGED queue, L # "idle", Goto("loop", "ack") \/ Goto("loop", L'), L' # "idle",
             record' \in Record
      PROVE  Mid /\ jobs = <<>> /\ jobs' = <<>>
  BY <1>0, <1>2, <1>4 DEF queue, OneAtATime
<1>5. ASSUME Abandon("loop"), UNCHANGED <<queue, row, mediaRows, text, mediaText>>, L # "idle",
             L \in Enhancing => row /\ text >= 1, L # "index"
      PROVE  Mid /\ RecordTellsTruth' /\ Stored(c)'
  <2>1. Goto("loop", "ack") /\ L' = "ack"
    BY <1>2, <1>5 DEF Abandon, Return
  <2>2. record' = IF L \in Enhancing THEN Says("completed", "failed") ELSE Says("failed", "not_started")
    BY <1>3, <1>5 DEF Abandon
  <2>3. record' \in Record
    BY <2>2, RecordsAreTyped DEF Status, Media
  <2>4. Mid /\ jobs' = <<>>
    BY <1>4, <1>5, <2>1, <2>3
  <2>5. RecordTellsTruth'
    BY <1>5, <2>2, RecordFields DEF RecordTellsTruth, Readable
  <2>6. Stored(c)'
    BY <1>0, <1>5, <2>1, <2>4 DEF Stored, Building, Repeating, Waiting, clients, Enhancing
  <2> QED
    BY <2>4, <2>5, <2>6
<1> DEFINE Told == Mid /\ RecordTellsTruth' /\ Stored(c)'
<1>6. ASSUME TakeCore \/ TakeMedia PROVE Told
  <2>1. /\ jobs # <<>> /\ hand = None /\ jobs \in Seq({"core", "media"}) /\ Len(jobs) <= 1
        /\ jobs' = Tail(jobs) /\ hand' \in {"core", "media"} /\ UNCHANGED stores
    BY <1>0, <1>6 DEF TakeCore, TakeMedia, At, OneAtATime, Typed, TypeOK
  <2>a. jobs # <<>> /\ jobs \in Seq({"core", "media"}) /\ Len(jobs) <= 1
    BY <2>1
  <2>b. Tail(jobs) = <<>>
    BY <2>a, LastJob
  <2>2. jobs' = <<>> /\ Len(jobs') = 0
    BY <2>1, <2>b
  <2>3. "core" # None /\ "media" # None
    OBVIOUS
  <2>4. CASE TakeCore
    <3>1. L' = "extract" /\ record' = [record EXCEPT !.status = "processing"] /\ Waiting("core")
      BY <1>2, <1>3, <2>4 DEF TakeCore, Waiting
    <3>2. /\ record' \in Record /\ record'.status = "processing" /\ record'.media = record.media
      BY <1>0, <1>s, <3>1, StatusSet
    <3>3. Mid
      BY <1>2, <2>1, <2>2, <2>3, <2>4, <3>1, <3>2 DEF TakeCore
    <3>4. RecordTellsTruth'
      BY <3>2 DEF RecordTellsTruth, Readable
    <3>5. Stored(c)'
      BY <1>0, <2>1, <2>2, <3>1 DEF Stored, Building, Repeating, Waiting, clients, stores, Enhancing
    <3> QED
      BY <3>3, <3>4, <3>5
  <2>5. CASE TakeMedia
    <3>1. L' = "clearRows" /\ record' = record /\ Waiting("media")
      BY <1>2, <2>5 DEF TakeMedia, Waiting
    <3>2. Mid
      BY <1>0, <1>2, <2>1, <2>2, <2>3, <2>5, <3>1 DEF TakeMedia
    <3>3. RecordTellsTruth'
      BY <2>1, <3>1 DEF RecordTellsTruth, Readable, stores
    <3>4. /\ row /\ record.media = "processing" /\ text >= 1
          /\ UNCHANGED <<row, text, record>>
      BY <1>0, <2>1, <2>5, <3>1 DEF Stored, Repeating, stores, TakeMedia, At
    <3>5. Stored(c)'
      BY <1>0, <2>2, <3>1, <3>4 DEF Stored, Building, Repeating, Waiting, clients, Enhancing
    <3> QED
      BY <3>2, <3>3, <3>5
  <2> QED
    BY <1>6, <2>4, <2>5
<1>7. ASSUME Acknowledge PROVE Told
  <2>1. /\ L = "ack" /\ L' = "idle" /\ hand' = None /\ jobs' = jobs /\ UNCHANGED <<stores, record>>
        /\ Goto("loop", "idle")
    BY <1>2, <1>7 DEF Acknowledge
  <2>2. jobs = <<>>
    BY <2>1 DEF OneAtATime
  <2>3. Mid
    BY <1>0, <1>2, <2>1, <2>2
  <2>4. RecordTellsTruth'
    BY <2>1 DEF RecordTellsTruth, Readable, stores
  <2>5. Stored(c)'
    BY <1>0, <2>1, <2>2 DEF Stored, Building, Repeating, Waiting, clients, stores, Enhancing
  <2> QED
    BY <2>3, <2>4, <2>5
<1>8. ASSUME Extract PROVE Told
  <2>1. L = "extract" /\ UNCHANGED <<row, mediaRows, text, mediaText, queue>>
    BY <1>8 DEF Extract, At
  <2>2. CASE Abandon("loop")
    BY <1>5, <2>1, <2>2 DEF Enhancing
  <2>3. CASE Goto("loop", "structure") /\ Update([Stage("absent") EXCEPT !.status = "processing"])
    <3>1. L' = "structure" /\ record' = [Stage("absent") EXCEPT !.status = "processing"]
      BY <1>2, <1>3, <2>3
    <3>2. record' \in Record /\ record'.status = "processing"
      BY <1>0, <3>1, RecordsAreTyped, RecordFields DEF Media
    <3>3. Mid /\ jobs' = <<>>
      BY <1>4, <2>1, <2>3, <3>1, <3>2
    <3>4. RecordTellsTruth'
      BY <3>2 DEF RecordTellsTruth, Readable
    <3>5. Stored(c)'
      BY <1>0, <2>1, <3>1, <3>3 DEF Stored, Building, Repeating, Waiting, clients, Enhancing
    <3> QED
      BY <3>3, <3>4, <3>5
  <2> QED
    BY <1>8, <2>2, <2>3 DEF Extract
<1>9. ASSUME Structure("loop") \/ Persist("loop") PROVE Told
  <2>1. /\ L \in {"structure", "persist"} /\ UNCHANGED <<mediaRows, text, mediaText, queue>> /\ ~row
    BY <1>9 DEF Structure, Persist, At, stores, Stored, Building
  <2>2. CASE Abandon("loop")
    <3>1. UNCHANGED row
      BY <1>9, <2>2, <1>2, <2>1 DEF Structure, Persist, stores, Abandon, Return
    <3> QED
      BY <1>5, <2>1, <2>2, <3>1 DEF Enhancing
  <2>3. CASE ~Abandon("loop")
    <3>1. /\ Update(Stage("absent"))
          /\ \/ Goto("loop", "persist") /\ row' = row
             \/ Goto("loop", "index") /\ row' = TRUE
      BY <1>9, <2>3 DEF Structure, Persist, stores
    <3>2. record' = Stage("absent") /\ L' \in {"persist", "index"} /\ Goto("loop", L')
      BY <1>2, <1>3, <3>1
    <3>3. record' \in Record /\ record'.status = record.status
      BY <1>0, <3>2, RecordsAreTyped, RecordFields DEF Media
    <3>4. Mid /\ jobs' = <<>>
      BY <1>4, <2>1, <3>2, <3>3
    <3>5. RecordTellsTruth'
      BY <1>0, <2>1, <3>3 DEF RecordTellsTruth, Readable
    <3>6. Stored(c)'
      BY <1>0, <1>2, <2>1, <3>1, <3>4 DEF Stored, Building, Repeating, Waiting, clients, Enhancing
    <3> QED
      BY <3>4, <3>5, <3>6
  <2> QED
    BY <2>2, <2>3
<1>10. ASSUME Index("loop") PROVE Told
  <2>1. /\ L = "index" /\ UNCHANGED <<row, mediaRows, mediaText, queue>> /\ row
        /\ text' = text + 1 /\ Goto("loop", "publish") /\ Update(Stage("absent"))
    BY <1>10 DEF Index, At, Stored, Orderly
  <2>2. record' = Stage("absent") /\ L' = "publish"
    BY <1>2, <1>3, <2>1
  <2>3. record' \in Record /\ record'.media = "absent"
    BY <1>0, <2>2, RecordsAreTyped, RecordFields DEF Media
  <2>4. Mid /\ jobs' = <<>>
    BY <1>4, <2>1, <2>2, <2>3
  <2>5. RecordTellsTruth'
    BY <1>0, <2>1, <2>3 DEF RecordTellsTruth, Readable
  <2>6. Stored(c)'
    BY <1>0, <2>1, <2>2, <2>4 DEF Stored, Building, Repeating, Waiting, clients, Enhancing
  <2> QED
    BY <2>4, <2>5, <2>6
(* From here on the text is in the index. *)
<1>11. L \in {"publish"} \union Enhancing => row /\ text >= 1
  BY <1>0 DEF Stored, Enhancing
<1>12. ASSUME Publish("loop") PROVE Told
  <2>1. /\ L = "publish" /\ UNCHANGED <<stores, queue>>
        /\ Goto("loop", "enhance") /\ Update(Says("ready", "processing"))
    BY <1>12 DEF Publish, At
  <2>2. record' = Says("ready", "processing") /\ L' = "enhance"
    BY <1>2, <1>3, <2>1
  <2>3. record' \in Record /\ record'.media = "processing"
    BY <1>s, <2>2, SaysBoth
  <2>4. Mid /\ jobs' = <<>>
    BY <1>4, <2>1, <2>2, <2>3
  <2>5. RecordTellsTruth'
    BY <1>11, <2>1, <2>3 DEF RecordTellsTruth, Readable, stores
  <2>6. Stored(c)'
    BY <1>0, <1>11, <2>1, <2>2, <2>4 DEF Stored, Building, Repeating, Waiting, clients, Enhancing, stores
  <2> QED
    BY <2>4, <2>5, <2>6
<1>13. ASSUME Enhance("loop") \/ MediaRows("loop") \/ MediaIndex("loop") PROVE Told
  <2>1. L \in {"enhance", "mediaRows", "mediaIndex"} /\ UNCHANGED <<row, text, queue>>
    BY <1>13 DEF Enhance, MediaRows, MediaIndex, At, stores
  <2>2. row /\ text >= 1
    BY <1>11, <2>1 DEF Enhancing
  <2>3. CASE Abandon("loop")
    <3>1. UNCHANGED <<mediaRows, mediaText>>
      BY <1>2, <1>13, <2>1, <2>3 DEF Enhance, MediaRows, MediaIndex, stores, Abandon, Return
    <3> QED
      BY <1>5, <2>1, <2>2, <2>3, <3>1 DEF Enhancing
  <2>4. CASE ~Abandon("loop")
    <3>1. /\ Update(Stage("processing"))
          /\ \/ /\ Goto("loop", "mediaRows") /\ UNCHANGED <<mediaRows, mediaText>>
             \/ /\ Goto("loop", "mediaIndex") /\ mediaRows' = mediaRows + 1 /\ mediaText' = mediaText
             \/ /\ Goto("loop", "complete") /\ mediaText' = mediaText + 1 /\ mediaRows' = mediaRows
                /\ L = "mediaIndex"
      BY <1>13, <2>4 DEF Enhance, MediaRows, MediaIndex, At, stores
    <3>2. record' = Stage("processing") /\ L' \in {"mediaRows", "mediaIndex", "complete"} /\ Goto("loop", L')
      BY <1>2, <1>3, <3>1
    <3>3. record' \in Record /\ record'.media = "processing"
      BY <1>0, <3>2, RecordsAreTyped, RecordFields DEF Media
    <3>4. Mid /\ jobs' = <<>>
      BY <1>4, <2>1, <3>2, <3>3
    <3>5. RecordTellsTruth'
      BY <2>1, <2>2, <3>3 DEF RecordTellsTruth, Readable
    <3>6. Stored(c)'
      BY <1>0, <1>2, <2>1, <2>2, <3>1, <3>4 DEF Stored, Building, Repeating, Waiting, clients, Enhancing
    <3> QED
      BY <3>4, <3>5, <3>6
  <2> QED
    BY <2>3, <2>4
<1>14. ASSUME Complete("loop") PROVE Told
  <2>1. /\ L = "complete" /\ UNCHANGED <<stores, queue>>
        /\ Goto("loop", "ack") /\ Update(Says("completed", "completed"))
    BY <1>14 DEF Complete, At, Return
  <2>2. record' = Says("completed", "completed") /\ L' = "ack"
    BY <1>2, <1>3, <2>1
  <2>3. record' \in Record
    BY <2>2, RecordsAreTyped DEF Media, Status
  <2>4. Mid /\ jobs' = <<>>
    BY <1>4, <2>1, <2>2, <2>3
  <2>5. row /\ text >= 1 /\ mediaRows >= 1 /\ mediaText >= 1
    BY <1>11, <2>1 DEF Stored, Enhancing
  <2>6. RecordTellsTruth'
    BY <2>1, <2>5 DEF RecordTellsTruth, stores
  <2>7. Stored(c)'
    BY <1>0, <2>1, <2>2, <2>4, <2>5 DEF Stored, Building, Repeating, Waiting, clients, Enhancing, stores
  <2> QED
    BY <2>4, <2>6, <2>7
<1>15. ASSUME ClearRows \/ ClearIndex PROVE Told
  <2>1. /\ L \in {"clearRows", "clearIndex"} /\ UNCHANGED <<row, text, queue>>
        /\ row /\ record.media = "processing"
    BY <1>15 DEF ClearRows, ClearIndex, At, Stored, Repeating
  <2>2. text >= 1
    BY <1>0, <2>1 DEF Stored
  <2>3. CASE Abandon("loop")
    <3>1. UNCHANGED <<mediaRows, mediaText>>
      BY <1>2, <1>15, <2>1, <2>3 DEF ClearRows, ClearIndex, Abandon, Return
    <3> QED
      BY <1>5, <2>1, <2>2, <2>3, <3>1 DEF Enhancing
  <2>4. CASE ~Abandon("loop")
    <3>1. \/ Goto("loop", "clearIndex") /\ UNCHANGED <<record, mediaText>>
          \/ /\ Goto("loop", "enhance") /\ mediaRows' = mediaRows
             /\ Update([record EXCEPT !.status = "ready", !.media = "processing"])
      BY <1>15, <2>4 DEF ClearRows, ClearIndex
    <3>2. L' \in {"clearIndex", "enhance"} /\ Goto("loop", L')
      BY <1>2, <3>1
    <3>3. record' \in Record /\ record'.media = "processing"
      <4>1. record' = record \/ record' = [record EXCEPT !.status = "ready", !.media = "processing"]
        BY <1>3, <3>1
      <4>2. /\ [record EXCEPT !.status = "ready", !.media = "processing"] \in Record
            /\ [record EXCEPT !.status = "ready", !.media = "processing"].media = "processing"
        <5>1. record \in Record /\ "ready" \in Status /\ "processing" \in Media
          BY <1>0, <1>s
        <5> QED
          BY <5>1 DEF Record
      <4> QED
        BY <1>0, <2>1, <4>1, <4>2
    <3>4. Mid /\ jobs' = <<>>
      BY <1>4, <2>1, <3>2, <3>3
    <3>5. RecordTellsTruth'
      BY <2>1, <2>2, <3>3 DEF RecordTellsTruth, Readable
    <3>6. Stored(c)'
      BY <1>0, <2>1, <2>2, <3>2, <3>3, <3>4 DEF Stored, Building, Repeating, Waiting, clients, Enhancing
    <3> QED
      BY <3>4, <3>5, <3>6
  <2> QED
    BY <2>3, <2>4
<1> HIDE DEF Told
<1>16. Told
  BY <1>6, <1>7, <1>8, <1>9, <1>10, <1>12, <1>13, <1>14, <1>15 DEF LoopStep, RunStep
<1> QED
  BY <1>1, <1>16 DEF Told

(* What a request reads and does while no job is at work. *)
LEMMA RequestTells ==
  ASSUME Orderly, Typed, Typed', OneAtATime, RecordTellsTruth, NEW c \in Clients,
         \A d \in Clients : d = c, Stored(c), SeenHolds(c), Patient', Receive(c) \/ Proceed(c)
  PROVE  OneAtATime' /\ RecordTellsTruth' /\ Stored(c)' /\ SeenHolds(c)'
<1> USE NoneAssumption
<1> DEFINE Told == OneAtATime' /\ RecordTellsTruth' /\ Stored(c)' /\ SeenHolds(c)'
           P == cpc[c]
<1>0. /\ cpc \in [Clients -> ClientPlaces] /\ pc["recovery"] = "idle" /\ up
      /\ text \in Nat /\ mediaRows \in Nat /\ mediaText \in Nat
      /\ seen \in [Clients -> Record \union {None}] /\ seenRow \in [Clients -> BOOLEAN]
      /\ record \in Record \union {None} /\ row \in BOOLEAN
      /\ UNCHANGED <<worker, hand>>
      /\ P \in {"decide", "purge", "sendMedia", "sendCore"} => seen[c] \in Record
      /\ P # "idle" => /\ record \in Record /\ uploaded /\ jobs = <<>> /\ hand = None
                       /\ pc["loop"] = "idle"
  <2>1. UNCHANGED <<worker, hand>>
    BY DEF Receive, Upload, Retry, Delete, RemovePaper, Proceed, SendUpload, RetryMedia,
           RetryCore, RetryPurge, SendMedia, SendCore, SendRetry, DeleteIndex, DeleteRow,
           DeleteRecord, RemoveIndex, RemoveRow, queue
  <2> QED
    BY <2>1 DEF Typed, TypeOK, OneAtATime
<1>1. ASSUME NEW place, Continue(c, place) PROVE cpc'[c] = place
  BY <1>0, <1>1 DEF Continue
<1>s. /\ "processing" \in Status /\ "ready" \in Status /\ "processing" \in Media
      /\ "pending" \in Status /\ "failed" \in Status /\ "absent" \in Media /\ "not_started" \in Media
  BY DEF Status, Media
(* Nothing is at work after a step of a request, but for the job it sends. *)
<1>2. ASSUME jobs = <<>>, hand = None, pc["loop"] = "idle", uploaded', jobs' = <<>>,
             record' = None => cpc'[c] = "idle"
      PROVE  OneAtATime'
  BY <1>0, <1>2 DEF OneAtATime, worker
<1>3. ASSUME jobs = <<>>, hand = None, pc["loop"] = "idle", uploaded', Len(jobs') <= 1,
             cpc'[c] = "idle", record' # None
      PROVE  OneAtATime'
  BY <1>0, <1>3 DEF OneAtATime, worker
<1>4. CASE Upload(c)
  <2>1. /\ jobs = <<>> /\ hand = None /\ record = None /\ ~row /\ UNCHANGED <<row, mediaRows, text, mediaText, jobs>>
        /\ cpc'[c] = "sendUpload" /\ uploaded' /\ record' = Says("pending", "absent")
        /\ pc["loop"] = "idle" /\ pc' = pc
    BY <1>0, <1>1, <1>4 DEF Upload, OneAtATime, queue, worker
  <2>2. record' \in Record /\ record'.status = "pending"
    BY <1>s, <2>1, SaysBoth
  <2>3. OneAtATime'
    BY <1>2, <2>1, <2>2
  <2>4. RecordTellsTruth'
    BY <2>2 DEF RecordTellsTruth, Readable
  <2>5. Stored(c)'
    BY <2>1 DEF Stored, Building, Repeating, Waiting, Enhancing
  <2>6. SeenHolds(c)'
    BY <2>1 DEF SeenHolds
  <2> QED
    BY <2>3, <2>4, <2>5, <2>6
(* The queue after a job is sent. *)
<1>5. ASSUME NEW kind \in {"core", "media"}, jobs = <<>>, jobs' = Append(jobs, kind)
      PROVE  jobs' # <<>> /\ Len(jobs') <= 1 /\ Head(jobs') = kind
  BY <1>5
<1>6. CASE SendUpload(c)
  <2>1. /\ jobs = <<>> /\ hand = None /\ record \in Record /\ ~row /\ UNCHANGED <<row, mediaRows, text, mediaText>>
        /\ cpc'[c] = "idle" /\ uploaded' /\ pc["loop"] = "idle" /\ pc' = pc
    BY <1>0, <1>1, <1>6 DEF SendUpload, stores, worker, Stored, Building
  <2>2. /\ record' = record \/ record' = [record EXCEPT !.status = "failed"]
        /\ jobs' = jobs \/ jobs' = Append(jobs, "core")
    BY <1>6, <2>1 DEF SendUpload, Update
  <2>3. record' \in Record /\ (record'.status = record.status \/ record'.status = "failed")
    BY <1>s, <2>1, <2>2, StatusSet
  <2>4. Len(jobs') <= 1 /\ (jobs' # <<>> => Head(jobs') = "core")
    BY <1>5, <2>1, <2>2
  <2>5. OneAtATime'
    BY <1>3, <2>1, <2>3, <2>4
  <2>6. RecordTellsTruth'
    BY <2>1, <2>3 DEF RecordTellsTruth, Readable
  <2>7. Stored(c)'
    BY <2>1, <2>4 DEF Stored, Building, Repeating, Waiting, Enhancing
  <2>8. SeenHolds(c)'
    BY <2>1 DEF SeenHolds
  <2> QED
    BY <2>5, <2>6, <2>7, <2>8
(* A request that is received finds the worker idle. *)
<1>7. ASSUME Retry(c) \/ Delete(c)
      PROVE  /\ UNCHANGED <<stores, record, jobs>> /\ uploaded' /\ jobs = <<>> /\ hand = None
             /\ pc["loop"] = "idle" /\ pc' = pc /\ record \in Record /\ P = "idle"
  <2>1. /\ UNCHANGED <<stores, record, jobs>> /\ uploaded' /\ pc' = pc /\ record # None
        /\ P = "idle"
    BY <1>0, <1>7 DEF Retry, Delete, Ask, queue, worker
  <2>2. cpc'[c] \in {"decide", "dropIndex"}
    BY <1>1, <1>7 DEF Retry, Delete
  <2>3. jobs' = <<>> /\ hand' = None
    BY <2>2 DEF Patient
  <2> QED
    BY <1>0, <2>1, <2>3 DEF OneAtATime
<1>8. ASSUME UNCHANGED <<stores, record>>
      PROVE  RecordTellsTruth'
  BY <1>8 DEF RecordTellsTruth, Readable, stores
<1>9. CASE Retry(c) \/ Delete(c)
  <2>1. /\ cpc'[c] \in {"decide", "dropIndex"}
        /\ cpc'[c] = "dropIndex" => record.status = "failed" /\ seenRow'[c] = row
    BY <1>0, <1>1, <1>9 DEF Retry, Delete
  <2>2. OneAtATime'
    BY <1>2, <1>7, <1>9
  <2>3. RecordTellsTruth'
    BY <1>7, <1>8, <1>9
  <2>4. UNCHANGED <<row, mediaRows, text, mediaText, pc, jobs, record>> /\ jobs = <<>> /\ P = "idle"
        /\ pc["loop"] = "idle"
    BY <1>7, <1>9 DEF stores
  <2>5. Stored(c)'
    BY <2>1, <2>4 DEF Stored, Building, Repeating, Waiting, Enhancing
  <2>6. SeenHolds(c)'
    BY <2>1, <2>4 DEF SeenHolds
  <2> QED
    BY <2>2, <2>3, <2>5, <2>6
<1>10. ~RemovePaper(c)
  BY DEF RemovePaper, Ask, Orderly
(* A step of a request under way; the worker stays idle. *)
<1>11. ASSUME P # "idle", cpc'[c] \notin {"removeIndex", "removeRow"}, UNCHANGED <<uploaded, jobs>>,
              record' = None => cpc'[c] = "idle"
       PROVE  OneAtATime' /\ pc'["loop"] = "idle" /\ jobs' = <<>>
  <2>1. pc' = pc /\ jobs = <<>> /\ hand = None /\ pc["loop"] = "idle" /\ uploaded
    BY <1>0, <1>11 DEF worker
  <2> QED
    BY <1>2, <1>11, <2>1
<1>12. ASSUME RetryMedia(c) \/ RetryCore(c) PROVE Told
  <2>1. /\ P = "decide" /\ UNCHANGED <<stores, uploaded, jobs, seen, seenRow>> /\ seen[c] \in Record
        /\ record \in Record
    BY <1>0, <1>12 DEF RetryMedia, RetryCore, queue
  <2>2. /\ record' \in Record
        /\ \/ /\ record' = record
              /\ cpc'[c] \in {"idle", "purge"}
              /\ cpc'[c] = "purge" => ~row /\ seen[c].status = "failed"
           \/ /\ record'.media = "processing" /\ row /\ cpc'[c] = "sendMedia"
              /\ seen[c].media # "completed"
    <3>1. CASE RetryCore(c)
      BY <1>1, <2>1, <3>1 DEF RetryCore
    <3>2. CASE RetryMedia(c)
      <4>1. CASE record' = record /\ Continue(c, "idle")
        BY <1>1, <2>1, <4>1
      <4>2. CASE ~(record' = record /\ Continue(c, "idle"))
        <5>1. /\ Update([seen[c] EXCEPT !.status = "ready", !.media = "processing"])
              /\ seen[c].media # "completed" /\ row /\ cpc'[c] = "sendMedia"
          BY <1>1, <3>2, <4>2 DEF RetryMedia
        <5>2. record' = [seen[c] EXCEPT !.status = "ready", !.media = "processing"]
          BY <2>1, <5>1 DEF Update
        <5>3. record' \in Record /\ record'.media = "processing"
          BY <1>s, <2>1, <5>2 DEF Record
        <5> QED
          BY <5>1, <5>3
      <4> QED
        BY <4>1, <4>2
    <3> QED
      BY <1>12, <3>1, <3>2
  <2>3. UNCHANGED <<row, text, mediaRows, mediaText, jobs>> /\ (row => text >= 1)
    BY <1>0, <2>1 DEF stores, Stored
  <2>4. OneAtATime' /\ pc'["loop"] = "idle" /\ jobs' = <<>>
    BY <1>11, <2>1, <2>2
  <2>5. RecordTellsTruth'
    BY <2>2, <2>3 DEF RecordTellsTruth, Readable
  <2>6. Stored(c)'
    BY <1>0, <2>1, <2>2, <2>3, <2>4 DEF Stored, Building, Repeating, Waiting, Enhancing
  <2>7. SeenHolds(c)'
    BY <2>1, <2>2 DEF SeenHolds
  <2> QED
    BY <2>4, <2>5, <2>6, <2>7
<1>13. ASSUME RetryPurge(c) PROVE Told
  <2>1. /\ P = "purge" /\ UNCHANGED <<row, mediaRows, uploaded, jobs, seen, seenRow>>
        /\ seen[c] \in Record /\ record \in Record /\ ~row /\ seen[c].status = "failed"
        /\ cpc'[c] = "sendCore"
        /\ text' \in {0, text} /\ mediaText' \in {0, mediaText}
        /\ Update([seen[c] EXCEPT !.status = "pending", !.media = "not_started"])
    BY <1>0, <1>1, <1>13 DEF RetryPurge, PurgeIndex, queue, Stored, Building, SeenHolds
  <2>2. record' = [seen[c] EXCEPT !.status = "pending", !.media = "not_started"]
    BY <2>1 DEF Update
  <2>3. record' \in Record /\ record'.status = "pending"
    BY <1>s, <2>1, <2>2 DEF Record
  <2>4. OneAtATime' /\ pc'["loop"] = "idle" /\ jobs' = <<>>
    BY <1>11, <2>1, <2>3
  <2>5. RecordTellsTruth'
    BY <2>3 DEF RecordTellsTruth, Readable
  <2>6. Stored(c)'
    BY <1>0, <2>1, <2>4 DEF Stored, Building, Repeating, Waiting, Enhancing
  <2>7. SeenHolds(c)'
    BY <2>1 DEF SeenHolds
  <2> QED
    BY <2>4, <2>5, <2>6, <2>7
<1>14. ASSUME SendMedia(c) \/ SendCore(c) PROVE Told
  <2>1. PICK kind \in {"media", "core"} :
          /\ P = IF kind = "media" THEN "sendMedia" ELSE "sendCore"
          /\ SendRetry(c, kind)
    BY <1>14 DEF SendMedia, SendCore
  <2>2. /\ UNCHANGED <<row, text, mediaRows, mediaText, uploaded>> /\ cpc'[c] = "idle"
        /\ seen[c] \in Record /\ record \in Record /\ jobs = <<>> /\ hand = None
        /\ pc["loop"] = "idle" /\ pc' = pc /\ uploaded
    BY <1>0, <1>1, <2>1 DEF SendRetry, stores, worker
  <2>3. /\ row <=> kind = "media"
        /\ row => text >= 1 /\ record.media = "processing" /\ seen[c].media # "completed"
        /\ ~row => seen[c].status = "failed"
    BY <1>0, <2>1, <2>2 DEF Stored, Building, Repeating, SeenHolds
  <2>4. \/ jobs' = Append(jobs, kind) /\ record' = record
        \/ /\ jobs' = jobs
           /\ record' = IF kind = "media" THEN seen[c] ELSE [seen[c] EXCEPT !.media = "not_started"]
    BY <2>1, <2>2 DEF SendRetry, Update
  <2>5. [seen[c] EXCEPT !.media = "not_started"] \in Record
        /\ [seen[c] EXCEPT !.media = "not_started"].status = seen[c].status
    BY <1>s, <2>2 DEF Record
  <2>6. record' \in Record /\ Len(jobs') <= 1 /\ (jobs' # <<>> => Head(jobs') = kind /\ record' = record)
    BY <1>5, <2>2, <2>4, <2>5
  <2>7. OneAtATime'
    BY <1>3, <2>2, <2>6
  <2>8. RecordTellsTruth'
    BY <2>2, <2>3, <2>4, <2>5 DEF RecordTellsTruth, Readable
  <2>9. Stored(c)'
    BY <1>0, <2>1, <2>2, <2>3, <2>6 DEF Stored, Building, Repeating, Waiting, Enhancing
  <2>10. SeenHolds(c)'
    BY <2>2 DEF SeenHolds
  <2> QED
    BY <2>7, <2>8, <2>9, <2>10
<1>15. ASSUME DeleteIndex(c) \/ DeleteRow(c) \/ DeleteRecord(c) PROVE Told
  <2>1. /\ UNCHANGED <<uploaded, jobs, seen, seenRow>> /\ record \in Record /\ jobs = <<>>
        /\ pc["loop"] = "idle"
    BY <1>0, <1>15 DEF DeleteIndex, DeleteRow, DeleteRecord, queue
  <2>2. record.status = "failed"
    BY <1>15 DEF DeleteIndex, DeleteRow, DeleteRecord, SeenHolds
  <2>3. CASE DeleteIndex(c)
    <3>1. /\ P = "dropIndex" /\ cpc'[c] = "dropRow" /\ UNCHANGED <<row, mediaRows, record>>
          /\ text' = 0 /\ mediaText' = 0 /\ seenRow[c] = row
      BY <1>1, <2>3 DEF DeleteIndex, PurgeIndex, Orderly, SeenHolds
    <3>2. OneAtATime' /\ pc'["loop"] = "idle" /\ jobs' = <<>>
      BY <1>0, <1>11, <2>1, <3>1
    <3>3. RecordTellsTruth'
      BY <2>2, <3>1 DEF RecordTellsTruth, Readable
    <3>4. Stored(c)'
      BY <3>1, <3>2 DEF Stored, Building, Repeating, Waiting, Enhancing
    <3>5. SeenHolds(c)'
      BY <2>1, <2>2, <3>1 DEF SeenHolds
    <3> QED
      BY <3>2, <3>3, <3>4, <3>5
  <2>4. CASE DeleteRow(c)
    <3>1. /\ P = "dropRow" /\ cpc'[c] = "dropRecord" /\ UNCHANGED <<text, mediaText, record>>
          /\ text = 0 /\ mediaText = 0 /\ ~row' /\ mediaRows' = 0
      BY <1>0, <1>1, <2>4 DEF DeleteRow, SeenHolds, Stored
    <3>2. OneAtATime' /\ pc'["loop"] = "idle" /\ jobs' = <<>>
      BY <1>0, <1>11, <2>1, <3>1
    <3>3. RecordTellsTruth'
      BY <2>2, <3>1 DEF RecordTellsTruth, Readable
    <3>4. Stored(c)'
      BY <3>1, <3>2 DEF Stored, Building, Repeating, Waiting, Enhancing
    <3>5. SeenHolds(c)'
      BY <2>1, <2>2, <3>1 DEF SeenHolds
    <3> QED
      BY <3>2, <3>3, <3>4, <3>5
  <2>5. CASE DeleteRecord(c)
    <3>1. /\ P = "dropRecord" /\ cpc'[c] = "idle" /\ UNCHANGED <<row, mediaRows, text, mediaText>>
          /\ ~row /\ record' = None
      BY <1>1, <2>5 DEF DeleteRecord, SeenHolds
    <3>2. OneAtATime' /\ pc'["loop"] = "idle" /\ jobs' = <<>>
      BY <1>0, <1>11, <2>1, <3>1
    <3>3. RecordTellsTruth'
      BY <3>1 DEF RecordTellsTruth, Readable
    <3>4. Stored(c)'
      BY <3>1, <3>2 DEF Stored, Building, Repeating, Waiting, Enhancing
    <3>5. SeenHolds(c)'
      BY <3>1 DEF SeenHolds
    <3> QED
      BY <3>2, <3>3, <3>4, <3>5
  <2> QED
    BY <1>15, <2>3, <2>4, <2>5
<1>16. ~RemoveIndex(c) /\ ~RemoveRow(c)
  BY DEF RemoveIndex, RemoveRow, SeenHolds
<1> QED
  BY <1>4, <1>6, <1>9, <1>10, <1>12, <1>13, <1>14, <1>15, <1>16 DEF Receive, Proceed

LEMMA OnlyTheLoop ==
  ASSUME Orderly, Typed, OneAtATime
  PROVE  ~RecoveryStep /\ ~Start /\ ~Die
<1>1. ~RecoveryStep
  <2>1. pc["recovery"] = "idle"
    BY DEF OneAtATime
  <2> QED
    BY <2>1
    DEF RecoveryStep, RecoverText, RecoverDeleteRow, RecoverDeleteIndex, RunStep, Structure,
        Persist, Index, Publish, Enhance, MediaRows, MediaIndex, Complete, At
<1>2. ~Start
  BY DEF Start, StartSettled, StartReady, StartGivesUp, StartRecovery, GiveBack, OneAtATime
<1>3. ~Die
  <2>1. deaths \in 0..0
    BY DEF Typed, TypeOK, Orderly
  <2> QED
    BY <2>1 DEF Die, Orderly
<1> QED
  BY <1>1, <1>2, <1>3

(* Only the deletion of an import removes its record. *)
LEMMA RequestsKeepTheRecord ==
  ASSUME Typed, NEW c \in Clients, Receive(c) \/ Proceed(c), record \in Record, ~DeleteRecord(c)
  PROVE  record' \in Record
<1> USE NoneAssumption
<1>1. \A new : Update(new) => record' = new
  BY DEF Update
<1>2. /\ "processing" \in Media /\ "ready" \in Status /\ "pending" \in Status
      /\ "failed" \in Status /\ "absent" \in Media /\ "not_started" \in Media
      /\ cpc[c] \in {"decide", "purge", "sendMedia", "sendCore"} => seen[c] \in Record
  BY DEF Status, Media, Typed
<1>3. CASE Upload(c)
  BY <1>2, <1>3, SaysBoth DEF Upload
<1>4. CASE SendUpload(c)
  BY <1>1, <1>2, <1>4, StatusSet DEF SendUpload
<1>5. CASE RetryMedia(c) \/ RetryPurge(c)
  <2>1. /\ seen[c] \in Record
        /\ \/ record' = record
           \/ record' = [seen[c] EXCEPT !.status = "ready", !.media = "processing"]
           \/ record' = [seen[c] EXCEPT !.status = "pending", !.media = "not_started"]
    BY <1>1, <1>2, <1>5 DEF RetryMedia, RetryPurge
  <2> QED
    BY <1>2, <2>1 DEF Record
<1>6. CASE SendMedia(c) \/ SendCore(c)
  <2>1. /\ seen[c] \in Record
        /\ \/ record' = record \/ record' = seen[c]
           \/ record' = [seen[c] EXCEPT !.media = "not_started"]
    BY <1>1, <1>2, <1>6 DEF SendMedia, SendCore, SendRetry
  <2> QED
    BY <1>2, <2>1 DEF Record
<1>7. CASE UNCHANGED record
  BY <1>7
<1> QED
  BY <1>3, <1>4, <1>5, <1>6, <1>7
  DEF Receive, Proceed, Retry, Delete, RemovePaper, RetryCore, DeleteIndex, DeleteRow,
      RemoveIndex, RemoveRow

LEMMA TruthStep ==
  ASSUME Orderly, TruthInv, [Next]_vars, Patient'
  PROVE  TruthInv'
<1> USE NoneAssumption
<1>0. Typed /\ Typed' /\ OneAtATime /\ RecordTellsTruth
  BY TypedStep DEF TruthInv
<1>1. PICK c \in Clients : \A d \in Clients : d = c
  BY DEF Orderly
<1>2. Stored(c) /\ SeenHolds(c)
  BY DEF TruthInv
<1> DEFINE Told == OneAtATime' /\ RecordTellsTruth' /\ Stored(c)' /\ SeenHolds(c)'
<1>3. ASSUME UNCHANGED vars PROVE Told
  BY <1>0, <1>2, <1>3
  DEF vars, stores, queue, clients, worker, OneAtATime, RecordTellsTruth, Readable, Stored,
      Building, Repeating, Waiting, SeenHolds
<1>4. LoopStep => Told
  BY <1>0, <1>1, <1>2, LoopTells
<1>5. ~RecoveryStep /\ ~Start /\ ~Die
  BY <1>0, OnlyTheLoop
<1>8. ASSUME NEW d \in Clients, Receive(d) \/ Proceed(d) PROVE Told
  <2>1. d = c
    BY <1>1
  <2> QED
    BY <1>0, <1>1, <1>2, <1>8, <2>1, RequestTells
<1>9. Told
  <2> HIDE DEF Told
  <2> QED
    BY <1>3, <1>4, <1>5, <1>8 DEF Next
<1> QED
  BY <1>0, <1>1, <1>9 DEF TruthInv

LEMMA TruthInit == Init => TruthInv
<1> SUFFICES ASSUME Init PROVE TruthInv
  OBVIOUS
<1>1. Typed
  BY TypedInit
<1>2. OneAtATime
  BY DEF Init, OneAtATime, Runs
<1>3. RecordTellsTruth
  BY DEF Init, RecordTellsTruth, Readable
<1>4. \A c \in Clients : Stored(c) /\ SeenHolds(c)
  BY DEF Init, Stored, Building, Repeating, Waiting, Enhancing, SeenHolds, Runs
<1> QED
  BY <1>1, <1>2, <1>3, <1>4 DEF TruthInv

(* What the record of an import says is in the stores, whatever failed but *)
(* the text index and was retried, as long as nothing dies and requests    *)
(* find the worker idle (_process_paper_async, retry_task).                *)
THEOREM RecordsTellTheTruth == Orderly => (Spec /\ []Patient => []RecordTellsTruth)
<1> SUFFICES ASSUME Orderly PROVE Spec /\ []Patient => []RecordTellsTruth
  OBVIOUS
<1>1. TruthInv => RecordTellsTruth
  BY DEF TruthInv
<1>2. TruthInv /\ [Next]_vars /\ Patient' => TruthInv'
  BY TruthStep
<1> QED
  BY <1>1, <1>2, TruthInit, PTL DEF Spec

(* When the record of a failed import is deleted, its rows, its chunks and *)
(* its file have gone before (delete_task).                                *)
THEOREM DeletionsLeaveNothing == Orderly => (Spec /\ []Patient => DeletedLeavesNothing)
<1> SUFFICES ASSUME Orderly PROVE Spec /\ []Patient => DeletedLeavesNothing
  OBVIOUS
<1> DEFINE Gone == record # None /\ record' = None =>
                     ~row' /\ ~pdf' /\ mediaRows' = 0 /\ text' = 0 /\ mediaText' = 0
<1>1. TruthInv /\ [Next]_vars => [Gone]_vars
  <2> SUFFICES ASSUME TruthInv, Next, record # None, record' = None
               PROVE  ~row' /\ ~pdf' /\ mediaRows' = 0 /\ text' = 0 /\ mediaText' = 0
    OBVIOUS
  <2>1. Typed /\ OneAtATime /\ RecordTellsTruth /\ record \in Record
    BY DEF TruthInv, Typed, TypeOK
  <2>2. PICK c \in Clients : \A d \in Clients : d = c
    BY DEF Orderly
  <2>3. Stored(c) /\ SeenHolds(c)
    BY DEF TruthInv
  <2>4. ~LoopStep
    BY <2>1, <2>2, <2>3, LoopTells, NoneAssumption
  <2>5. DeleteRecord(c)
    <3>1. Receive(c) \/ Proceed(c)
      BY <2>1, <2>2, <2>4, OnlyTheLoop DEF Next
    <3> QED
      BY <2>1, <3>1, RequestsKeepTheRecord, NoneAssumption
  <2> QED
    BY <2>3, <2>5 DEF DeleteRecord, SeenHolds, Stored
<1>2. TruthInv /\ [Next]_vars /\ Patient' => TruthInv'
  BY TruthStep
<1> QED
  BY <1>1, <1>2, TruthInit, PTL DEF Spec, DeletedLeavesNothing
=============================================================================
