-------------------------- MODULE ExecutionEvents --------------------------
(***************************************************************************)
(* The events of an execution: whoever changes its status commits that and *)
(* then appends an event under the lock of the execution's row; a client   *)
(* follows them over a stream that it may lose and open again after the    *)
(* last event it got.  Below, the trace report that is made of an          *)
(* execution, the gate its draft has to pass and the score it is given.    *)
(***************************************************************************)
EXTENDS Naturals, Integers, Sequences, FiniteSets, SequencesExt, FiniteSetsExt

CONSTANTS
  None,
  Writers,    \* processes that change the execution
  Clients,
  ReadLimit,      \* events a stream reads at once, 200 in the code
  MaxEvents,
  MaxWriterDeaths

EventsAssumption ==
  /\ ReadLimit \in Nat \ {0} /\ MaxEvents \in Nat /\ MaxWriterDeaths \in Nat
  /\ None \notin Writers

VARIABLES
  status,   \* of the execution
  events,   \* seq of each committed event, in the order they were committed
  holder,   \* who has locked the row, or None
  writers,  \* due: an event is to be appended; seq: the one it will have
  silent,   \* events that writers died before appending
  streams

eventsVars == <<status, events, holder, writers, silent, streams>>

Terminal   == {"completed"}
StreamStop == Terminal \union {"paused"}

Moves(s) == CASE s = "running" -> {"running", "paused", "completed"}
              [] s = "paused"  -> {"running", "completed"}
              [] OTHER         -> {}

NoWriter == [due |-> FALSE, seq |-> 0]

(* A stream begins after the last event its client has got. *)
Opened(got) ==
  [got |-> got, cursor |-> IF got = <<>> THEN 0 ELSE Last(got),
   phase |-> "rows", rows |-> <<>>, any |-> FALSE, status |-> None]

EventsInit ==
  /\ status = "running" /\ events = <<>> /\ holder = None
  /\ writers = [w \in Writers |-> NoWriter] /\ silent = 0
  /\ streams = [c \in Clients |-> Opened(<<>>)]

Due == {w \in Writers : writers[w].due}

-----------------------------------------------------------------------------
(* Writers *)

(* set_status, or the commit of the orchestrator. *)
ChangeStatus(w) ==
  /\ ~writers[w].due
  /\ Len(events) + Cardinality(Due) + silent < MaxEvents
  /\ \E s \in Moves(status) : status' = s
  /\ writers' = [writers EXCEPT ![w].due = TRUE]
  /\ UNCHANGED <<events, holder, silent, streams>>

(* Faulty variant, for the mutation runs only: the row is not locked.       *)
UnlockedForAll(w) == TRUE

Unlocked(w) == holder = None

LockRow(w) ==
  /\ writers[w].due /\ writers[w].seq = 0 /\ holder # w /\ Unlocked(w)
  /\ holder' = w
  /\ UNCHANGED <<status, events, writers, silent, streams>>

ReadLast(w) ==
  /\ holder = w /\ writers[w].seq = 0
  /\ writers' = [writers EXCEPT ![w].seq = Max({0} \union ToSet(events)) + 1]
  /\ UNCHANGED <<status, events, holder, silent, streams>>

(* The pair of execution and seq is unique. *)
CommitEvent(w) ==
  /\ writers[w].seq > 0
  /\ events' = IF writers[w].seq \in ToSet(events) THEN events
               ELSE Append(events, writers[w].seq)
  /\ writers' = [writers EXCEPT ![w] = NoWriter]
  /\ holder' = IF holder = w THEN None ELSE holder
  /\ UNCHANGED <<status, silent, streams>>

(* The database rolls back and lets the row go. *)
WriterDies(w) ==
  /\ writers[w].due /\ silent < MaxWriterDeaths
  /\ writers' = [writers EXCEPT ![w] = NoWriter]
  /\ holder' = IF holder = w THEN None ELSE holder
  /\ silent' = silent + 1
  /\ UNCHANGED <<status, events, streams>>

-----------------------------------------------------------------------------
(* Streams *)
(* The committed events after a number, in the order of their numbers. *)
Later(after) ==
  LET rows == {s \in ToSet(events) : s > after}
  IN  CHOOSE list \in [1..Cardinality(rows) -> rows] :
        \A i, j \in DOMAIN list : i < j => list[i] < list[j]

ReadRows(c) ==
  /\ streams[c].phase = "rows"
  /\ LET rows == Later(streams[c].cursor)
         read == SubSeq(rows, 1, Min({ReadLimit, Len(rows)}))
     IN  streams' = [streams EXCEPT ![c].rows = read, ![c].any = read # <<>>,
                                    ![c].phase = "status"]
  /\ UNCHANGED <<status, events, holder, writers, silent>>

ReadStatus(c) ==
  /\ streams[c].phase = "status"
  /\ streams' = [streams EXCEPT ![c].status = status, ![c].phase = "send"]
  /\ UNCHANGED <<status, events, holder, writers, silent>>

Send(c) ==
  /\ streams[c].phase = "send" /\ streams[c].rows # <<>>
  /\ LET row == Head(streams[c].rows)
     IN  streams' = [streams EXCEPT ![c].got = Append(@, row), ![c].cursor = row,
                                    ![c].rows = Tail(@)]
  /\ UNCHANGED <<status, events, holder, writers, silent>>

Pause(c) ==
  /\ streams[c].phase = "send" /\ streams[c].rows = <<>>
  /\ streams' = [streams EXCEPT
       ![c].phase = IF streams[c].status \in StreamStop /\ ~streams[c].any
                    THEN "closed" ELSE "rows"]
  /\ UNCHANGED <<status, events, holder, writers, silent>>

(* The connection is lost, or the client comes back to a closed stream.    *)
Reopen(c) ==
  /\ streams[c].phase # "rows"
  /\ streams' = [streams EXCEPT ![c] = Opened(@.got)]
  /\ UNCHANGED <<status, events, holder, writers, silent>>

EventsNext ==
  \/ \E w \in Writers : \/ ChangeStatus(w) \/ LockRow(w) \/ ReadLast(w)
                        \/ CommitEvent(w) \/ WriterDies(w)
  \/ \E c \in Clients : \/ ReadRows(c) \/ ReadStatus(c) \/ Send(c) \/ Pause(c)
                        \/ Reopen(c)

-----------------------------------------------------------------------------
(* Every variable has its type. *)
EventsTypeOK ==
  /\ status \in {"running", "paused", "completed"} /\ events \in Seq(1..MaxEvents)
  /\ holder \in Writers \union {None} /\ silent \in 0..MaxWriterDeaths
  /\ writers \in [Writers -> [due : BOOLEAN, seq : 0..MaxEvents]]
  /\ \A c \in Clients : streams[c].phase \in {"rows", "status", "send", "closed"}

(* What a client has got, over however many connections, is the events     *)
(* from the first one on, each once and in order, whoever writes at the    *)
(* same time.                                                              *)
StreamIsWhole ==
  /\ \A i \in 1..Len(events) : events[i] = i
  /\ \A c \in Clients :
       /\ Len(streams[c].got) <= Len(events)
       /\ \A i \in 1..Len(streams[c].got) : streams[c].got[i] = i

(* Two writers never take the same number: an event is lost only with the  *)
(* process that was to append it.                                          *)
SeqIsTakenOnce ==
  \A v, w \in Writers : v # w /\ writers[v].seq > 0 => writers[w].seq # writers[v].seq

-----------------------------------------------------------------------------
(* The gate of a draft, the report and the score *)

(* A proposal: where it belongs to, its paragraphs, its citations, each    *)
(* with the fields it names and what the verification found, its review.   *)
CitationKey(c) == <<c.key, c.paper, c.evidence>>

GateFailures(execution, proposal, skill) ==
  LET citations == proposal.citations
      keys      == {CitationKey(citations[i]) : i \in DOMAIN citations}
      found     == {citations[i].status : i \in DOMAIN citations}
  IN  {f \in {"project", "document", "kind", "paragraph", "none", "mapping",
              "unsupported", "review", "not active", "skill"} :
         CASE f = "project"     -> proposal.project # execution.project
           [] f = "document"    -> proposal.document # execution.document
           [] f = "kind"        -> proposal.kind # "generate"
           [] f = "paragraph"   -> proposal.paragraphs # 1
           [] f = "none"        -> citations = <<>>
           [] f = "mapping"     -> \/ Cardinality(keys) # Len(citations)
                                   \/ \E k \in keys : None \in {k[1], k[2], k[3]}
           [] f = "unsupported" -> \/ proposal.status = "verification_failed"
                                   \/ "unsupported" \in found
           [] f = "review"      -> proposal.repairs = None \/ proposal.repairs > 1
           [] f = "not active"  -> execution.skill # "writing"
           [] f = "skill"       -> ~skill}

CountOf(citations, s) ==
  Cardinality({i \in DOMAIN citations : citations[i].status = s})

Completion(execution, proposal, skill) ==
  IF GateFailures(execution, proposal, skill) # {} THEN None
  ELSE [passed |-> TRUE, citations |-> Len(proposal.citations),
        weak |-> CountOf(proposal.citations, "weak")]

(* The report is made of what the execution's row holds; payload is its    *)
(* result_payload.  A span lasts until the next event, and clocks differ.  *)
Span(times, i, ended) ==
  LET end == IF i < Len(times) THEN times[i + 1] ELSE ended
  IN  Max({0, end - times[i]})

TraceReport(execution, stages, times, payload) ==
  LET citations == IF payload.proposal = None THEN <<>> ELSE payload.proposal.citations
      gate      == payload.completion
  IN  [status |-> execution.status, stages |-> stages,
       spans |-> [i \in DOMAIN times |-> Span(times, i, execution.ended)],
       gate |-> gate # None /\ gate.passed,
       citations |-> IF gate # None /\ "citations" \in DOMAIN gate
                     THEN gate.citations ELSE Len(citations),
       weak |-> IF gate # None /\ "weak" \in DOMAIN gate
                THEN gate.weak ELSE CountOf(citations, "weak"),
       unsupported |-> CountOf(citations, "unsupported"),
       within |-> execution.used <= execution.limit]

Required == {"context", "generation"}

Score(trace) ==
  LET Points(n, if) == IF if THEN n ELSE 0
      supported == trace.citations > 0 /\ trace.unsupported = 0
  IN    Points(20, trace.status = "completed") + Points(30, trace.gate)
      + Points(18, supported) + Points(7, supported /\ trace.weak = 0)
      + Points(10, Required \subseteq trace.stages) + Points(10, trace.within)
      + Points(5, \A i \in DOMAIN trace.spans : trace.spans[i] >= 0)

Verdict(trace) ==
  LET critical == /\ trace.status = "completed" /\ trace.gate
                  /\ trace.citations > 0 /\ trace.unsupported = 0 /\ trace.within
  IN  IF trace.status \in {"running", "paused", "cancelled"} THEN "incomplete"
      ELSE IF critical /\ Score(trace) >= 80 THEN "pass" ELSE "fail"

(* What complete leaves of the payload when the last task is done. *)
Completed == [proposal |-> None, completion |-> [passed |-> TRUE]]

(* The gate and the score agree: an execution that keeps to its budget and *)
(* completes is a pass if its draft went through the gate, whatever its    *)
(* events and the clocks, and never one if it did not.                     *)
GateAndScoreAgree(execution, proposal, skill, stages, times) ==
  LET gate    == Completion(execution, proposal, skill)
      trace   == TraceReport(execution, stages, times,
                             [proposal |-> proposal, completion |-> gate])
      verdict == Verdict(trace)
  IN  /\ execution.status = "completed" /\ execution.used <= execution.limit =>
           (verdict = "pass" <=> gate # None)
      /\ verdict = "pass" => execution.status = "completed" /\ trace.within

(* tests/test_execution_runtime.py:224, a draft that went through the gate *)
(* passes: also when the last task has completed the execution.            *)
CompletedIsPass(execution, proposal, skill, stages, times) ==
  /\ Completion(execution, proposal, skill) # None
  /\ execution.status = "completed" /\ execution.used <= execution.limit
  => Verdict(TraceReport(execution, stages, times, Completed)) = "pass"
=============================================================================
