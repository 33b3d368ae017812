--------------------------- MODULE ServicesProofs ---------------------------
(***************************************************************************)
(* What holds of the services of MCServices for every number of members,   *)
(* users, papers, preprints, runs, calls, attempts, retries and deaths.    *)
(*                                                                         *)
(* A step of MCServices is one of one service and changes nothing of the   *)
(* others (StepOfEach), so each service has an invariant of its own:       *)
(*                                                                         *)
(*   CallsInv    the counts of the agent's loop: a call was counted before *)
(*               it was made, and what was counted without a call stays    *)
(*               within the limit of the task;                             *)
(*   TracesInv   the rows of the tool runtime: one per counted call, and   *)
(*               one that still says "running" belongs to the call in hand *)
(*               or to a death;                                            *)
(*   ProfileInv  WorkerPlaces says what the worker's job is at each of its *)
(*               places, so that a profile it left under way is its own;   *)
(*   ImportInv   Copies says of the preferences and of every copy a session*)
(*               has read what must not come back with a copy; Fresh that  *)
(*               a paper on its way to the queue is nobody else's; Marks   *)
(*               what the worker is about to commit, and that nothing of   *)
(*               the paper is under way when it acknowledges;              *)
(*   OnceInv     while nobody dies: which imports are lost for good, that  *)
(*               every entry tells the truth about that (Telling), that a  *)
(*               recorded import has its entry until it is dropped or      *)
(*               deleted (Entered), and that a request which records one   *)
(*               has read only of lost ones (Sole);                        *)
(*   TalkInv     the agent's loop: how many answers its talk lacks at each *)
(*               place, and that what it can go on from was whole;         *)
(*   QaInv       the nodes of a question: what has been told at each of    *)
(*               them (Course), that its reasoning is closed before the    *)
(*               answer (Thought), and that a saved row has as many pieces *)
(*               as were told (Written);                                   *)
(*   QaBounds    a question has one row of each kind, so that counting     *)
(*               them gives no more than there are questions;              *)
(*   PathInv     the generator of an answer: what there is of the text at  *)
(*               each place (Places), and that the chunks found are        *)
(*               numbered and the citations are of them (Findings).        *)
(*                                                                         *)
(* The evaluation runs have their invariant in EvaluationRunsProofs.       *)
(***************************************************************************)
EXTENDS MCServices, FiniteSetTheorems, SequenceTheorems, TLAPS

EvalProofs == INSTANCE EvaluationRunsProofs
                WITH waiting <- jobsOfRuns, request <- startRequest

-----------------------------------------------------------------------------
(* A step of the services is one of one service, or nothing for it. *)
LEMMA StepOfEach ==
  ASSUME [Next]_vars
  PROVE  /\ [Eval!EvalNext]_evalVars   /\ [Card!CardNext]_cardVars
         /\ [Prefs!PrefsNext]_prefsVars /\ [Agent!AgentNext]_agentVars
         /\ [Tool!ToolNext]_toolVars   /\ [Qa!QaNext]_qaVars
         /\ [Path!PathNext]_pathVars
<1>1. CASE UNCHANGED vars
  BY <1>1 DEF vars
<1>2. CASE Next
  BY <1>2 DEF Next, EvalStep, CardStep, PrefsStep, AgentStep, ToolStep, QaStep,
         PathStep
<1> QED
  BY <1>1, <1>2

-----------------------------------------------------------------------------
(* The evaluation runs of MCServices and those of EvaluationRunsProofs are *)
(* instances of one module with the same parameters.                       *)
LEMMA SameEvaluations ==
  /\ Eval!EvaluationAssumption <=> EvalProofs!EvaluationAssumption
  /\ Eval!EvalInit <=> EvalProofs!EvalInit
  /\ Eval!ActiveRunIsAttended <=> EvalProofs!ActiveRunIsAttended
  /\ Eval!EvaluatedOnce <=> EvalProofs!EvaluatedOnce
BY DEF Eval!EvaluationAssumption, EvalProofs!EvaluationAssumption, Eval!EvalInit,
   EvalProofs!EvalInit, Eval!ActiveRunIsAttended, EvalProofs!ActiveRunIsAttended,
   Eval!Active, EvalProofs!Active, Eval!At, EvalProofs!At, Eval!Working,
   EvalProofs!Working, Eval!Handled, EvalProofs!Handled, Eval!EvaluatedOnce,
   EvalProofs!EvaluatedOnce

LEMMA SameActiveRuns == Eval!OneActiveRun <=> EvalProofs!OneActiveRun
<1>1. \A S : Eval!Cardinality(S) = EvalProofs!Cardinality(S)
  BY DEF Eval!Cardinality, EvalProofs!Cardinality, Eval!IsFiniteSet,
     EvalProofs!IsFiniteSet
<1> QED
  BY <1>1 DEF Eval!OneActiveRun, EvalProofs!OneActiveRun, Eval!ActiveRuns,
     EvalProofs!ActiveRuns, Eval!Active, EvalProofs!Active

LEMMA SameEvaluationSteps == Eval!EvalNext <=> EvalProofs!EvalNext
<1> USE DEF Eval!Active, EvalProofs!Active, Eval!MayBecome, EvalProofs!MayBecome,
      Eval!Transitions, EvalProofs!Transitions, Eval!ActiveRuns,
      EvalProofs!ActiveRuns, Eval!UniqueIndex, EvalProofs!UniqueIndex,
      Eval!rows, EvalProofs!rows
<1>1. \A a \in Admins :
        (Eval!Ask(a) \/ Eval!Proceed(a)) <=> (EvalProofs!Ask(a) \/ EvalProofs!Proceed(a))
  BY DEF Eval!Ask, EvalProofs!Ask, Eval!Proceed, EvalProofs!Proceed, Eval!Insert,
     EvalProofs!Insert, Eval!Enqueue, EvalProofs!Enqueue, Eval!Refresh,
     EvalProofs!Refresh, Eval!GiveUp, EvalProofs!GiveUp, Eval!NewJob,
     EvalProofs!NewJob, Eval!At, EvalProofs!At, Eval!Continue, EvalProofs!Continue
<1>2. /\ Eval!WorkerStep <=> EvalProofs!WorkerStep
      /\ Eval!Die <=> EvalProofs!Die
  BY DEF Eval!WorkerStep, EvalProofs!WorkerStep, Eval!Take, EvalProofs!Take,
     Eval!Load, EvalProofs!Load, Eval!Start, EvalProofs!Start, Eval!Perform,
     EvalProofs!Perform, Eval!Finish, EvalProofs!Finish, Eval!Complete,
     EvalProofs!Complete, Eval!Error, EvalProofs!Error, Eval!Fault,
     EvalProofs!Fault, Eval!Ack, EvalProofs!Ack, Eval!Nack, EvalProofs!Nack,
     Eval!Die, EvalProofs!Die, Eval!FinalFailure, EvalProofs!FinalFailure,
     Eval!Working, EvalProofs!Working, Eval!Go, EvalProofs!Go, Eval!Handled,
     EvalProofs!Handled, Eval!Row, EvalProofs!Row
<1> QED
  BY <1>1, <1>2 DEF Eval!EvalNext, EvalProofs!EvalNext

LEMMA SameEvaluationTypes == Eval!EvalTypeOK <=> EvalProofs!EvalTypeOK
BY DEF Eval!EvalTypeOK, EvalProofs!EvalTypeOK, Eval!Active, EvalProofs!Active,
   Eval!Over, EvalProofs!Over, Eval!Job, EvalProofs!Job, Eval!Hand, EvalProofs!Hand,
   Eval!Request, EvalProofs!Request

LEMMA EvaluationsAreTyped == Spec => []Eval!EvalTypeOK
<1>1. Init => EvalProofs!EvalInit
  BY SameEvaluations DEF Init
<1>2. [Next]_vars => [EvalProofs!EvalNext]_(EvalProofs!evalVars)
  BY StepOfEach, SameEvaluationSteps DEF evalVars, EvalProofs!evalVars, EvalProofs!rows
<1>3. EvalProofs!EvalSpec => []EvalProofs!EvalTypeOK
  BY EvalProofs!EvaluationTypes, SameEvaluations, ServicesAssumption
<1>4. Eval!EvalTypeOK <=> EvalProofs!EvalTypeOK
  BY SameEvaluationTypes
<1> QED
  BY <1>1, <1>2, <1>3, <1>4, PTL DEF Spec, EvalProofs!EvalSpec

LEMMA RunsAreAttended == Spec => []Eval!ActiveRunIsAttended
<1>1. Init => EvalProofs!EvalInit
  BY SameEvaluations DEF Init
<1>2. [Next]_vars => [EvalProofs!EvalNext]_(EvalProofs!evalVars)
  BY StepOfEach, SameEvaluationSteps DEF evalVars, EvalProofs!evalVars, EvalProofs!rows
<1>3. EvalProofs!EvalSpec => []EvalProofs!ActiveRunIsAttended
  BY EvalProofs!RunsAreAttended, SameEvaluations, ServicesAssumption
<1>4. Eval!ActiveRunIsAttended <=> EvalProofs!ActiveRunIsAttended
  BY SameEvaluations
<1> QED
  BY <1>1, <1>2, <1>3, <1>4, PTL DEF Spec, EvalProofs!EvalSpec

LEMMA RunsAreDoneOnce == Spec => [](Eval!OneActiveRun /\ Eval!EvaluatedOnce)
<1>1. Init => EvalProofs!EvalInit
  BY SameEvaluations DEF Init
<1>2. [Next]_vars => [EvalProofs!EvalNext]_(EvalProofs!evalVars)
  BY StepOfEach, SameEvaluationSteps DEF evalVars, EvalProofs!evalVars, EvalProofs!rows
<1>3. EvalProofs!EvalSpec => [](EvalProofs!OneActiveRun /\ EvalProofs!EvaluatedOnce)
  BY EvalProofs!OneRunOfAType, EvalProofs!ReportsAreProducedOnce, SameEvaluations,
     ServicesAssumption, PTL
<1>4. /\ Eval!OneActiveRun <=> EvalProofs!OneActiveRun
      /\ Eval!EvaluatedOnce <=> EvalProofs!EvaluatedOnce
  BY SameEvaluations, SameActiveRuns
<1> QED
  BY <1>1, <1>2, <1>3, <1>4, PTL DEF Spec, EvalProofs!EvalSpec

-----------------------------------------------------------------------------
(* LeadAgent *)

(* Calls are counted for the task and for the execution before they are    *)
(* made, and what is counted for the task without a call, when the         *)
(* execution refuses it, stays within the task's limit, too.               *)
CallsInv ==
  /\ metrics \in [{"model", "tool"} -> Nat] /\ charged \in [{"model", "tool"} -> Nat]
  /\ made \in [{"model", "tool"} -> Nat]
  /\ Agent!CallsArePaidFor

LEMMA LimitsAreNumbers ==
  Limit \in [{"model", "tool"} -> Nat] /\ Budget \in [{"model", "tool"} -> Nat]
BY ServicesAssumption DEF Agent!AgentAssumption

(* What a boundary counts is within the limits, and enough for one call    *)
(* unless it refuses.                                                      *)
LEMMA ChargeCounts ==
  ASSUME CallsInv, NEW k \in {"model", "tool"}, Agent!Charge(k)
  PROVE  /\ metrics' \in [{"model", "tool"} -> Nat]
         /\ charged' \in [{"model", "tool"} -> Nat]
         /\ \A l \in {"model", "tool"} :
              /\ metrics[l] <= metrics'[l] /\ metrics'[l] <= Limit[l]
              /\ charged[l] <= charged'[l] /\ charged'[l] <= Budget[l]
         /\ Agent!Refusal(k) = "none" =>
              /\ ~stopped
              /\ metrics'[k] = metrics[k] + 1 /\ charged'[k] = charged[k] + 1
<1>1. CASE Agent!Refusal(k) = "none"
  <2>1. ~stopped /\ ~overspent /\ metrics[k] < Limit[k] /\ charged[k] < Budget[k]
    BY <1>1, LimitsAreNumbers DEF CallsInv, Agent!Refusal
  <2>2. /\ metrics' = [metrics EXCEPT ![k] = @ + 1]
        /\ charged' = [charged EXCEPT ![k] = @ + 1]
    BY <1>1, <2>1, LimitsAreNumbers DEF CallsInv, Agent!Charge
  <2> QED
    BY <2>1, <2>2, LimitsAreNumbers DEF CallsInv, Agent!CallsArePaidFor
<1>2. CASE Agent!Refusal(k) # "none"
  BY <1>2, LimitsAreNumbers DEF CallsInv, Agent!CallsArePaidFor, Agent!Charge
<1> QED
  BY <1>1, <1>2

LEMMA CallCounts ==
  ASSUME CallsInv, NEW k \in {"model", "tool"},
         Agent!Refusal(k) = "none", Agent!Charge(k),
         made' = [made EXCEPT ![k] = @ + 1]
  PROVE  CallsInv' /\ ~stopped
BY ChargeCounts DEF CallsInv, Agent!CallsArePaidFor

LEMMA RefusalCounts ==
  ASSUME CallsInv, NEW k \in {"model", "tool"}, Agent!Charge(k), made' = made
  PROVE  CallsInv'
BY ChargeCounts, LimitsAreNumbers DEF CallsInv, Agent!CallsArePaidFor

(* Every step keeps CallsInv, and makes no call once the task is stopped. *)
LEMMA CallsStep ==
  ASSUME CallsInv, [Agent!AgentNext]_agentVars
  PROVE  CallsInv' /\ (stopped => made' = made)
<1>1. ASSUME UNCHANGED <<metrics, charged, made>>
      PROVE  CallsInv' /\ made' = made
  BY <1>1 DEF CallsInv, Agent!CallsArePaidFor
<1>2. CASE \/ Agent!Take \/ Agent!Read \/ Agent!Restore \/ Agent!StopAtTool
           \/ Agent!SaveCheckpoint \/ Agent!SaveCard \/ Agent!CompleteRead
           \/ Agent!RunOut \/ Agent!Stop \/ Agent!AgentDies \/ UNCHANGED agentVars
  BY <1>1, <1>2 DEF Agent!Take, Agent!Read, Agent!Restore, Agent!StopAtTool,
     Agent!SaveCheckpoint, Agent!SaveCard, Agent!CompleteRead, Agent!RunOut,
     Agent!Stop, Agent!AgentDies, agentVars, Agent!row
<1>3. CASE Agent!CallRefused
  BY <1>3, RefusalCounts DEF Agent!CallRefused
<1>4. CASE Agent!CallFails \/ Agent!CallForTools
  BY <1>4, CallCounts DEF Agent!CallFails, Agent!CallForTools, Agent!MakeCall
<1>5. CASE Agent!CallAnswers
  BY <1>5, CallCounts DEF Agent!CallAnswers
<1>6. CASE Agent!StopDuringCall
  BY <1>6, CallCounts DEF Agent!StopDuringCall
<1>7. CASE Agent!RunTool
  BY <1>7, CallCounts DEF Agent!RunTool
<1>8. CASE Agent!RejectTool
  BY <1>8, <1>1, RefusalCounts DEF Agent!RejectTool
<1> QED
  BY <1>2, <1>3, <1>4, <1>5, <1>6, <1>7, <1>8 DEF Agent!AgentNext, Agent!AgentStep

-----------------------------------------------------------------------------
(* ToolRuntime *)

(* The rows that say a call is under way. *)
Begun(rows) == {i \in 1..Len(rows) : rows[i] = "running"}

(* A call as a record; no call in hand is one that is idle. *)
CallRecord(c) ==
  c = [at |-> c.at, tool |-> c.tool, context |-> c.context, valid |-> c.valid,
       confirmed |-> c.confirmed]

(* The types, EffectsAreTraced, and what the places of the call in hand    *)
(* need: a call that is looked at fits the budget, one that begins has a   *)
(* row in advance of its effect, and that row, the last one, says "running"*)
TracesInv ==
  /\ toolCount \in Nat /\ toolDeaths \in 0..MaxToolDeaths /\ cancel \in BOOLEAN
  /\ traces \in Seq({"running", "completed", "failed"}) /\ effects \in Seq(Tools)
  /\ CallRecord(call)
  /\ call.at \in {"idle", "check", "run", "ran"}
  /\ Len(traces) = toolCount /\ toolCount <= MaxToolCalls
  /\ Len(effects) <= Len(traces)
  /\ Cardinality(Begun(traces))
       <= toolDeaths + (IF call.at \in {"run", "ran"} THEN 1 ELSE 0)
  /\ call.at # "idle" => call.tool \in Tools
  /\ call.at = "check" => toolCount < MaxToolCalls
  /\ call.at = "run" => Len(effects) < Len(traces)
  /\ call.at \in {"run", "ran"} => Len(traces) > 0 /\ traces[Len(traces)] = "running"

LEMMA NoCallIsIdle == CallRecord(Tool!NoCall) /\ Tool!NoCall.at = "idle"
<1>1. \A a, t, x, v, f :
        CallRecord([at |-> a, tool |-> t, context |-> x, valid |-> v,
                    confirmed |-> f])
  BY DEF CallRecord
<1>2. Tool!NoCall.at = "idle"
  BY DEF Tool!NoCall
<1>3. CallRecord(Tool!NoCall)
  BY <1>1, Zenon DEF Tool!NoCall
<1> QED
  BY <1>2, <1>3

LEMMA SameCardinality ==
  \A S : /\ Tool!Cardinality(S) = Cardinality(S)
         /\ Qa!Cardinality(S) = Cardinality(S)
         /\ Path!Cardinality(S) = Cardinality(S)
BY DEF Tool!Cardinality, Qa!Cardinality, Path!Cardinality, Cardinality,
   Tool!IsFiniteSet, Qa!IsFiniteSet, Path!IsFiniteSet, IsFiniteSet

LEMMA TracesShow == TracesInv => Tool!ToolTypeOK /\ Tool!EffectsAreTraced
BY SameCardinality DEF TracesInv, Begun, Tool!ToolTypeOK, Tool!EffectsAreTraced

(* A row more or another status in the last row changes the number of rows *)
(* that are under way by one at most.                                      *)
LEMMA BegunIsFinite ==
  ASSUME NEW S, NEW rows \in Seq(S)
  PROVE  IsFiniteSet(Begun(rows)) /\ Cardinality(Begun(rows)) \in Nat
<1>1. Len(rows) \in Nat /\ IsFiniteSet(1..Len(rows))
  BY FS_Interval
<1>2. Begun(rows) \subseteq 1..Len(rows)
  BY DEF Begun
<1> QED
  BY <1>1, <1>2, FS_Subset, FS_CardinalityType

LEMMA BegunAppend ==
  ASSUME NEW S, NEW rows \in Seq(S), NEW mark
  PROVE  /\ IsFiniteSet(Begun(rows))
         /\ mark # "running" => Begun(Append(rows, mark)) = Begun(rows)
         /\ mark = "running" =>
              Cardinality(Begun(Append(rows, mark))) = Cardinality(Begun(rows)) + 1
<1>1. IsFiniteSet(Begun(rows))
  BY BegunIsFinite
<1>2. Begun(Append(rows, mark)) =
        Begun(rows) \union (IF mark = "running" THEN {Len(rows) + 1} ELSE {})
  BY DEF Begun
<1>3. Len(rows) + 1 \notin Begun(rows)
  BY DEF Begun
<1> QED
  BY <1>1, <1>2, <1>3, FS_AddElement

LEMMA BegunEnd ==
  ASSUME NEW S, NEW rows \in Seq(S), Len(rows) > 0, rows[Len(rows)] = "running",
         NEW mark, mark # "running"
  PROVE  /\ IsFiniteSet(Begun(rows))
         /\ Cardinality(Begun([rows EXCEPT ![Len(rows)] = mark])) =
              Cardinality(Begun(rows)) - 1
<1>1. IsFiniteSet(Begun(rows))
  BY BegunIsFinite
<1>2. Begun([rows EXCEPT ![Len(rows)] = mark]) = Begun(rows) \ {Len(rows)}
  BY DEF Begun
<1>3. Len(rows) \in Begun(rows)
  BY DEF Begun
<1> QED
  BY <1>1, <1>2, <1>3, FS_RemoveElement

LEMMA TracesInit ==
  ASSUME Tool!ToolInit
  PROVE  TracesInv
<1>1. Begun(<< >>) = {}
  BY DEF Begun
<1>2. /\ toolCount = 0 /\ traces = << >> /\ effects = << >> /\ toolDeaths = 0
  BY DEF Tool!ToolInit
<1>3. MaxToolCalls \in Nat /\ MaxToolDeaths \in Nat
  BY ServicesAssumption DEF Tool!ToolAssumption
<1>4. Cardinality(Begun(traces)) = 0
  BY <1>1, <1>2, FS_EmptySet
<1>5. /\ traces \in Seq({"running", "completed", "failed"}) /\ effects \in Seq(Tools)
      /\ Len(traces) = 0 /\ Len(effects) = 0 /\ toolCount = 0 /\ toolDeaths = 0
  BY <1>2
<1>6. CallRecord(call) /\ call.at = "idle" /\ cancel \in BOOLEAN
  BY NoCallIsIdle DEF Tool!ToolInit
<1> QED
  BY <1>3, <1>4, <1>5, <1>6 DEF TracesInv

LEMMA TracesStep ==
  ASSUME TracesInv, [Tool!ToolNext]_toolVars
  PROVE  TracesInv'
<1> USE DEF TracesInv
<1>1. /\ MaxToolCalls \in Nat /\ MaxToolDeaths \in Nat
      /\ Cardinality(Begun(traces)) \in Nat
      /\ CallRecord(Tool!NoCall) /\ Tool!NoCall.at = "idle"
  BY ServicesAssumption, BegunIsFinite, NoCallIsIdle DEF Tool!ToolAssumption
<1>2. ASSUME NEW t \in Tools, Tool!Enter(t) PROVE TracesInv'
  BY <1>1, <1>2 DEF Tool!Enter, CallRecord
<1>3. ASSUME Tool!Forbid PROVE TracesInv'
  BY <1>1, <1>3 DEF Tool!Forbid, Tool!Leave
<1>4. ASSUME Tool!Reject PROVE TracesInv'
  <2>1. Begun(traces') = Begun(traces)
    BY <1>4, BegunAppend DEF Tool!Reject
  <2> QED
    BY <1>1, <1>4, <2>1 DEF Tool!Reject, Tool!Leave
<1>5. ASSUME Tool!Begin PROVE TracesInv'
  <2>1. Cardinality(Begun(traces')) = Cardinality(Begun(traces)) + 1
    BY <1>5, BegunAppend DEF Tool!Begin
  <2>2. /\ traces \in Seq({"running", "completed", "failed"}) /\ traces' = Append(traces, "running")
        /\ toolCount' = toolCount + 1 /\ toolCount < MaxToolCalls
        /\ call' = [call EXCEPT !.at = "run"] /\ call.at = "check"
        /\ UNCHANGED <<cancel, effects, toolDeaths>>
    BY <1>5 DEF Tool!Begin
  <2>3. /\ traces' \in Seq({"running", "completed", "failed"})
        /\ Len(traces') = Len(traces) + 1 /\ traces'[Len(traces')] = "running"
    BY <2>2
  <2>4. CallRecord(call') /\ call'.at = "run" /\ call'.tool = call.tool
    BY <2>2 DEF CallRecord
  <2> QED
    BY <1>1, <2>1, <2>2, <2>3, <2>4
<1>6. ASSUME Tool!Handle PROVE TracesInv'
  BY <1>1, <1>6 DEF Tool!Handle, CallRecord
<1>7. ASSUME Tool!Return PROVE TracesInv'
  <2>1. Cardinality(Begun(traces')) = Cardinality(Begun(traces)) - 1
    BY <1>7, BegunEnd DEF Tool!Return
  <2> QED
    BY <1>1, <1>7, <2>1 DEF Tool!Return, Tool!Leave
<1>8. ASSUME Tool!Cancel \/ UNCHANGED toolVars PROVE TracesInv'
  BY <1>1, <1>8 DEF Tool!Cancel, toolVars
<1>9. ASSUME Tool!ToolDies PROVE TracesInv'
  BY <1>1, <1>9 DEF Tool!ToolDies, Tool!Leave
<1> QED
  BY <1>2, <1>3, <1>4, <1>5, <1>6, <1>7, <1>8, <1>9 DEF Tool!ToolNext

-----------------------------------------------------------------------------
LEMMA CallsInvariant == Spec => [](CallsInv /\ TracesInv)
<1>1. Init => CallsInv
  BY LimitsAreNumbers
  DEF Init, Agent!AgentInit, CallsInv, Agent!CallsArePaidFor
<1>2. Init => TracesInv
  BY TracesInit DEF Init
<1>3. CallsInv /\ TracesInv /\ [Next]_vars => (CallsInv /\ TracesInv)'
  BY StepOfEach, CallsStep, TracesStep
<1> QED
  BY <1>1, <1>2, <1>3, PTL DEF Spec

(* No model call is made that its task and its execution were not charged  *)
(* for, and no tool has an effect without a row: whatever fails, dies, is  *)
(* retried, goes on from a checkpoint or is stopped.                       *)
THEOREM CallsAreCounted == Spec => []CallsAreAccountedFor
<1>1. CallsInv /\ TracesInv => CallsAreAccountedFor
  BY TracesShow DEF CallsInv, CallsAreAccountedFor
<1> QED
  BY <1>1, CallsInvariant, PTL

(* No call begins once the execution is paused or cancelled. *)
THEOREM NoCallIsLate == Spec => NoCallAfterStop
<1>1. CallsInv /\ [Next]_vars => [stopped => made' = made]_(Agent!agentVars)
  BY StepOfEach, CallsStep
<1> QED
  BY <1>1, CallsInvariant, PTL DEF Spec, NoCallAfterStop, Agent!NoCallAfterStop

-----------------------------------------------------------------------------
(* PaperProfiles *)

(* What the worker's job is at each of its places, and that it has nothing *)
(* under way to write at the end.                                          *)
WorkerPlaces ==
  LET s == session[Worker] IN
  /\ s.pc \in {"idle", "save"} => s.job # "profile"
  /\ s.pc = "schedule" => s.job = "parse"
  /\ s.pc \in {"pend", "enqueue", "unqueued"} => s.job # "none"
  /\ s.pc \in {"moved", "begin", "generate", "finish"} => s.job = "profile"
  /\ s.pc = "finish" => s.card.profile.status \in {"ready", "failed"}

ProfileInv == Card!CardTypeOK /\ WorkerPlaces /\ Card!ProfileIsAttended

LEMMA CardNumbers ==
  /\ Worker \notin Users
  /\ MaxRegenerations \in Nat /\ MaxParses \in Nat \ {0} /\ MaxTouches \in Nat
  /\ MaxSaves \in Nat /\ MaxRequests \in Nat /\ MaxCardDeaths \in Nat
BY ServicesAssumption DEF Card!CardAssumption

LEMMA ProfileInit ==
  ASSUME Init
  PROVE  ProfileInv
<1> USE CardNumbers
<1>1. Card!CardInit
  BY DEF Init
<1>2. /\ Card!Unparsed \in Card!Source /\ Card!NoProfile \in Card!Profile
      /\ Card!NoCard \in Card!Card /\ Card!NoSession \in Card!Session
  BY DEF Card!Unparsed, Card!NoProfile, Card!NoCard, Card!NoSession, Card!Source,
     Card!Profile, Card!Card, Card!Session
<1>3. paper \in Card!Source
  BY <1>1 DEF Init, Card!CardInit, Card!Unparsed, Card!Source
<1>4. Card!CardTypeOK
  <2>1. card \in Card!Card /\ session \in [Card!Sessions -> Card!Session]
    BY <1>1, <1>2 DEF Card!CardInit
  <2>2. jobs \in [Card!Source -> Nat] /\ parses = 0
    BY <1>1 DEF Card!CardInit
  <2>3. saves = 0 /\ asked = 0 /\ cardDeaths = 0
    BY <1>1 DEF Card!CardInit
  <2>4. spoilt \in BOOLEAN
    BY <1>1 DEF Card!CardInit
  <2> QED
    BY <1>3, <2>1, <2>2, <2>3, <2>4 DEF Card!CardTypeOK
<1>5. WorkerPlaces
  BY <1>1 DEF Card!CardInit, WorkerPlaces, Card!Sessions, Card!NoSession
<1>6. Card!ProfileIsAttended
  BY <1>1 DEF Card!CardInit, Card!ProfileIsAttended, Card!InTheMaking, Card!NoCard,
     Card!NoProfile
<1> QED
  BY <1>4, <1>5, <1>6 DEF ProfileInv

(* What request_generation decides has the types. *)
LEMMA DecideTypes ==
  ASSUME session \in [Card!Sessions -> Card!Session], NEW s \in Card!Sessions,
         NEW c \in Card!Card, NEW source \in Card!Source, NEW force \in BOOLEAN,
         Card!Decide(s, c, source, force)
  PROVE  session' \in [Card!Sessions -> Card!Session]
<1> USE CardNumbers
<1>1. CASE Card!Wanted(c, source, force)
  <2> DEFINE profile == [status |-> "pending", source |-> source,
                         retries |-> Card!Retries(c, force)]
  <2>1. Card!Retries(c, force) \in 0..MaxRegenerations
    BY <1>1 DEF Card!Wanted, Card!Retries, Card!Card, Card!Profile
  <2>2. [c EXCEPT !.profile = profile] \in Card!Card
    BY <2>1 DEF Card!Card, Card!Profile
  <2> QED
    BY <1>1, <2>2 DEF Card!Decide, Card!Session
<1>2. CASE ~Card!Wanted(c, source, force)
  <2>1. Card!NoSession \in Card!Session
    BY DEF Card!NoSession, Card!NoCard, Card!NoProfile, Card!Unparsed, Card!Session,
       Card!Card, Card!Profile, Card!Source
  <2> QED
    BY <1>2, <2>1 DEF Card!Decide, Card!Done
<1> QED
  BY <1>1, <1>2

(* Every step keeps the types. *)
LEMMA CardTypesStep ==
  ASSUME Card!CardTypeOK, [Card!CardNext]_cardVars
  PROVE  Card!CardTypeOK'
<1> USE CardNumbers
<1>1. /\ paper \in Card!Source /\ card \in Card!Card
      /\ session \in [Card!Sessions -> Card!Session]
      /\ jobs \in [Card!Source -> Nat] /\ parses \in Nat
      /\ saves \in 0..MaxSaves /\ cardDeaths \in 0..MaxCardDeaths
      /\ asked \in 0..MaxRequests
  BY DEF Card!CardTypeOK
<1>2. Worker \in Card!Sessions /\ Users \subseteq Card!Sessions
  BY DEF Card!Sessions
<1>3. Card!NoSession \in Card!Session
  BY DEF Card!NoSession, Card!NoCard, Card!NoProfile, Card!Unparsed, Card!Session,
     Card!Card, Card!Profile, Card!Source
<1>4. \A c \in Card!Card, mark \in {"generating", "ready", "failed", "stale"} :
        Card!WithStatus(c, mark) \in Card!Card
  BY DEF Card!WithStatus, Card!Card, Card!Profile
<1>5. \A s \in Card!Sessions : session[s].card \in Card!Card /\ session[s].expected \in Card!Source
  BY <1>1 DEF Card!Session
<1>6. spoilt' \in BOOLEAN
  BY DEF Card!CardTypeOK, Card!CardNext, Card!WorkerStep, Card!Continue, Card!UserStep,
     Card!Arrive, Card!Request, Card!View, Card!Pend, Card!Enqueue, Card!Unqueued,
     Card!Outdate, Card!Edit, Card!Save, Card!Touch, Card!Parse, Card!TakeParse,
     Card!Schedule, Card!TakeProfile, Card!Moved, Card!Begin, Card!Generate,
     Card!Finish, Card!Die, cardVars
<1> DEFINE Typed ==
      /\ paper' \in Card!Source /\ card' \in Card!Card
      /\ session' \in [Card!Sessions -> Card!Session]
      /\ jobs' \in [Card!Source -> Nat] /\ parses' \in Nat
      /\ saves' \in 0..MaxSaves /\ cardDeaths' \in 0..MaxCardDeaths
      /\ asked' \in 0..MaxRequests
<1>7. ASSUME NEW u \in Users, NEW force \in BOOLEAN, Card!Request(u, force) PROVE Typed
  BY <1>1, <1>2, <1>7, DecideTypes DEF Card!Request
<1>8. ASSUME NEW u \in Users, Card!View(u) PROVE Typed
  <2>1. [session[u] EXCEPT !.pc = "outdate", !.card = card] \in Card!Session
    BY <1>1, <1>2 DEF Card!Session
  <2>2. session' \in [Card!Sessions -> Card!Session]
    BY <1>1, <1>2, <1>8, <2>1 DEF Card!View
  <2> QED
    BY <1>1, <1>8, <2>2 DEF Card!View
<1>9. ASSUME NEW s \in Card!Sessions, Card!Pend(s) PROVE Typed
  BY <1>1, <1>9 DEF Card!Pend, Card!Commit, Card!Session
<1>10. ASSUME NEW s \in Card!Sessions, Card!Enqueue(s) PROVE Typed
  <2>1. session[s].card.profile.source \in Card!Source
    BY <1>5 DEF Card!Card, Card!Profile
  <2> HIDE DEF Card!Source
  <2>2. jobs' \in [Card!Source -> Nat]
    BY <1>1, <1>10, <2>1 DEF Card!Enqueue, Card!Wait
  <2>3. session' \in [Card!Sessions -> Card!Session]
    BY <1>1, <1>3, <1>10 DEF Card!Enqueue, Card!Done, Card!Goto, Card!Session
  <2> QED
    BY <1>1, <1>10, <2>2, <2>3 DEF Card!Enqueue
<1>11. ASSUME NEW s \in Card!Sessions, Card!Unqueued(s) PROVE Typed
  BY <1>1, <1>3, <1>4, <1>5, <1>11 DEF Card!Unqueued, Card!Done
<1>12. ASSUME NEW u \in Users, Card!Outdate(u) PROVE Typed
  BY <1>1, <1>2, <1>3, <1>4, <1>5, <1>12 DEF Card!Outdate, Card!Done
<1>13. ASSUME NEW s \in Card!Sessions, Card!Edit(s) PROVE Typed
  <2>1. [session[s] EXCEPT !.pc = "save", !.card = card] \in Card!Session
    BY <1>1 DEF Card!Session
  <2>2. session' \in [Card!Sessions -> Card!Session]
    BY <1>1, <1>13, <2>1 DEF Card!Edit
  <2> QED
    BY <1>1, <1>13, <2>2 DEF Card!Edit
<1>14. ASSUME NEW s \in Card!Sessions, Card!Save(s) PROVE Typed
  <2>1. [session[s].card EXCEPT !.text = saves] \in Card!Card
    BY <1>1, <1>5 DEF Card!Card
  <2> QED
    BY <1>1, <1>3, <1>14, <2>1 DEF Card!Save, Card!Done
<1>15. ASSUME Card!Touch PROVE Typed
  BY <1>1, <1>15 DEF Card!Touch, Card!Source
<1>16. ASSUME Card!Parse PROVE Typed
  <2>1. paper' \in Card!Source
    BY <1>1, <1>16 DEF Card!Parse, Card!Source
  <2> QED
    BY <1>1, <1>2, <1>16, <2>1 DEF Card!Parse, Card!Session
<1>17. ASSUME Card!TakeParse PROVE Typed
  <2>1. session' \in [Card!Sessions -> Card!Session]
    BY <1>1, <1>2, <1>17 DEF Card!TakeParse, Card!Session
  <2> QED
    BY <1>1, <1>17, <2>1 DEF Card!TakeParse
<1>18. ASSUME Card!Schedule PROVE Typed
  BY <1>1, <1>2, <1>18, DecideTypes DEF Card!Schedule
<1>19. ASSUME Card!TakeProfile PROVE Typed
  <2>1. PICK source \in Card!Source :
          /\ jobs[source] > 0
          /\ jobs' = [jobs EXCEPT ![source] = @ - 1]
          /\ session' = [session EXCEPT ![Worker] =
               [pc |-> IF source = paper THEN "begin" ELSE "moved",
                card |-> IF source = paper /\ card.profile.status # "none" THEN card
                         ELSE [card EXCEPT !.profile.source = paper],
                job |-> "profile", expected |-> source]]
    BY <1>19 DEF Card!TakeProfile
  <2>2. jobs' \in [Card!Source -> Nat]
    BY <1>1, <2>1
  <2>3. [card EXCEPT !.profile.source = paper] \in Card!Card
    BY <1>1 DEF Card!Card, Card!Profile
  <2>4. session' \in [Card!Sessions -> Card!Session]
    BY <1>1, <1>2, <2>1, <2>3 DEF Card!Session
  <2> QED
    BY <1>1, <1>19, <2>2, <2>4 DEF Card!TakeProfile
<1>20. ASSUME Card!Moved PROVE Typed
  <2>1. card' \in Card!Card /\ card'.profile.source \in Card!Source
    BY <1>2, <1>4, <1>5, <1>20 DEF Card!Moved, Card!Card, Card!Profile
  <2>2. session' \in [Card!Sessions -> Card!Session]
    BY <1>1, <1>2, <1>20, <2>1, DecideTypes DEF Card!Moved
  <2> QED
    BY <1>1, <1>20, <2>1, <2>2 DEF Card!Moved
<1>21. ASSUME Card!Begin PROVE Typed
  <2>1. PICK c \in Card!Card :
          card' = c /\ session' = [session EXCEPT ![Worker].card = c, ![Worker].pc = "generate"]
    BY <1>2, <1>4, <1>5, <1>21 DEF Card!Begin, Card!Commit
  <2>2. session' \in [Card!Sessions -> Card!Session]
    BY <1>1, <2>1 DEF Card!Session
  <2> QED
    BY <1>1, <1>21, <2>1, <2>2 DEF Card!Begin
<1>22. ASSUME Card!Generate PROVE Typed
  <2> DEFINE s == session[Worker]
             done == [s EXCEPT !.pc = "finish",
                        !.card = Card!WithStatus([s.card EXCEPT !.profile.source = s.expected], "ready")]
             failed == [s EXCEPT !.pc = "finish", !.card = Card!WithStatus(s.card, "failed")]
  <2>1. [s.card EXCEPT !.profile.source = s.expected] \in Card!Card
    BY <1>2, <1>5 DEF Card!Card, Card!Profile
  <2>2. done \in Card!Session /\ failed \in Card!Session
    BY <1>1, <1>2, <1>4, <1>5, <2>1 DEF Card!Session
  <2>3. session' = [session EXCEPT ![Worker] = done] \/ session' = [session EXCEPT ![Worker] = failed]
    BY <1>1, <1>2, <1>22 DEF Card!Generate, Card!Session
  <2> QED
    BY <1>1, <1>2, <1>22, <2>2, <2>3 DEF Card!Generate
<1>23. ASSUME Card!Finish PROVE Typed
  BY <1>1, <1>2, <1>3, <1>5, <1>23 DEF Card!Finish, Card!Done
<1>24. ASSUME Card!Die PROVE Typed
  <2>1. jobs' \in [Card!Source -> Nat]
    BY <1>1, <1>2, <1>5, <1>24 DEF Card!Die, Card!Wait
  <2> QED
    BY <1>1, <1>2, <1>3, <1>24, <2>1 DEF Card!Die, Card!Done
<1>25. ASSUME UNCHANGED cardVars PROVE Typed
  BY <1>1, <1>25 DEF cardVars
<1>26. Typed
  BY <1>2, <1>7, <1>8, <1>9, <1>10, <1>11, <1>12, <1>13, <1>14, <1>15, <1>16, <1>17,
     <1>18, <1>19, <1>20, <1>21, <1>22, <1>23, <1>24, <1>25
  DEF Card!CardNext, Card!WorkerStep, Card!Continue, Card!UserStep, Card!Arrive
<1> QED
  BY <1>6, <1>26 DEF Card!CardTypeOK

(* Somebody brings about a profile in the making. *)
Attended ==
  \/ spoilt
  \/ \E source \in Card!Source : jobs[source] > 0
  \/ session[Worker].job = "profile"
  \/ \E s \in Card!Sessions : session[s].pc \in {"enqueue", "unqueued"}

(* Every step keeps WorkerPlaces, and attends to a profile that it leaves  *)
(* in the making.                                                          *)
LEMMA ProfileStep ==
  ASSUME ProfileInv, [Card!CardNext]_cardVars
  PROVE  WorkerPlaces' /\ (Card!InTheMaking' => Attended')
<1> USE CardNumbers
<1> DEFINE Kept == WorkerPlaces' /\ (Card!InTheMaking' => Attended')
           Making(c) == c.profile.status \in {"pending", "generating"}
<1>1. /\ card \in Card!Card /\ session \in [Card!Sessions -> Card!Session]
      /\ jobs \in [Card!Source -> Nat] /\ WorkerPlaces
      /\ Making(card) => Attended
  BY DEF ProfileInv, Card!CardTypeOK, Card!ProfileIsAttended, Card!InTheMaking, Attended
<1>2. /\ Worker \in Card!Sessions /\ Users \subseteq Card!Sessions
      /\ \A u \in Users : u # Worker
  BY DEF Card!Sessions
<1>3. \A s \in Card!Sessions :
        session[s].card.profile.source \in Card!Source /\ session[s].expected \in Card!Source
  BY <1>1 DEF Card!Session, Card!Card, Card!Profile
<1>4. \A c : /\ ~Making(Card!WithStatus(c, "failed")) \/ c \notin Card!Card
             /\ ~Making(Card!WithStatus(c, "stale")) \/ c \notin Card!Card
  BY DEF Card!WithStatus, Card!Card, Card!Profile
<1>5. \A s \in Card!Sessions : session[s].card \in Card!Card
  BY <1>1 DEF Card!Session
<1>6. Card!NoSession.pc = "idle" /\ Card!NoSession.job = "none"
  BY DEF Card!NoSession
<1> HIDE DEF Making
(* A step that does not start a profile, leaves the jobs alone, and of the *)
(* sessions changes only one that has nothing to attend to.                *)
<1>7. ASSUME Making(card') => Making(card), UNCHANGED jobs, spoilt => spoilt',
             NEW s \in Card!Sessions,
             \A t \in Card!Sessions \ {s} : session'[t] = session[t],
             session[s].pc \notin {"enqueue", "unqueued"},
             s = Worker /\ session[s].job = "profile" => session'[s].job = "profile"
      PROVE  Card!InTheMaking' => Attended'
  <2> SUFFICES ASSUME Making(card) PROVE Attended'
    BY <1>7 DEF Card!InTheMaking, Making
  <2> QED
    BY <1>1, <1>2, <1>7 DEF Attended
<1>8. ASSUME NEW s \in Users, \A t \in Card!Sessions \ {s} : session'[t] = session[t]
      PROVE  WorkerPlaces'
  BY <1>1, <1>2, <1>8 DEF WorkerPlaces
<1>9. ASSUME NEW s \in Card!Sessions, NEW c, NEW source, NEW force,
             Card!Decide(s, c, source, force)
      PROVE  /\ \A t \in Card!Sessions \ {s} : session'[t] = session[t]
             /\ \/ session'[s].pc = "pend" /\ session'[s].job = session[s].job
                \/ session'[s].pc = "idle" /\ session'[s].job = "none"
  BY <1>1, <1>6, <1>9 DEF Card!Decide, Card!Done, Card!Session
<1>10. ASSUME ~Making(card') PROVE Card!InTheMaking' => Attended'
  BY <1>10 DEF Card!InTheMaking, Making
<1>11. ASSUME NEW s \in Card!Sessions, Card!Done(s)
       PROVE  /\ \A t \in Card!Sessions \ {s} : session'[t] = session[t]
              /\ session'[s] = Card!NoSession
              /\ WorkerPlaces'
  BY <1>1, <1>2, <1>6, <1>11 DEF Card!Done, WorkerPlaces
<1>12. ASSUME NEW u \in Users, NEW force \in BOOLEAN, Card!Request(u, force) PROVE Kept
  <2>1. /\ session[u].pc = "idle" /\ UNCHANGED <<card, jobs, spoilt>>
        /\ Card!Decide(u, card, paper, force)
    BY <1>12 DEF Card!Request, Card!In
  <2>2. \A t \in Card!Sessions \ {u} : session'[t] = session[t]
    BY <1>2, <1>9, <2>1
  <2> QED
    BY <1>2, <1>7, <1>8, <2>1, <2>2
<1>13. ASSUME NEW u \in Users, Card!View(u) PROVE Kept
  <2>1. /\ session[u].pc = "idle" /\ UNCHANGED <<card, jobs, spoilt>>
        /\ \A t \in Card!Sessions \ {u} : session'[t] = session[t]
    BY <1>1, <1>13 DEF Card!View, Card!In
  <2> QED
    BY <1>2, <1>7, <1>8, <2>1
<1>14. ASSUME NEW s \in Card!Sessions, Card!Edit(s) PROVE Kept
  <2>1. /\ session[s].pc = "idle" /\ UNCHANGED <<card, jobs, spoilt>>
        /\ \A t \in Card!Sessions \ {s} : session'[t] = session[t]
        /\ session'[s].pc = "save" /\ session'[s].job = session[s].job
    BY <1>1, <1>14 DEF Card!Edit, Card!In, Card!Session
  <2>2. WorkerPlaces'
    BY <1>1, <1>2, <2>1 DEF WorkerPlaces
  <2> QED
    BY <1>7, <2>1, <2>2
<1>15. ASSUME NEW s \in Card!Sessions, Card!Pend(s) PROVE Kept
  <2>1. /\ session[s].pc = "pend"
        /\ \A t \in Card!Sessions \ {s} : session'[t] = session[t]
        /\ session'[s].pc = "enqueue" /\ session'[s].job = session[s].job
    BY <1>1, <1>15 DEF Card!Pend, Card!Commit, Card!In, Card!Session
  <2>2. WorkerPlaces'
    BY <1>1, <1>2, <2>1 DEF WorkerPlaces
  <2> QED
    BY <2>1, <2>2 DEF Attended
<1>16. ASSUME NEW s \in Card!Sessions, Card!Enqueue(s) PROVE Kept
  <2>1. CASE Card!Wait(session[s].card.profile.source) /\ Card!Done(s)
    <3>1. \E source \in Card!Source : jobs'[source] > 0
      BY <1>1, <1>3, <2>1 DEF Card!Wait
    <3> QED
      BY <1>11, <2>1, <3>1 DEF Attended
  <2>2. CASE Card!Goto(s, "unqueued")
    <3>1. /\ \A t \in Card!Sessions \ {s} : session'[t] = session[t]
          /\ session'[s].pc = "unqueued" /\ session'[s].job = session[s].job
      BY <1>1, <2>2 DEF Card!Goto, Card!Session
    <3>2. WorkerPlaces'
      BY <1>1, <1>2, <1>16, <3>1 DEF WorkerPlaces, Card!Enqueue, Card!In
    <3> QED
      BY <3>1, <3>2 DEF Attended
  <2> QED
    BY <1>16, <2>1, <2>2 DEF Card!Enqueue
<1>17. ASSUME NEW s \in Card!Sessions, Card!Unqueued(s) PROVE Kept
  BY <1>4, <1>5, <1>10, <1>11, <1>17 DEF Card!Unqueued
<1>18. ASSUME NEW u \in Users, Card!Outdate(u) PROVE Kept
  BY <1>2, <1>4, <1>5, <1>10, <1>11, <1>18 DEF Card!Outdate
<1>19. ASSUME NEW s \in Card!Sessions, Card!Save(s) PROVE Kept
  <2>1. /\ session[s].pc = "save" /\ UNCHANGED jobs
        /\ card' = [session[s].card EXCEPT !.text = saves]
        /\ spoilt' = (spoilt \/ session[s].card.profile # card.profile)
        /\ Card!Done(s)
    BY <1>19 DEF Card!Save, Card!In
  <2>2. CASE session[s].card.profile # card.profile
    BY <1>11, <2>1, <2>2 DEF Attended
  <2>3. CASE session[s].card.profile = card.profile
    <3>1. Making(card') => Making(card)
      BY <1>5, <2>1, <2>3 DEF Making, Card!Card
    <3>2. s = Worker => session[s].job # "profile"
      BY <1>1, <2>1 DEF WorkerPlaces
    <3> QED
      BY <1>7, <1>11, <2>1, <3>1, <3>2
  <2> QED
    BY <2>2, <2>3
<1>20. ASSUME Card!Touch \/ UNCHANGED cardVars PROVE Kept
  <2>1. UNCHANGED <<card, jobs, spoilt, session>>
    BY <1>20 DEF Card!Touch, cardVars
  <2>2. WorkerPlaces'
    BY <1>1, <2>1 DEF WorkerPlaces
  <2>3. Card!InTheMaking' => Attended'
    BY <1>1, <2>1 DEF Attended, Making, Card!InTheMaking
  <2> QED
    BY <2>2, <2>3
<1>21. ASSUME Card!Parse \/ Card!TakeParse PROVE Kept
  <2>1. /\ session[Worker].pc = "idle" /\ UNCHANGED <<card, jobs, spoilt>>
        /\ \A t \in Card!Sessions \ {Worker} : session'[t] = session[t]
        /\ session'[Worker].pc = "schedule" /\ session'[Worker].job = "parse"
    BY <1>1, <1>2, <1>21 DEF Card!Parse, Card!TakeParse, Card!In, Card!Session
  <2>2. WorkerPlaces' /\ session[Worker].job # "profile"
    BY <1>1, <2>1 DEF WorkerPlaces
  <2> QED
    BY <1>2, <1>7, <2>1, <2>2
<1>22. ASSUME Card!Schedule PROVE Kept
  <2>1. /\ session[Worker].pc = "schedule" /\ UNCHANGED <<card, jobs, spoilt>>
        /\ Card!Decide(Worker, card, paper, TRUE)
    BY <1>22 DEF Card!Schedule, Card!In
  <2>2. session[Worker].job = "parse"
    BY <1>1, <2>1 DEF WorkerPlaces
  <2>3. WorkerPlaces' /\ \A t \in Card!Sessions \ {Worker} : session'[t] = session[t]
    BY <1>2, <1>9, <2>1, <2>2 DEF WorkerPlaces
  <2> QED
    BY <1>2, <1>7, <2>1, <2>2, <2>3
<1>23. ASSUME Card!TakeProfile PROVE Kept
  <2>1. session'[Worker].job = "profile" /\ session'[Worker].pc \in {"begin", "moved"}
    BY <1>1, <1>2, <1>23 DEF Card!TakeProfile
  <2> QED
    BY <2>1 DEF Attended, WorkerPlaces
<1>24. ASSUME Card!Moved PROVE Kept
  <2>1. ~Making(card') /\ session[Worker].job = "profile"
    BY <1>1, <1>2, <1>4, <1>5, <1>24 DEF Card!Moved, Card!In, WorkerPlaces
  <2>2. WorkerPlaces'
    BY <1>2, <1>9, <1>24, <2>1 DEF Card!Moved, WorkerPlaces
  <2> QED
    BY <1>10, <2>1, <2>2
<1>25. ASSUME Card!Begin PROVE Kept
  <2>1. session'[Worker].job = session[Worker].job /\ session'[Worker].pc = "generate"
    BY <1>1, <1>2, <1>25 DEF Card!Begin, Card!Commit, Card!Session
  <2>2. session[Worker].job = "profile"
    BY <1>1, <1>25 DEF Card!Begin, Card!In, WorkerPlaces
  <2> QED
    BY <2>1, <2>2 DEF Attended, WorkerPlaces
<1>26. ASSUME Card!Generate PROVE Kept
  <2>1. session[Worker].job = "profile"
    BY <1>1, <1>26 DEF Card!Generate, Card!In, WorkerPlaces
  <2>2. /\ session'[Worker].job = "profile" /\ session'[Worker].pc = "finish"
        /\ session'[Worker].card.profile.status \in {"ready", "failed"}
    <3> DEFINE s == session[Worker]
    <3>1. \A c \in Card!Card : \A mark :
            Card!WithStatus(c, mark).profile.status = mark
      BY DEF Card!WithStatus, Card!Card, Card!Profile
    <3>2. [s.card EXCEPT !.profile.source = s.expected] \in Card!Card
      BY <1>2, <1>3, <1>5 DEF Card!Card, Card!Profile
    <3>3. \E c \in Card!Card, mark \in {"ready", "failed"} :
            session' = [session EXCEPT ![Worker] =
              [s EXCEPT !.pc = "finish", !.card = Card!WithStatus(c, mark)]]
      BY <1>1, <1>2, <1>5, <1>26, <3>2 DEF Card!Generate, Card!Session
    <3> QED
      BY <1>1, <1>2, <2>1, <3>1, <3>3 DEF Card!Session
  <2> QED
    BY <2>2 DEF Attended, WorkerPlaces
<1>27. ASSUME Card!Finish PROVE Kept
  <2>1. ~Making(card')
    BY <1>1, <1>27 DEF Card!Finish, Card!In, WorkerPlaces, Making
  <2> QED
    BY <1>2, <1>10, <1>11, <1>27, <2>1 DEF Card!Finish
<1>28. ASSUME Card!Die PROVE Kept
  <2>1. WorkerPlaces' /\ \A t \in Card!Sessions \ {Worker} : session'[t] = session[t]
    BY <1>2, <1>11, <1>28 DEF Card!Die
  <2>2. CASE session[Worker].job = "profile"
    <3>1. \E source \in Card!Source : jobs'[source] > 0
      BY <1>1, <1>2, <1>3, <1>28, <2>2 DEF Card!Die, Card!Wait
    <3> QED
      BY <2>1, <3>1 DEF Attended
  <2>3. CASE session[Worker].job = "parse" /\ session[Worker].pc \in {"enqueue", "unqueued"}
    BY <1>28, <2>1, <2>3 DEF Card!Die, Attended
  <2>4. CASE session[Worker].job # "profile" /\ session[Worker].pc \notin {"enqueue", "unqueued"}
    <3>1. UNCHANGED <<card, jobs>> /\ (spoilt => spoilt')
      BY <1>28, <2>4 DEF Card!Die
    <3> QED
      BY <1>2, <1>7, <2>1, <2>4, <3>1
  <2>5. session[Worker].job \in {"none", "parse", "profile"}
    BY <1>1, <1>2 DEF Card!Session
  <2> QED
    BY <1>1, <2>2, <2>3, <2>4, <2>5 DEF WorkerPlaces
<1> QED
  BY <1>2, <1>12, <1>13, <1>14, <1>15, <1>16, <1>17, <1>18, <1>19, <1>20, <1>21,
     <1>22, <1>23, <1>24, <1>25, <1>26, <1>27, <1>28
  DEF Card!CardNext, Card!WorkerStep, Card!Continue, Card!UserStep, Card!Arrive

LEMMA ProfileInvariant == Spec => []ProfileInv
<1>1. ProfileInv /\ [Next]_vars => ProfileInv'
  BY StepOfEach, CardTypesStep, ProfileStep
  DEF ProfileInv, Attended, Card!ProfileIsAttended
<1> QED
  BY <1>1, ProfileInit, PTL DEF Spec

-----------------------------------------------------------------------------
(* ProjectPreferences *)

(* The imports of a copy of the preferences: one entry each. *)
OneEntry(c) ==
  \A i, j \in DOMAIN c.imports : c.imports[i].paper = c.imports[j].paper => i = j

LEMMA CopyTypes ==
  ASSUME NEW c \in Prefs!Prefs
  PROVE  /\ c.imports \in Seq(Prefs!Entry) /\ Len(c.imports) \in Nat
         /\ DOMAIN c.imports = 1..Len(c.imports)
         /\ \A i \in 1..Len(c.imports) : c.imports[i] \in Prefs!Entry
         /\ \A s \in Seq(Prefs!Entry) : /\ [c EXCEPT !.imports = s] \in Prefs!Prefs
                                        /\ [c EXCEPT !.imports = s].imports = s
BY DEF Prefs!Prefs

(* Sequences without one of their elements, or with a new one at the end,  *)
(* of which only the last ones stay.                                       *)
LEMMA RemovedAt ==
  ASSUME NEW S, NEW s \in Seq(S), NEW k \in 1..Len(s)
  PROVE  LET t == Prefs!RemoveAt(s, k) IN
         /\ t \in Seq(S) /\ Len(t) = Len(s) - 1
         /\ \A i \in 1..Len(t) : t[i] = IF i < k THEN s[i] ELSE s[i + 1]
<1> DEFINE a == SubSeq(s, 1, k - 1)
           b == SubSeq(s, k + 1, Len(s))
<1>1. a \in Seq(S) /\ Len(a) = k - 1 /\ \A i \in 1..(k - 1) : a[i] = s[i]
  OBVIOUS
<1>2. /\ b \in Seq(S) /\ Len(b) = Len(s) - k
      /\ \A i \in 1..(Len(s) - k) : b[i] = s[k + i]
  OBVIOUS
<1>3. Prefs!RemoveAt(s, k) = a \o b
  BY DEF Prefs!RemoveAt
<1> HIDE DEF a, b
<1>4. /\ a \o b \in Seq(S) /\ Len(a \o b) = Len(s) - 1
      /\ \A i \in 1..(Len(s) - 1) : (a \o b)[i] = IF i <= Len(a) THEN a[i] ELSE b[i - Len(a)]
  BY <1>1, <1>2, ConcatProperties
<1>5. ASSUME NEW i \in 1..(Len(s) - 1)
      PROVE  (a \o b)[i] = IF i < k THEN s[i] ELSE s[i + 1]
  <2>1. CASE i < k
    BY <1>1, <1>4, <2>1
  <2>2. CASE ~(i < k)
    <3>1. i - Len(a) \in 1..(Len(s) - k) /\ k + (i - Len(a)) = i + 1
      BY <1>1, <2>2
    <3> QED
      BY <1>1, <1>2, <1>4, <2>2, <3>1
  <2> QED
    BY <2>1, <2>2
<1> QED
  BY <1>3, <1>4, <1>5

(* Entries by their places. *)
LEMMA EntriesByPlace ==
  ASSUME NEW c \in Prefs!Prefs
  PROVE  /\ \A i \in 1..Len(c.imports) : c.imports[i] \in Prefs!Entries(c)
         /\ \A e \in Prefs!Entries(c) : \E i \in 1..Len(c.imports) : e = c.imports[i]
         /\ OneEntry(c) <=> \A i, j \in 1..Len(c.imports) :
                              c.imports[i].paper = c.imports[j].paper => i = j
BY CopyTypes DEF Prefs!Entries, OneEntry

(* A copy whose imports are some of another one's, at other places. *)
LEMMA PartOfCopy ==
  ASSUME NEW c \in Prefs!Prefs, NEW w \in Prefs!Prefs,
         NEW place \in [1..Len(w.imports) -> 1..Len(c.imports)],
         \A i \in 1..Len(w.imports) : w.imports[i] = c.imports[place[i]],
         \A i, j \in 1..Len(w.imports) : place[i] = place[j] => i = j
  PROVE  /\ Prefs!Entries(w) \subseteq Prefs!Entries(c)
         /\ OneEntry(c) => OneEntry(w)
<1>1. ASSUME NEW e \in Prefs!Entries(w) PROVE e \in Prefs!Entries(c)
  <2>1. PICK i \in 1..Len(w.imports) : e = w.imports[i]
    BY <1>1, EntriesByPlace
  <2>2. place[i] \in 1..Len(c.imports) /\ e = c.imports[place[i]]
    BY <2>1
  <2> QED
    BY <2>2, EntriesByPlace
<1>2. ASSUME OneEntry(c) PROVE OneEntry(w)
  <2>1. \A i, j \in 1..Len(c.imports) : c.imports[i].paper = c.imports[j].paper => i = j
    BY <1>2, EntriesByPlace
  <2>2. ASSUME NEW i \in 1..Len(w.imports), NEW j \in 1..Len(w.imports),
               w.imports[i].paper = w.imports[j].paper
        PROVE  i = j
    <3>1. /\ place[i] \in 1..Len(c.imports) /\ w.imports[i] = c.imports[place[i]]
          /\ place[j] \in 1..Len(c.imports) /\ w.imports[j] = c.imports[place[j]]
      OBVIOUS
    <3>2. place[i] = place[j]
      BY <2>1, <2>2, <3>1
    <3> QED
      BY <3>2
  <2> QED
    BY <2>2, EntriesByPlace
<1> QED
  BY <1>1, <1>2

(* What a change of the imports leaves. *)
LEMMA StatusOfCopy ==
  ASSUME NEW c \in Prefs!Prefs, NEW p, NEW mark \in Prefs!Statuses
  PROVE  /\ Prefs!WithStatus(c, p, mark) \in Prefs!Prefs
         /\ OneEntry(c) => OneEntry(Prefs!WithStatus(c, p, mark))
         /\ \A e \in Prefs!Entries(Prefs!WithStatus(c, p, mark)) :
              IF e.paper = p
              THEN e.status = mark /\ \E f \in Prefs!Entries(c) : f.paper = p
              ELSE e \in Prefs!Entries(c)
         /\ \A e \in Prefs!Entries(c) : e.paper = p =>
              \E f \in Prefs!Entries(Prefs!WithStatus(c, p, mark)) : f.paper = p
         /\ \A e \in Prefs!Entries(Prefs!WithStatus(c, p, mark)) :
              \E f \in Prefs!Entries(c) : f.paper = e.paper /\ f.preprint = e.preprint
<1> DEFINE s == c.imports
           Change(e) == IF e.paper = p THEN [e EXCEPT !.status = mark] ELSE e
           t == [i \in DOMAIN s |-> Change(s[i])]
<1>1. /\ s \in Seq(Prefs!Entry) /\ Len(s) \in Nat /\ DOMAIN s = 1..Len(s)
      /\ \A i \in 1..Len(s) : s[i] \in Prefs!Entry
  BY CopyTypes
<1>2. \A e \in Prefs!Entry :
        /\ Change(e) \in Prefs!Entry /\ Change(e).paper = e.paper
        /\ Change(e).preprint = e.preprint
        /\ e.paper = p => Change(e).status = mark
        /\ e.paper # p => Change(e) = e
  BY DEF Prefs!Entry
<1> HIDE DEF Change
<1>3. t \in Seq(Prefs!Entry) /\ DOMAIN t = DOMAIN s /\ \A i \in DOMAIN s : t[i] = Change(s[i])
  BY <1>1, <1>2
<1>4. Prefs!WithStatus(c, p, mark) = [c EXCEPT !.imports = t]
  BY <1>1 DEF Prefs!WithStatus, Prefs!Prefs, Change
<1> HIDE DEF t
<1>5. Prefs!WithStatus(c, p, mark) \in Prefs!Prefs /\ Prefs!WithStatus(c, p, mark).imports = t
  BY <1>3, <1>4, CopyTypes
<1> QED
  BY <1>1, <1>2, <1>3, <1>5 DEF OneEntry, Prefs!Entries

LEMMA CopyWithout ==
  ASSUME NEW c \in Prefs!Prefs, NEW p
  PROVE  /\ Prefs!Without(c, p) \in Prefs!Prefs
         /\ Prefs!Entries(Prefs!Without(c, p)) \subseteq Prefs!Entries(c)
         /\ OneEntry(c) => OneEntry(Prefs!Without(c, p))
         /\ OneEntry(c) => Prefs!Entries(Prefs!Without(c, p)) =
                             {e \in Prefs!Entries(c) : e.paper # p}
<1> DEFINE s == c.imports
           at == {i \in DOMAIN s : s[i].paper = p}
           k == CHOOSE i \in at : TRUE
           t == Prefs!RemoveAt(s, k)
           w == Prefs!Without(c, p)
<1>1. /\ s \in Seq(Prefs!Entry) /\ Len(s) \in Nat /\ DOMAIN s = 1..Len(s)
      /\ \A i \in 1..Len(s) : s[i] \in Prefs!Entry
  BY CopyTypes
<1>2. CASE at = {}
  <2>1. w = [c EXCEPT !.imports = s]
    BY <1>2 DEF Prefs!Without, Prefs!Prefs
  <2>2. w \in Prefs!Prefs /\ w.imports = s
    BY <1>1, <2>1, CopyTypes
  <2> QED
    BY <1>2, <2>2 DEF OneEntry, Prefs!Entries
<1>3. CASE at # {}
  <2>1. w = [c EXCEPT !.imports = t]
    BY <1>3 DEF Prefs!Without, Prefs!Prefs
  <2>2. k \in 1..Len(s) /\ s[k].paper = p
    BY <1>1, <1>3
  <2> HIDE DEF k
  <2>3. /\ t \in Seq(Prefs!Entry) /\ Len(t) = Len(s) - 1
        /\ \A i \in 1..Len(t) : t[i] = IF i < k THEN s[i] ELSE s[i + 1]
    BY <1>1, <2>2, RemovedAt
  <2> HIDE DEF t
  <2>4. w \in Prefs!Prefs /\ w.imports = t
    BY <2>1, <2>3, CopyTypes
  <2> DEFINE place == [i \in 1..Len(t) |-> IF i < k THEN i ELSE i + 1]
  <2> HIDE DEF w, s
  <2>5. /\ place \in [1..Len(t) -> 1..Len(s)]
        /\ \A i \in 1..Len(t) : t[i] = s[place[i]] /\ place[i] # k
        /\ \A i, j \in 1..Len(t) : place[i] = place[j] => i = j
    BY <1>1, <2>2, <2>3
  <2> HIDE DEF place
  <2>6. /\ Prefs!Entries(w) \subseteq Prefs!Entries(c)
        /\ OneEntry(c) => OneEntry(w)
    BY <2>4, <2>5, PartOfCopy DEF s
  <2>7. ASSUME OneEntry(c) PROVE Prefs!Entries(w) = {e \in Prefs!Entries(c) : e.paper # p}
    <3>1. ASSUME NEW e \in Prefs!Entries(w) PROVE e.paper # p
      <4>1. PICK j \in 1..Len(t) : e = t[j]
        BY <2>4, EntriesByPlace
      <4>2. /\ e = s[place[j]] /\ place[j] # k /\ place[j] \in 1..Len(s)
            /\ \A i, l \in 1..Len(s) : s[i].paper = s[l].paper => i = l
        <5>1. \A i, l \in 1..Len(s) : s[i].paper = s[l].paper => i = l
          BY <2>7, EntriesByPlace DEF s
        <5>2. place[j] \in 1..Len(s)
          BY <2>5
        <5> QED
          BY <2>5, <4>1, <5>1, <5>2
      <4> QED
        BY <2>2, <4>2
    <3>2. ASSUME NEW e \in Prefs!Entries(c), e.paper # p PROVE e \in Prefs!Entries(w)
      <4>1. PICK i \in 1..Len(s) : e = s[i] /\ i # k
        BY <2>2, <3>2, EntriesByPlace DEF s
      <4>2. \E j \in 1..Len(t) : t[j] = e
        <5>1. CASE i < k
          BY <1>1, <2>2, <2>3, <4>1, <5>1
        <5>2. CASE i > k
          <6>1. i - 1 \in 1..Len(t) /\ t[i - 1] = e
            BY <1>1, <2>2, <2>3, <4>1, <5>2
          <6> QED
            BY <6>1
        <5> QED
          BY <1>1, <2>2, <4>1, <5>1, <5>2
      <4> QED
        BY <2>4, <4>2, EntriesByPlace
    <3> QED
      BY <2>6, <3>1, <3>2
  <2> QED
    BY <2>4, <2>6, <2>7 DEF w
<1> QED
  BY <1>2, <1>3

LEMMA CopyWith ==
  ASSUME NEW c \in Prefs!Prefs, NEW entry \in Prefs!Entry
  PROVE  /\ Prefs!With(c, entry) \in Prefs!Prefs
         /\ Prefs!Entries(Prefs!With(c, entry)) \subseteq Prefs!Entries(c) \union {entry}
         /\ entry \in Prefs!Entries(Prefs!With(c, entry))
         /\ OneEntry(c) /\ (\A e \in Prefs!Entries(c) : e.paper # entry.paper)
              => OneEntry(Prefs!With(c, entry))
<1> DEFINE s == c.imports
           all == Append(s, entry)
           first == IF Len(all) > MaxKept THEN Len(all) - MaxKept + 1 ELSE 1
           t == SubSeq(all, first, Len(all))
           w == Prefs!With(c, entry)
<1>1. /\ s \in Seq(Prefs!Entry) /\ Len(s) \in Nat /\ DOMAIN s = 1..Len(s)
      /\ \A i \in 1..Len(s) : s[i] \in Prefs!Entry
  BY CopyTypes
<1>2. /\ all \in Seq(Prefs!Entry) /\ Len(all) = Len(s) + 1
      /\ \A i \in 1..Len(all) : all[i] = IF i = Len(all) THEN entry ELSE s[i]
  BY <1>1
<1>3. MaxKept \in Nat \ {0}
  BY ServicesAssumption DEF Prefs!PreferencesAssumption
<1>4. first \in 1..Len(all)
  BY <1>1, <1>2, <1>3
<1>5. w = [c EXCEPT !.imports = t]
  BY DEF Prefs!With, Prefs!Prefs
<1> HIDE DEF first, all
<1>6. /\ t \in Seq(Prefs!Entry) /\ Len(t) = Len(all) - first + 1 /\ DOMAIN t = 1..Len(t)
      /\ \A i \in 1..Len(t) : t[i] = all[first + i - 1]
  BY <1>1, <1>2, <1>4
<1> HIDE DEF t
<1>7. w \in Prefs!Prefs /\ w.imports = t
  BY <1>5, <1>6, CopyTypes
<1> HIDE DEF w, s
<1>8. Prefs!Entries(w) \subseteq Prefs!Entries(c) \union {entry}
  <2> SUFFICES ASSUME NEW e \in Prefs!Entries(w), e # entry
               PROVE  e \in Prefs!Entries(c)
    OBVIOUS
  <2>1. PICK i \in 1..Len(t) : e = t[i]
    BY <1>7, EntriesByPlace
  <2>2. PICK l \in 1..Len(all) : e = all[l]
    <3>1. first + i - 1 \in 1..Len(all)
      BY <1>1, <1>2, <1>4, <1>6
    <3> QED
      BY <1>6, <2>1, <3>1
  <2>3. l # Len(all) /\ l \in 1..Len(s)
    BY <1>1, <1>2, <2>2
  <2> QED
    BY <1>2, <2>2, <2>3, EntriesByPlace DEF s
<1>9. entry \in Prefs!Entries(w)
  <2>1. Len(t) \in 1..Len(t) /\ t[Len(t)] = entry
    BY <1>1, <1>2, <1>4, <1>6
  <2> QED
    BY <1>7, <2>1, EntriesByPlace
<1>10. ASSUME OneEntry(c), \A e \in Prefs!Entries(c) : e.paper # entry.paper
      PROVE  OneEntry(w)
  <2>1. /\ \A i, j \in 1..Len(s) : s[i].paper = s[j].paper => i = j
        /\ \A i \in 1..Len(s) : s[i].paper # entry.paper
    BY <1>10, EntriesByPlace DEF s
  <2>2. ASSUME NEW i \in 1..Len(all), NEW j \in 1..Len(all), all[i].paper = all[j].paper
        PROVE  i = j
    <3>1. \A l \in 1..Len(all) : l # Len(all) => l \in 1..Len(s)
      BY <1>1, <1>2
    <3> QED
      BY <1>2, <2>1, <2>2, <3>1
  <2>3. ASSUME NEW i \in 1..Len(t), NEW j \in 1..Len(t), t[i].paper = t[j].paper
        PROVE  i = j
    <3>1. first + i - 1 \in 1..Len(all) /\ first + j - 1 \in 1..Len(all)
      BY <1>1, <1>2, <1>4, <1>6
    <3>2. first + i - 1 = first + j - 1
      BY <1>6, <2>2, <2>3, <3>1
    <3> QED
      BY <1>4, <3>2
  <2> QED
    BY <1>7, <2>3, EntriesByPlace
<1> QED
  BY <1>7, <1>8, <1>9, <1>10 DEF w

-----------------------------------------------------------------------------
(* What every copy of the preferences has: one entry of an import that was *)
(* asked for, and "ready" only of a paper that was linked.                 *)
Whole(c, names, ready) ==
  /\ OneEntry(c)
  /\ \A e \in Prefs!Entries(c) :
       e.paper \in names /\ (e.status = "ready" => e.paper \in ready)

Copies ==
  /\ Whole(prefs, taken, linked \union deleted)
  /\ Whole(import.copy, taken, linked \union deleted)
  /\ \A m \in Members : Whole(request[m].copy, taken, linked \union deleted)
  /\ import.status = "ready" => import.paper \in linked \union deleted

(* A request on its way to a job has a paper of its own. *)
Opening(m) == request[m].pc \in {"record", "enqueue"}

Fresh ==
  /\ waiting \subseteq taken /\ (import.pc # "idle" => import.paper \in taken)
  /\ \A m \in Members : Opening(m) =>
       /\ request[m].paper \in taken \ waiting
       /\ import.pc # "idle" => request[m].paper # import.paper
       /\ \A n \in Members : Opening(n) /\ request[n].paper = request[m].paper => n = m

(* Nothing of the paper is under way that was not put back. *)
Through(p) ==
  \A e \in Prefs!Entries(prefs) : e.paper = p /\ Prefs!UnderWayEntry(e) => p \in stuck

(* What the worker is about to commit, and that nothing is under way when  *)
(* it acknowledges its job or has no entry to change.                      *)
Marks ==
  /\ import.pc \in {"mark", "commit"} => import.status \in {"processing", "ready", "failed"}
  /\ import.pc = "commit" =>
       /\ \A e \in Prefs!Entries(import.copy) :
            e.paper = import.paper => e.status = import.status
       /\ (\E e \in Prefs!Entries(import.copy) : e.paper = import.paper)
            \/ Through(import.paper)
  /\ import.pc = "ack" => Through(import.paper)

ImportInv == Prefs!PrefsTypeOK /\ Copies /\ Fresh /\ Marks /\ Prefs!ImportIsAttended

LEMMA PrefsNumbers ==
  /\ MaxWrites \in Nat /\ MaxImportDeaths \in Nat
  /\ (CHOOSE a \in Preprints : TRUE) \in Preprints
  /\ (CHOOSE p \in Papers : TRUE) \in Papers
BY ServicesAssumption DEF Prefs!PreferencesAssumption

LEMMA IdleTypes ==
  /\ Prefs!Nothing \in Prefs!Prefs /\ Prefs!Entries(Prefs!Nothing) = {}
  /\ Prefs!NoRequest \in Prefs!Request /\ Prefs!NoImport \in Prefs!Import
  /\ Prefs!NoRequest.pc = "idle" /\ Prefs!NoRequest.copy = Prefs!Nothing
  /\ Prefs!NoImport.pc = "idle" /\ Prefs!NoImport.copy = Prefs!Nothing
  /\ Prefs!NoImport.status = "queued"
<1> DEFINE a == CHOOSE a \in Preprints : TRUE
           p == CHOOSE p \in Papers : TRUE
<1>1. a \in Preprints /\ p \in Papers
  BY PrefsNumbers
<1>2. Prefs!Nothing \in Prefs!Prefs /\ Prefs!Entries(Prefs!Nothing) = {}
  BY DEF Prefs!Nothing, Prefs!Prefs, Prefs!Entries
<1>3. /\ Prefs!NoRequest = [pc |-> "idle", copy |-> Prefs!Nothing, preprint |-> a, paper |-> p]
      /\ Prefs!NoImport = [pc |-> "idle", copy |-> Prefs!Nothing, status |-> "queued",
                           paper |-> p]
  BY DEF Prefs!NoRequest, Prefs!NoImport
<1> HIDE DEF a, p
<1> QED
  BY <1>1, <1>2, <1>3 DEF Prefs!Request, Prefs!Import, Prefs!Statuses

LEMMA EntryTypes ==
  ASSUME NEW c \in Prefs!Prefs
  PROVE  \A e \in Prefs!Entries(c) : e \in Prefs!Entry /\ e.paper \in Papers
BY CopyTypes DEF Prefs!Entries, Prefs!Entry

LEMMA EmptyIsWhole == \A names, ready : Whole(Prefs!Nothing, names, ready)
BY DEF Whole, OneEntry, Prefs!Nothing, Prefs!Entries

LEMMA WholeGrows ==
  ASSUME NEW c, NEW names, NEW ready, NEW d, NEW moreNames, NEW moreReady,
         Whole(c, names, ready), names \subseteq moreNames, ready \subseteq moreReady,
         OneEntry(c) => OneEntry(d), Prefs!Entries(d) \subseteq Prefs!Entries(c)
  PROVE  Whole(d, moreNames, moreReady)
BY DEF Whole

LEMMA ImportInit ==
  ASSUME Init
  PROVE  ImportInv
<1> USE PrefsNumbers, IdleTypes
<1>1. Prefs!PrefsInit
  BY DEF Init
<1>2. Prefs!PrefsTypeOK
  BY <1>1 DEF Prefs!PrefsInit, Prefs!PrefsTypeOK
<1>3. Copies
  BY <1>1, EmptyIsWhole DEF Prefs!PrefsInit, Copies
<1>4. Fresh
  BY <1>1 DEF Prefs!PrefsInit, Fresh, Opening
<1>5. Marks
  BY <1>1 DEF Prefs!PrefsInit, Marks
<1>6. Prefs!ImportIsAttended
  BY <1>1 DEF Prefs!PrefsInit, Prefs!ImportIsAttended
<1> QED
  BY <1>2, <1>3, <1>4, <1>5, <1>6 DEF ImportInv

(* What a request decides: that there is a paper or an import already, or  *)
(* to import one under a new name.                                         *)
LEMMA Decision ==
  ASSUME Prefs!PrefsTypeOK, NEW m \in Members, Prefs!Decide(m)
  PROVE  /\ taken' \subseteq Papers /\ linked' \subseteq Papers
         /\ preprint' \in [Papers -> Preprints] /\ request' \in [Members -> Prefs!Request]
         /\ \/ /\ request' = [request EXCEPT ![m] = Prefs!NoRequest]
               /\ linked \subseteq linked' /\ taken' = taken
            \/ \E p \in Papers \ taken, c \in Prefs!Prefs : \E entry :
                 /\ taken' = taken \union {p} /\ linked' = linked
                 /\ request' = [request EXCEPT ![m] =
                                 [@ EXCEPT !.pc = "record", !.paper = p, !.copy = c]]
                 /\ entry.paper = p /\ entry.status = "queued"
                 /\ Prefs!Entries(c) \subseteq Prefs!Entries(request[m].copy) \union {entry}
                 /\ OneEntry(request[m].copy) /\
                    (\A e \in Prefs!Entries(request[m].copy) : e.paper # p) => OneEntry(c)
<1> USE PrefsNumbers, IdleTypes
<1> DEFINE a == request[m].preprint
           p == CHOOSE p \in Papers \ taken : TRUE
           entry == [preprint |-> a, paper |-> p, status |-> "queued"]
           c == Prefs!With(request[m].copy, entry)
<1>1. /\ request \in [Members -> Prefs!Request] /\ linked \subseteq Papers
      /\ taken \subseteq Papers /\ preprint \in [Papers -> Preprints]
      /\ tagged \subseteq Papers
      /\ a \in Preprints /\ request[m].copy \in Prefs!Prefs
  BY DEF Prefs!PrefsTypeOK, Prefs!Request
<1>2. CASE /\ request' = [request EXCEPT ![m] = Prefs!NoRequest]
           /\ linked' = linked \union Prefs!Owned(a) /\ UNCHANGED <<taken, preprint>>
  BY <1>1, <1>2 DEF Prefs!Owned
<1>3. CASE /\ taken # Papers /\ taken' = taken \union {p}
           /\ preprint' = [preprint EXCEPT ![p] = a]
           /\ request' = [request EXCEPT ![m] = [@ EXCEPT !.pc = "record", !.paper = p,
                                                   !.copy = c]]
           /\ UNCHANGED linked
  <2>1. p \in Papers \ taken
    BY <1>1, <1>3
  <2> HIDE DEF p, a
  <2>2. entry \in Prefs!Entry /\ entry.paper = p /\ entry.status = "queued"
    BY <1>1, <2>1 DEF Prefs!Entry, Prefs!Statuses
  <2> HIDE DEF entry
  <2>3. /\ c \in Prefs!Prefs
        /\ Prefs!Entries(c) \subseteq Prefs!Entries(request[m].copy) \union {entry}
        /\ OneEntry(request[m].copy) /\
           (\A e \in Prefs!Entries(request[m].copy) : e.paper # p) => OneEntry(c)
    BY <1>1, <2>2, CopyWith
  <2> HIDE DEF c
  <2>4. request' \in [Members -> Prefs!Request]
    BY <1>1, <1>3, <2>1, <2>3 DEF Prefs!Request
  <2>5. preprint' \in [Papers -> Preprints] /\ taken' \subseteq Papers
    BY <1>1, <1>3, <2>1
  <2> QED
    BY <1>1, <1>3, <2>1, <2>2, <2>3, <2>4, <2>5
<1> QED
  BY <1>2, <1>3 DEF Prefs!Decide, Prefs!Finish

(* Every step keeps the types. *)
LEMMA PrefsTypesStep ==
  ASSUME Prefs!PrefsTypeOK, [Prefs!PrefsNext]_prefsVars
  PROVE  Prefs!PrefsTypeOK'
<1> USE PrefsNumbers, IdleTypes
<1> USE DEF Prefs!PrefsTypeOK
<1> DEFINE T == Prefs!PrefsTypeOK'
<1>1. /\ \A m \in Members : request[m] \in Prefs!Request /\ request[m].copy \in Prefs!Prefs
                            /\ request[m].paper \in Papers /\ request[m].preprint \in Preprints
      /\ import.copy \in Prefs!Prefs /\ import.paper \in Papers
      /\ import.status \in Prefs!Statuses
  BY DEF Prefs!Request, Prefs!Import
<1>2. \A m \in Members, place \in {"commit", "enqueue"}, c \in Prefs!Prefs :
        [request EXCEPT ![m].pc = place, ![m].copy = c] \in [Members -> Prefs!Request]
  BY DEF Prefs!Request
<1>3. \A m \in Members, r \in Prefs!Request :
        [request EXCEPT ![m] = r] \in [Members -> Prefs!Request]
  OBVIOUS
<1>4. \A new \in Prefs!Prefs : \A own :
        Prefs!PutBack(new, own) \subseteq Papers /\ Prefs!Dropped(new, own) \subseteq Papers
  BY EntryTypes DEF Prefs!PutBack, Prefs!Dropped, Prefs!Named
<1>5. ASSUME NEW m \in Members, NEW c \in Prefs!Prefs, Prefs!Read(m, c) PROVE T
  <2>1. request' \in [Members -> Prefs!Request]
    BY <1>2, <1>5 DEF Prefs!Read
  <2> QED
    BY <1>5, <2>1 DEF Prefs!Read, Prefs!papers
<1>6. ASSUME NEW m \in Members, Prefs!Favor(m) \/ Prefs!Unfavor(m) \/ Prefs!Rescope(m) PROVE T
  <2>1. \A f \in Favorites :
          /\ [prefs EXCEPT !.favorites = @ \union {f}] \in Prefs!Prefs
          /\ [prefs EXCEPT !.favorites = @ \ {f}] \in Prefs!Prefs
    BY DEF Prefs!Prefs
  <2>2. prefs.favorites \subseteq Favorites
    BY DEF Prefs!Prefs
  <2> QED
    BY <1>5, <1>6, <2>1, <2>2 DEF Prefs!Favor, Prefs!Unfavor, Prefs!Rescope
<1>7. ASSUME NEW m \in Members, Prefs!Delete(m) PROVE T
  <2>1. PICK p \in Papers :
          request' = [request EXCEPT ![m] = [@ EXCEPT !.pc = "delete", !.paper = p,
                                               !.copy = Prefs!Without(prefs, p)]]
    BY <1>7 DEF Prefs!Delete
  <2>2. [request[m] EXCEPT !.pc = "delete", !.paper = p, !.copy = Prefs!Without(prefs, p)]
          \in Prefs!Request
    <3> DEFINE c == Prefs!Without(prefs, p)
    <3>1. c \in Prefs!Prefs
      BY CopyWithout
    <3> HIDE DEF c
    <3> QED
      BY <1>1, <3>1 DEF Prefs!Request, c
  <2>3. request' \in [Members -> Prefs!Request]
    BY <2>1, <2>2
  <2> QED
    BY <1>7, <2>3 DEF Prefs!Delete, Prefs!papers
<1>8. ASSUME NEW m \in Members, Prefs!Ask(m) PROVE T
  <2>1. PICK a \in Preprints :
          request' = [request EXCEPT ![m] = [@ EXCEPT !.pc = "decide", !.copy = prefs,
                                               !.preprint = a]]
    BY <1>8 DEF Prefs!Ask
  <2>2. [request[m] EXCEPT !.pc = "decide", !.copy = prefs, !.preprint = a] \in Prefs!Request
    BY <1>1 DEF Prefs!Request
  <2>3. request' \in [Members -> Prefs!Request]
    BY <2>1, <2>2
  <2> QED
    BY <1>8, <2>3 DEF Prefs!Ask, Prefs!papers, Prefs!history
<1>9. ASSUME NEW m \in Members, Prefs!Commit(m) PROVE T
  BY <1>1, <1>3, <1>4, <1>9 DEF Prefs!Commit, Prefs!Finish, Prefs!papers
<1>10. ASSUME NEW m \in Members, Prefs!CommitDelete(m) PROVE T
  BY <1>1, <1>3, <1>4, <1>10 DEF Prefs!CommitDelete, Prefs!Finish
<1>11. ASSUME NEW m \in Members, Prefs!Decide(m) PROVE T
  <2>1. /\ taken' \subseteq Papers /\ linked' \subseteq Papers
        /\ preprint' \in [Papers -> Preprints] /\ request' \in [Members -> Prefs!Request]
    BY <1>11, Decision
  <2> QED
    BY <1>11, <2>1 DEF Prefs!Decide, Prefs!history
<1>12. ASSUME NEW m \in Members, Prefs!Record(m) PROVE T
  <2>1. request' \in [Members -> Prefs!Request]
    BY <1>12 DEF Prefs!Record, Prefs!Request
  <2> QED
    BY <1>1, <1>4, <1>12, <2>1 DEF Prefs!Record, Prefs!papers
<1>13. ASSUME NEW m \in Members, Prefs!Enqueue(m) PROVE T
  BY <1>1, <1>3, <1>13 DEF Prefs!Enqueue, Prefs!Finish
<1>14. ASSUME Prefs!Take PROVE T
  <2>1. import' \in Prefs!Import
    BY <1>14 DEF Prefs!Take, Prefs!Import, Prefs!Statuses
  <2> QED
    BY <1>14, <2>1 DEF Prefs!Take, Prefs!papers, Prefs!history
<1>15. ASSUME Prefs!Mark PROVE T
  <2>1. import' \in Prefs!Import
    BY <1>1, <1>15, StatusOfCopy DEF Prefs!Mark, Prefs!Import
  <2> QED
    BY <1>15, <2>1 DEF Prefs!Mark, Prefs!papers, Prefs!history
<1>16. ASSUME Prefs!CommitMark PROVE T
  <2>1. import' \in Prefs!Import
    BY <1>1, <1>16 DEF Prefs!CommitMark, Prefs!Import
  <2>2. prefs' \in Prefs!Prefs
    BY <1>1, <1>16 DEF Prefs!CommitMark
  <2>3. stuck' \subseteq Papers /\ dropped' \subseteq Papers
    BY <1>4, <1>16, <2>2 DEF Prefs!CommitMark
  <2> QED
    BY <1>16, <2>1, <2>2, <2>3 DEF Prefs!CommitMark, Prefs!papers
<1>17. ASSUME Prefs!Download \/ Prefs!Process \/ Prefs!Link PROVE T
  <2>1. import' \in Prefs!Import
    BY <1>17 DEF Prefs!Download, Prefs!Process, Prefs!Link, Prefs!Announce, Prefs!Import,
       Prefs!Statuses
  <2> QED
    BY <1>1, <1>17, <2>1 DEF Prefs!Download, Prefs!Process, Prefs!Link, Prefs!history
<1>18. ASSUME Prefs!Ack \/ Prefs!Die \/ UNCHANGED prefsVars PROVE T
  BY <1>1, <1>18 DEF Prefs!Ack, Prefs!Die, prefsVars, Prefs!papers, Prefs!history
<1> QED
  BY <1>6, <1>7, <1>8, <1>9, <1>10, <1>11, <1>12, <1>13, <1>14, <1>15, <1>16, <1>17, <1>18
  DEF Prefs!PrefsNext, Prefs!WorkerStep, Prefs!Arrive, Prefs!Proceed

-----------------------------------------------------------------------------
(* A request reads the preferences, or writes its copy back. *)
Reads(m) ==
  /\ request[m].pc = "idle" /\ request'[m].pc \in {"commit", "delete", "decide"}
  /\ \A n \in Members \ {m} : request'[n] = request[n]
  /\ Prefs!Entries(request'[m].copy) \subseteq Prefs!Entries(prefs)
  /\ OneEntry(prefs) => OneEntry(request'[m].copy)
  /\ request'[m].pc = "delete" => request'[m].paper \in broken
  /\ UNCHANGED <<prefs, stored, tagged, linked, broken, preprint, deleted, dropped, taken,
                 waiting, import, stuck>>

Deletes(p) ==
  /\ stored' = stored \ {p} /\ tagged' = tagged \ {p} /\ linked' = linked \ {p}
  /\ broken' = broken \ {p} /\ deleted' = deleted \union {p}
  /\ dropped' = dropped \union Prefs!Dropped(prefs', {p})

Writes(m) ==
  /\ prefs' = request[m].copy
  /\ \A n \in Members \ {m} : request'[n] = request[n]
  /\ linked \union deleted \subseteq linked' \union deleted'
  /\ \/ request[m].pc = "delete" /\ Deletes(request[m].paper)
     \/ /\ UNCHANGED <<stored, tagged, linked, broken, deleted>>
        /\ dropped' = dropped \union Prefs!Dropped(prefs', {})
  /\ UNCHANGED <<taken, waiting, import, preprint>>
  /\ \/ /\ request[m].pc \in {"commit", "delete"} /\ request'[m] = Prefs!NoRequest
        /\ stuck' = stuck \union Prefs!PutBack(prefs', {})
     \/ /\ request[m].pc = "record"
        /\ request'[m].pc = "enqueue" /\ request'[m].copy = request[m].copy
        /\ request'[m].paper = request[m].paper
        /\ stuck' = stuck \union Prefs!PutBack(prefs', {request[m].paper})

LEMMA ReadsOrWrites ==
  ASSUME Prefs!PrefsTypeOK, NEW m \in Members,
         Prefs!Arrive(m) \/ Prefs!Commit(m) \/ Prefs!CommitDelete(m) \/ Prefs!Record(m)
  PROVE  Reads(m) \/ Writes(m)
<1>1. /\ request \in [Members -> Prefs!Request] /\ request[m] \in Prefs!Request
      /\ prefs \in Prefs!Prefs
  BY DEF Prefs!PrefsTypeOK
<1>2. ASSUME NEW c \in Prefs!Prefs, c.imports = prefs.imports, Prefs!Read(m, c)
      PROVE  Reads(m)
  <2>1. /\ request'[m].pc = "commit" /\ request'[m].copy = c /\ request[m].pc = "idle"
        /\ \A n \in Members \ {m} : request'[n] = request[n]
    BY <1>1, <1>2 DEF Prefs!Read, Prefs!At, Prefs!Request
  <2>2. Prefs!Entries(c) = Prefs!Entries(prefs) /\ (OneEntry(prefs) => OneEntry(c))
    BY <1>2 DEF Prefs!Entries, OneEntry
  <2> QED
    BY <1>2, <2>1, <2>2 DEF Prefs!Read, Prefs!papers, Reads
<1>3. CASE Prefs!Favor(m) \/ Prefs!Unfavor(m) \/ Prefs!Rescope(m)
  <2>1. /\ prefs.favorites \subseteq Favorites
        /\ \A f \in Favorites :
          /\ [prefs EXCEPT !.favorites = @ \union {f}] \in Prefs!Prefs
          /\ [prefs EXCEPT !.favorites = @ \union {f}].imports = prefs.imports
          /\ [prefs EXCEPT !.favorites = @ \ {f}] \in Prefs!Prefs
          /\ [prefs EXCEPT !.favorites = @ \ {f}].imports = prefs.imports
    BY <1>1 DEF Prefs!Prefs
  <2> QED
    BY <1>1, <1>2, <1>3, <2>1 DEF Prefs!Favor, Prefs!Unfavor, Prefs!Rescope
<1>4. CASE Prefs!Delete(m)
  <2>1. PICK p \in broken :
          request' = [request EXCEPT ![m] = [@ EXCEPT !.pc = "delete", !.paper = p,
                                               !.copy = Prefs!Without(prefs, p)]]
    BY <1>4 DEF Prefs!Delete
  <2> DEFINE c == Prefs!Without(prefs, p)
  <2>2. Prefs!Entries(c) \subseteq Prefs!Entries(prefs) /\ (OneEntry(prefs) => OneEntry(c))
    BY <1>1, CopyWithout
  <2>3. request'[m] = [request[m] EXCEPT !.pc = "delete", !.paper = p, !.copy = c]
    BY <1>1, <2>1
  <2> HIDE DEF c
  <2>4. request'[m].pc = "delete" /\ request'[m].copy = c /\ request'[m].paper = p
    BY <1>1, <2>3 DEF Prefs!Request
  <2> QED
    BY <1>1, <1>4, <2>1, <2>2, <2>4 DEF Prefs!Delete, Prefs!At, Prefs!papers, Reads
<1>5. CASE Prefs!Ask(m)
  <2>1. /\ request'[m].pc = "decide" /\ request'[m].copy = prefs
        /\ \A n \in Members \ {m} : request'[n] = request[n]
    BY <1>1, <1>5 DEF Prefs!Ask, Prefs!Request
  <2> QED
    BY <1>5, <2>1 DEF Prefs!Ask, Prefs!At, Prefs!papers, Prefs!history, Reads
<1>6. CASE Prefs!Commit(m) \/ Prefs!CommitDelete(m)
  BY <1>1, <1>6 DEF Prefs!Commit, Prefs!CommitDelete, Prefs!Finish, Prefs!At,
     Prefs!papers, Writes, Deletes
<1>7. CASE Prefs!Record(m)
  <2>1. /\ request'[m].pc = "enqueue" /\ request'[m].copy = request[m].copy
        /\ request'[m].paper = request[m].paper
        /\ \A n \in Members \ {m} : request'[n] = request[n]
    BY <1>1, <1>7 DEF Prefs!Record, Prefs!Request
  <2> QED
    BY <1>7, <2>1 DEF Prefs!Record, Prefs!At, Prefs!papers, Writes
<1> QED
  BY <1>3, <1>4, <1>5, <1>6, <1>7 DEF Prefs!Arrive

(* What the worker does to the preferences and to its copy. *)
LEMMA WorkerWrites ==
  ASSUME Prefs!PrefsTypeOK, Copies, Prefs!Mark
  PROVE  /\ import'.pc = "commit" /\ import'.paper = import.paper
         /\ import'.status = import.status
         /\ Whole(import'.copy, taken, linked \union deleted)
         /\ \A e \in Prefs!Entries(import'.copy) :
              e.paper = import.paper => e.status = import.status
         /\ \A e \in Prefs!Entries(prefs) : e.paper = import.paper =>
              \E f \in Prefs!Entries(import'.copy) : f.paper = import.paper
<1> DEFINE c == Prefs!WithStatus(prefs, import.paper, import.status)
<1>1. import \in Prefs!Import /\ prefs \in Prefs!Prefs /\ import.status \in Prefs!Statuses
  BY DEF Prefs!PrefsTypeOK, Prefs!Import
<1>2. /\ OneEntry(prefs) => OneEntry(c)
      /\ \A e \in Prefs!Entries(c) :
           IF e.paper = import.paper
           THEN e.status = import.status /\ \E f \in Prefs!Entries(prefs) : f.paper = import.paper
           ELSE e \in Prefs!Entries(prefs)
      /\ \A e \in Prefs!Entries(prefs) : e.paper = import.paper =>
           \E f \in Prefs!Entries(c) : f.paper = import.paper
  BY <1>1, StatusOfCopy
<1>3. import' = [import EXCEPT !.pc = "commit", !.copy = c]
  BY DEF Prefs!Mark
<1> HIDE DEF c
<1>4. /\ import'.pc = "commit" /\ import'.copy = c /\ import'.paper = import.paper
      /\ import'.status = import.status
  BY <1>1, <1>3 DEF Prefs!Import
<1>5. Whole(c, taken, linked \union deleted)
  BY <1>2 DEF Copies, Whole
<1> QED
  BY <1>2, <1>4, <1>5

(* Every step keeps what every copy has. *)
LEMMA CopiesStep ==
  ASSUME Prefs!PrefsTypeOK, Copies, [Prefs!PrefsNext]_prefsVars
  PROVE  Copies'
<1> USE IdleTypes
<1> DEFINE known == linked \union deleted
<1>1. /\ request \in [Members -> Prefs!Request] /\ import \in Prefs!Import
      /\ Whole(prefs, taken, known) /\ Whole(import.copy, taken, known)
      /\ \A m \in Members : Whole(request[m].copy, taken, known)
      /\ import.status = "ready" => import.paper \in known
  BY DEF Prefs!PrefsTypeOK, Copies
<1>2. \A c : Whole(c, taken, known) /\ taken \subseteq taken' /\ known \subseteq known'
               => Whole(c, taken', known')
  BY WholeGrows
<1>3. Whole(Prefs!Nothing, taken', known')
  BY EmptyIsWhole
<1> HIDE DEF known
<1> DEFINE Kept == /\ Whole(prefs', taken', known') /\ Whole(import'.copy, taken', known')
                   /\ \A n \in Members : Whole(request'[n].copy, taken', known')
                   /\ import'.status = "ready" => import'.paper \in known'
<1> SUFFICES Kept
  BY DEF Copies, known
<1>4. ASSUME NEW m \in Members, Reads(m)  PROVE Kept
  <2>1. UNCHANGED <<prefs, known, taken, import>>
    BY <1>4 DEF Reads, known
  <2>2. Whole(request'[m].copy, taken, known)
    BY <1>1, <1>4, WholeGrows DEF Reads
  <2> QED
    BY <1>1, <1>4, <2>1, <2>2 DEF Reads
<1>5. ASSUME NEW m \in Members, Writes(m)  PROVE Kept
  <2>1. known \subseteq known' /\ UNCHANGED <<taken, import>>
    BY <1>5 DEF Writes, known
  <2>2. request'[m].copy = Prefs!Nothing \/ request'[m].copy = request[m].copy
    BY <1>5 DEF Writes
  <2> QED
    BY <1>1, <1>2, <1>3, <1>5, <2>1, <2>2 DEF Writes
<1>6. ASSUME NEW m \in Members, Prefs!Decide(m)  PROVE Kept
  <2>1. /\ UNCHANGED <<prefs, import, deleted>> /\ taken \subseteq taken'
        /\ linked \subseteq linked' /\ known \subseteq known'
        /\ \A n \in Members \ {m} : request'[n] = request[n]
    BY <1>1, <1>6, Decision DEF Prefs!Decide, Prefs!history, known
  <2>2. Whole(request'[m].copy, taken', known')
    <3>1. CASE request' = [request EXCEPT ![m] = Prefs!NoRequest]
      BY <1>1, <1>3, <3>1
    <3>2. ASSUME NEW p \in Papers \ taken, NEW c \in Prefs!Prefs, NEW entry,
                 taken' = taken \union {p},
                 request' = [request EXCEPT ![m] =
                               [@ EXCEPT !.pc = "record", !.paper = p, !.copy = c]],
                 entry.paper = p, entry.status = "queued",
                 Prefs!Entries(c) \subseteq Prefs!Entries(request[m].copy) \union {entry},
                 OneEntry(request[m].copy) /\
                 (\A e \in Prefs!Entries(request[m].copy) : e.paper # p) => OneEntry(c)
          PROVE  Whole(request'[m].copy, taken', known')
      <4>1. request'[m].copy = c
        BY <1>1, <3>2 DEF Prefs!Request
      <4>2. Whole(request[m].copy, taken, known)
        BY <1>1
      <4>3. \A e \in Prefs!Entries(request[m].copy) :
              e.paper # p /\ e.paper \in taken /\ (e.status = "ready" => e.paper \in known)
        BY <4>2, <3>2 DEF Whole
      <4>4. OneEntry(c)
        BY <3>2, <4>2, <4>3 DEF Whole
      <4>5. \A e \in Prefs!Entries(c) :
              e.paper \in taken' /\ (e.status = "ready" => e.paper \in known')
        BY <2>1, <3>2, <4>3
      <4> QED
        BY <4>1, <4>4, <4>5 DEF Whole
    <3> QED
      BY <1>6, <3>1, <3>2, Decision
  <2> QED
    BY <1>1, <1>2, <2>1, <2>2
<1>7. ASSUME NEW m \in Members, Prefs!Enqueue(m)  PROVE Kept
  <2>1. UNCHANGED <<prefs, known, taken, import>>
    BY <1>7 DEF Prefs!Enqueue, known
  <2>2. request' = [request EXCEPT ![m] = Prefs!NoRequest]
    BY <1>7 DEF Prefs!Enqueue, Prefs!Finish
  <2> QED
    BY <1>1, <1>3, <2>1, <2>2
<1>8. ASSUME Prefs!Take \/ Prefs!Download \/ Prefs!Process PROVE Kept
  <2>1. UNCHANGED <<prefs, request, known, taken>>
    BY <1>8 DEF Prefs!Take, Prefs!Download, Prefs!Process, Prefs!papers, Prefs!history, known
  <2>2. /\ import'.copy = import.copy
        /\ import'.status = "ready" => import.status = "ready" /\ import'.paper = import.paper
    BY <1>1, <1>8 DEF Prefs!Take, Prefs!Download, Prefs!Process, Prefs!Announce, Prefs!Import
  <2> QED
    BY <1>1, <2>1, <2>2
<1>9. ASSUME Prefs!Mark PROVE Kept
  <2>1. UNCHANGED <<prefs, request, known, taken>>
    BY <1>9 DEF Prefs!Mark, Prefs!papers, Prefs!history, known
  <2> QED
    BY <1>1, <1>9, <2>1, WorkerWrites DEF known
<1>10. ASSUME Prefs!CommitMark PROVE Kept
  <2>1. /\ UNCHANGED <<request, known, taken>> /\ prefs' \in {prefs, import.copy}
        /\ import'.copy = Prefs!Nothing /\ import'.status = "queued"
    BY <1>10 DEF Prefs!CommitMark, Prefs!papers, Prefs!NoImport, known
  <2> QED
    BY <1>1, <1>3, <2>1
<1>11. ASSUME Prefs!Link PROVE Kept
  <2>1. UNCHANGED <<prefs, request, taken>> /\ known \subseteq known'
    BY <1>11 DEF Prefs!Link, Prefs!history, known
  <2>2. /\ import'.copy = import.copy
        /\ import'.status = "ready" => import'.paper \in linked'
    BY <1>1, <1>11 DEF Prefs!Link, Prefs!Announce, Prefs!Import
  <2> QED
    BY <1>1, <1>2, <2>1, <2>2 DEF known
<1>12. ASSUME Prefs!Ack \/ Prefs!Die PROVE Kept
  <2>1. UNCHANGED <<prefs, request, known, taken>> /\ import' = Prefs!NoImport
    BY <1>12 DEF Prefs!Ack, Prefs!Die, Prefs!papers, Prefs!history, known
  <2> QED
    BY <1>1, <1>3, <2>1
<1>13. ASSUME UNCHANGED prefsVars PROVE Kept
  BY <1>1, <1>13 DEF prefsVars, known
<1> QED
  BY <1>4, <1>5, <1>6, <1>7, <1>8, <1>9, <1>10, <1>11, <1>12, <1>13, ReadsOrWrites
  DEF Prefs!PrefsNext, Prefs!WorkerStep, Prefs!Proceed

(* What a step of the worker does to the job in hand. *)
LEMMA JobInHand ==
  ASSUME Prefs!PrefsTypeOK, Prefs!WorkerStep \/ Prefs!Die
  PROVE  /\ UNCHANGED <<request, taken, deleted>>
         /\ \/ /\ import.pc = "idle" /\ import'.pc = "mark"
               /\ import'.paper \in waiting /\ waiting' = waiting \ {import'.paper}
            \/ /\ import.pc # "idle" /\ import'.pc \notin {"idle", "ack"}
               /\ import'.paper = import.paper /\ waiting' = waiting
            \/ /\ import.pc = "commit" /\ import'.pc = "ack"
               /\ import'.paper = import.paper /\ waiting' = waiting
            \/ /\ import.pc = "ack" /\ import'.pc = "idle" /\ waiting' = waiting
            \/ /\ import.pc # "idle" /\ import'.pc = "idle"
               /\ waiting' = waiting \union {import.paper}
<1> USE IdleTypes
<1>1. import \in Prefs!Import
  BY DEF Prefs!PrefsTypeOK
<1>2. CASE Prefs!Take
  <2>1. PICK p \in waiting :
          /\ waiting' = waiting \ {p}
          /\ import' = [import EXCEPT !.pc = "mark", !.paper = p, !.status = "processing"]
    BY <1>2 DEF Prefs!Take
  <2>2. import'.pc = "mark" /\ import'.paper = p
    BY <1>1, <2>1 DEF Prefs!Import
  <2> QED
    BY <1>2, <2>1, <2>2 DEF Prefs!Take, Prefs!Doing, Prefs!history
<1>3. CASE Prefs!Mark \/ Prefs!Download \/ Prefs!Process \/ Prefs!Link
  <2>1. /\ import'.pc \in {"mark", "commit", "process", "link"}
        /\ import'.paper = import.paper
    BY <1>1, <1>3 DEF Prefs!Mark, Prefs!Download, Prefs!Process, Prefs!Link, Prefs!Announce,
       Prefs!Import
  <2> QED
    BY <1>3, <2>1 DEF Prefs!Mark, Prefs!Download, Prefs!Process, Prefs!Link, Prefs!Doing,
       Prefs!history
<1>4. CASE Prefs!CommitMark
  <2>1. /\ import'.paper = import.paper
        /\ import'.pc = IF import.status = "processing" THEN "download" ELSE "ack"
    BY <1>4, PrefsNumbers DEF Prefs!CommitMark, Prefs!NoImport
  <2> QED
    BY <1>4, <2>1 DEF Prefs!CommitMark, Prefs!Doing
<1>5. CASE Prefs!Ack \/ Prefs!Die
  BY <1>5 DEF Prefs!Ack, Prefs!Die, Prefs!Doing, Prefs!history
<1> QED
  BY <1>2, <1>3, <1>4, <1>5 DEF Prefs!WorkerStep

(* What a request that opens an import takes. *)
LEMMA Opens ==
  ASSUME Prefs!PrefsTypeOK, NEW m \in Members, Prefs!Decide(m)
  PROVE  /\ \A n \in Members \ {m} : request'[n] = request[n]
         /\ UNCHANGED <<prefs, waiting, import, stuck>>
         /\ \/ request'[m].pc = "idle" /\ taken' = taken
            \/ /\ request'[m].pc = "record" /\ request'[m].paper \notin taken
               /\ taken' = taken \union {request'[m].paper}
<1>1. request \in [Members -> Prefs!Request]
  BY DEF Prefs!PrefsTypeOK
<1>2. UNCHANGED <<prefs, waiting, import, stuck>>
  BY DEF Prefs!Decide, Prefs!history
<1> DEFINE Opened ==
      /\ \A n \in Members \ {m} : request'[n] = request[n]
      /\ \/ request'[m].pc = "idle" /\ taken' = taken
         \/ /\ request'[m].pc = "record" /\ request'[m].paper \notin taken
            /\ taken' = taken \union {request'[m].paper}
<1>3. ASSUME request' = [request EXCEPT ![m] = Prefs!NoRequest], taken' = taken
      PROVE  Opened
  BY <1>1, <1>3, IdleTypes
<1>4. ASSUME NEW p \in Papers \ taken, NEW c \in Prefs!Prefs, taken' = taken \union {p},
             request' = [request EXCEPT ![m] =
                           [@ EXCEPT !.pc = "record", !.paper = p, !.copy = c]]
      PROVE  Opened
  BY <1>1, <1>4 DEF Prefs!Request
<1> HIDE DEF Opened
<1>5. Opened
  BY <1>3, <1>4, Decision
<1> QED
  BY <1>2, <1>5 DEF Opened

(* A paper that is being opened stays out of the queue and of other hands. *)
LEMMA FreshStep ==
  ASSUME Prefs!PrefsTypeOK, Fresh, [Prefs!PrefsNext]_prefsVars
  PROVE  Fresh'
<1> USE IdleTypes
<1>1. /\ waiting \subseteq taken /\ (import.pc # "idle" => import.paper \in taken)
      /\ \A m \in Members : request[m].pc \in {"record", "enqueue"} =>
           /\ request[m].paper \in taken \ waiting
           /\ import.pc # "idle" => request[m].paper # import.paper
           /\ \A n \in Members :
                request[n].pc \in {"record", "enqueue"} /\ request[n].paper = request[m].paper
                  => n = m
      /\ request \in [Members -> Prefs!Request]
  BY DEF Fresh, Opening, Prefs!PrefsTypeOK
<1> DEFINE Kept ==
      /\ waiting' \subseteq taken' /\ (import'.pc # "idle" => import'.paper \in taken')
      /\ \A m \in Members : request'[m].pc \in {"record", "enqueue"} =>
           /\ request'[m].paper \in taken' \ waiting'
           /\ import'.pc # "idle" => request'[m].paper # import'.paper
           /\ \A n \in Members :
                request'[n].pc \in {"record", "enqueue"} /\ request'[n].paper = request'[m].paper
                  => n = m
<1> SUFFICES Kept
  BY DEF Fresh, Opening
<1>2. ASSUME NEW m \in Members, Reads(m) \/ Writes(m)  PROVE Kept
  <2>1. \A n \in Members : request'[n].pc \in {"record", "enqueue"} =>
          request[n].pc \in {"record", "enqueue"} /\ request'[n].paper = request[n].paper
    BY <1>2 DEF Reads, Writes
  <2>2. UNCHANGED <<taken, waiting, import>>
    BY <1>2 DEF Reads, Writes
  <2> QED
    BY <1>1, <2>1, <2>2
<1>3. ASSUME NEW m \in Members, Prefs!Decide(m)  PROVE Kept
  BY <1>1, <1>3, Opens
<1>4. ASSUME NEW m \in Members, Prefs!Enqueue(m)  PROVE Kept
  <2>1. /\ request[m].pc = "enqueue" /\ request' = [request EXCEPT ![m] = Prefs!NoRequest]
        /\ waiting' \subseteq waiting \union {request[m].paper}
        /\ UNCHANGED <<import, taken>>
    BY <1>4 DEF Prefs!Enqueue, Prefs!Finish, Prefs!At
  <2>2. request'[m].pc = "idle" /\ \A n \in Members \ {m} : request'[n] = request[n]
    BY <1>1, <2>1
  <2> QED
    BY <1>1, <2>1, <2>2
<1>5. ASSUME Prefs!WorkerStep \/ Prefs!Die  PROVE Kept
  <2>1. /\ UNCHANGED <<request, taken>>
        /\ waiting' \subseteq waiting \union (IF import.pc = "idle" THEN {} ELSE {import.paper})
        /\ import'.pc # "idle" =>
             \/ import.pc = "idle" /\ import'.paper \in waiting
             \/ import.pc # "idle" /\ import'.paper = import.paper
    BY <1>5, JobInHand
  <2> QED
    BY <1>1, <2>1
<1>6. ASSUME UNCHANGED prefsVars PROVE Kept
  BY <1>1, <1>6 DEF prefsVars
<1> QED
  BY <1>2, <1>3, <1>4, <1>5, <1>6, ReadsOrWrites DEF Prefs!PrefsNext, Prefs!Proceed

(* An entry that was not there is the writer's own, or was put back. *)
LEMMA NewEntries ==
  ASSUME NEW m \in Members, Writes(m)
  PROVE  /\ stuck \subseteq stuck'
         /\ \A e \in Prefs!Entries(prefs') :
              \/ e \in Prefs!Entries(prefs) \/ e.paper \in stuck'
              \/ /\ request[m].pc = "record" /\ request'[m].pc = "enqueue"
                 /\ request'[m].paper = request[m].paper /\ e.paper = request[m].paper
BY DEF Writes, Prefs!PutBack

(* What is through for the job in hand stays so under the requests. *)
LEMMA ThroughStays ==
  ASSUME Prefs!PrefsTypeOK, Fresh, import.pc # "idle", Through(import.paper),
         NEW m \in Members, Reads(m) \/ Writes(m) \/ Prefs!Decide(m) \/ Prefs!Enqueue(m)
  PROVE  Through(import.paper)'
<1> DEFINE p == import.paper
<1>1. import' = import
  BY Opens DEF Reads, Writes, Prefs!Enqueue
<1>2. CASE Reads(m) \/ Prefs!Decide(m) \/ Prefs!Enqueue(m)
  <2>1. prefs' = prefs /\ stuck \subseteq stuck'
    BY <1>2, Opens DEF Reads, Prefs!Enqueue
  <2> QED
    BY <1>1, <2>1 DEF Through, Prefs!Entries, Prefs!UnderWayEntry
<1>3. CASE Writes(m)
  <2>1. request[m].pc = "record" => request[m].paper # p
    BY DEF Fresh, Opening
  <2>2. \A e \in Prefs!Entries(prefs') : e.paper = p =>
          e \in Prefs!Entries(prefs) \/ p \in stuck'
    BY <1>3, <2>1, NewEntries
  <2>3. stuck \subseteq stuck'
    BY <1>3, NewEntries
  <2>4. \A e \in Prefs!Entries(prefs') : e.paper = p /\ Prefs!UnderWayEntry(e) => p \in stuck'
    BY <2>2, <2>3 DEF Through
  <2> QED
    BY <1>1, <2>4 DEF Through, Prefs!Entries, Prefs!UnderWayEntry
<1> QED
  BY <1>2, <1>3

(* The worker acknowledges only an import that is through. *)
LEMMA MarksStep ==
  ASSUME Prefs!PrefsTypeOK, Copies, Fresh, Marks, [Prefs!PrefsNext]_prefsVars
  PROVE  Marks'
<1> USE IdleTypes
<1>1. import \in Prefs!Import
  BY DEF Prefs!PrefsTypeOK
<1>2. ASSUME NEW m \in Members, Reads(m) \/ Writes(m) \/ Prefs!Decide(m) \/ Prefs!Enqueue(m)
      PROVE  Marks'
  <2>1. import' = import
    BY <1>2, Opens DEF Reads, Writes, Prefs!Enqueue
  <2>2. import.pc \in {"commit", "ack"} /\ Through(import.paper) => Through(import.paper)'
    BY <1>2, ThroughStays
  <2> QED
    BY <2>1, <2>2 DEF Marks, Prefs!Entries
<1>3. CASE Prefs!Take \/ Prefs!Download \/ Prefs!Process \/ Prefs!Link
  <2>1. /\ import'.pc \in {"mark", "process", "link"}
        /\ import'.pc = "mark" => import'.status \in {"processing", "ready", "failed"}
    BY <1>1, <1>3 DEF Prefs!Take, Prefs!Download, Prefs!Process, Prefs!Link, Prefs!Announce,
       Prefs!Import
  <2> QED
    BY <2>1 DEF Marks
<1>4. CASE Prefs!Mark
  <2>1. import.status \in {"processing", "ready", "failed"}
    BY <1>4 DEF Marks, Prefs!Mark, Prefs!Doing
  <2>2. /\ import'.pc = "commit" /\ import'.paper = import.paper
        /\ import'.status = import.status
        /\ \A e \in Prefs!Entries(import'.copy) :
             e.paper = import.paper => e.status = import.status
        /\ \A e \in Prefs!Entries(prefs) : e.paper = import.paper =>
             \E f \in Prefs!Entries(import'.copy) : f.paper = import.paper
    BY <1>4, WorkerWrites
  <2>3. UNCHANGED <<prefs, stuck>>
    BY <1>4 DEF Prefs!Mark, Prefs!history
  <2>4. (\E f \in Prefs!Entries(import'.copy) : f.paper = import.paper)
          \/ \A e \in Prefs!Entries(prefs) : e.paper # import.paper
    BY <2>2
  <2>5. (\E f \in Prefs!Entries(import'.copy) : f.paper = import.paper)
          \/ Through(import.paper)'
    BY <2>2, <2>3, <2>4 DEF Through, Prefs!Entries
  <2> QED
    BY <2>1, <2>2, <2>5 DEF Marks, Prefs!Entries
<1>5. CASE Prefs!CommitMark
  <2> DEFINE p == import.paper
             there == \E e \in Prefs!Entries(import.copy) : e.paper = p
  <2>1. /\ import.pc = "commit" /\ import.status \in {"processing", "ready", "failed"}
        /\ \A e \in Prefs!Entries(import.copy) : e.paper = p => e.status = import.status
        /\ there \/ Through(p)
    BY <1>5 DEF Prefs!CommitMark, Prefs!Doing, Marks
  <2>2. /\ prefs' = IF there THEN import.copy ELSE prefs
        /\ stuck \subseteq stuck'
        /\ import'.paper = p
        /\ import'.pc = IF import.status = "processing" THEN "download" ELSE "ack"
    BY <1>5, PrefsNumbers DEF Prefs!CommitMark, Prefs!NoImport
  <2>3. import'.pc = "ack" =>
          \A e \in Prefs!Entries(prefs') : e.paper = p /\ Prefs!UnderWayEntry(e) => p \in stuck'
    BY <2>1, <2>2 DEF Through, Prefs!UnderWayEntry
  <2>4. import'.pc = "ack" => Through(import.paper)'
    BY <2>2, <2>3 DEF Through, Prefs!Entries, Prefs!UnderWayEntry
  <2> QED
    BY <2>2, <2>4 DEF Marks
<1>6. CASE Prefs!Ack \/ Prefs!Die
  BY <1>6 DEF Prefs!Ack, Prefs!Die, Marks
<1>7. CASE UNCHANGED prefsVars
  BY <1>7 DEF prefsVars, Marks, Through, Prefs!Entries, Prefs!UnderWayEntry
<1> QED
  BY <1>2, <1>3, <1>4, <1>5, <1>6, <1>7, ReadsOrWrites
  DEF Prefs!PrefsNext, Prefs!WorkerStep, Prefs!Proceed

(* Somebody still has what says it is under way. *)
LEMMA AttendedStep ==
  ASSUME ImportInv, [Prefs!PrefsNext]_prefsVars
  PROVE  Prefs!ImportIsAttended'
<1> USE IdleTypes
<1>1. /\ Prefs!PrefsTypeOK /\ Copies /\ Fresh /\ Marks
      /\ request \in [Members -> Prefs!Request] /\ import \in Prefs!Import
  BY DEF ImportInv, Prefs!PrefsTypeOK
<1>2. \A e \in Prefs!Entries(prefs) : Prefs!UnderWayEntry(e) =>
        \/ e.paper \in stuck \union waiting
        \/ import.pc # "idle" /\ import.paper = e.paper
        \/ \E m \in Members : request[m].pc = "enqueue" /\ request[m].paper = e.paper
  BY DEF ImportInv, Prefs!ImportIsAttended, Prefs!Doing, Prefs!At
<1> DEFINE Kept ==
      \A e \in Prefs!Entries(prefs') : Prefs!UnderWayEntry(e) =>
        \/ e.paper \in stuck' \union waiting'
        \/ import'.pc # "idle" /\ import'.paper = e.paper
        \/ \E m \in Members : request'[m].pc = "enqueue" /\ request'[m].paper = e.paper
<1> SUFFICES Kept
  BY DEF Prefs!ImportIsAttended, Prefs!Doing, Prefs!At, Prefs!Entries, Prefs!UnderWayEntry
<1>3. ASSUME NEW m \in Members, Reads(m) \/ Prefs!Decide(m)  PROVE Kept
  <2>1. /\ UNCHANGED <<prefs, stuck, waiting, import>>
        /\ \A n \in Members : request[n].pc = "enqueue" => request'[n] = request[n]
    BY <1>1, <1>3, Opens DEF Reads, Prefs!Decide, Prefs!At
  <2> QED
    BY <1>2, <2>1
<1>4. ASSUME NEW m \in Members, Writes(m)  PROVE Kept
  <2>1. /\ UNCHANGED <<waiting, import>> /\ stuck \subseteq stuck'
        /\ \A n \in Members : request[n].pc = "enqueue" => request'[n] = request[n]
    BY <1>4, NewEntries DEF Writes
  <2> QED
    BY <1>2, <1>4, <2>1, NewEntries
<1>5. ASSUME NEW m \in Members, Prefs!Enqueue(m)  PROVE Kept
  <2>1. /\ UNCHANGED <<prefs, import>> /\ stuck \subseteq stuck' /\ waiting \subseteq waiting'
        /\ request[m].paper \in stuck' \union waiting'
        /\ request' = [request EXCEPT ![m] = Prefs!NoRequest]
    BY <1>5 DEF Prefs!Enqueue, Prefs!Finish
  <2>2. \A n \in Members \ {m} : request'[n] = request[n]
    BY <1>1, <2>1
  <2> QED
    BY <1>2, <2>1, <2>2
<1>6. CASE Prefs!CommitMark
  <2>1. /\ request' = request /\ waiting' = waiting
        /\ import'.pc # "idle" /\ import'.paper = import.paper
        /\ \A e \in Prefs!Entries(prefs') :
             e \in Prefs!Entries(prefs) \/ e.paper \in stuck' \/ e.paper = import.paper
        /\ stuck \subseteq stuck'
    BY <1>6, PrefsNumbers DEF Prefs!CommitMark, Prefs!PutBack, Prefs!NoImport
  <2> QED
    BY <1>2, <2>1
<1>7. CASE Prefs!Take \/ Prefs!Mark \/ Prefs!Download \/ Prefs!Process \/ Prefs!Link
           \/ Prefs!Ack \/ Prefs!Die
  <2>1. UNCHANGED <<prefs, stuck, request>>
    BY <1>7 DEF Prefs!Take, Prefs!Mark, Prefs!Download, Prefs!Process, Prefs!Link, Prefs!Ack,
       Prefs!Die, Prefs!history
  <2>2. /\ waiting \subseteq waiting' \union (IF import'.pc = "idle" THEN {} ELSE {import'.paper})
        /\ import.pc # "idle" =>
             \/ import'.pc # "idle" /\ import'.paper = import.paper
             \/ import.paper \in waiting'
             \/ import.pc = "ack"
    BY <1>1, <1>7, JobInHand DEF Prefs!WorkerStep
  <2>3. import.pc = "ack" =>
          \A e \in Prefs!Entries(prefs) :
            e.paper = import.paper /\ Prefs!UnderWayEntry(e) => e.paper \in stuck
    BY <1>1 DEF Marks, Through
  <2> QED
    BY <1>2, <2>1, <2>2, <2>3
<1>8. CASE UNCHANGED prefsVars
  BY <1>2, <1>8 DEF prefsVars
<1> QED
  BY <1>1, <1>3, <1>4, <1>5, <1>6, <1>7, <1>8, ReadsOrWrites
  DEF Prefs!PrefsNext, Prefs!WorkerStep, Prefs!Proceed

LEMMA ImportInvariant == Spec => []ImportInv
<1>1. ImportInv /\ [Next]_vars => ImportInv'
  BY StepOfEach, PrefsTypesStep, CopiesStep, FreshStep, MarksStep, AttendedStep
  DEF ImportInv
<1> QED
  BY <1>1, ImportInit, PTL DEF Spec

(* An import that became ready has put its paper into the project: no      *)
(* status that a session wrote back from an old copy, and no second        *)
(* delivery, shows a paper as ready that is not there.                     *)
THEOREM ReadyImportsAreLinked == Spec => ReadyIsLinked
<1> DEFINE isReady(c, p) == \E e \in Prefs!Entries(c) : e.paper = p /\ e.status = "ready"
<1>1. ASSUME ImportInv, [Prefs!PrefsNext]_prefsVars
      PROVE  [\A p \in Papers : isReady(prefs', p) /\ ~isReady(prefs, p)
                => p \in linked \union deleted]_(Prefs!prefsVars)
  <2>1. /\ Whole(prefs, taken, linked \union deleted)
        /\ Whole(import.copy, taken, linked \union deleted)
        /\ \A m \in Members : Whole(request[m].copy, taken, linked \union deleted)
    BY <1>1 DEF ImportInv, Copies
  <2>2. CASE prefs' \in {prefs, import.copy} \/ \E m \in Members : prefs' = request[m].copy
    BY <2>1, <2>2 DEF Whole
  <2>3. CASE UNCHANGED prefsVars
    BY <2>3 DEF prefsVars, Prefs!prefsVars, Prefs!papers, Prefs!history
  <2>4. CASE Prefs!WorkerStep \/ Prefs!Die
    BY <2>2, <2>4 DEF Prefs!WorkerStep, Prefs!Take, Prefs!Mark, Prefs!CommitMark,
       Prefs!Download, Prefs!Process, Prefs!Link, Prefs!Ack, Prefs!Die
  <2>5. ASSUME NEW m \in Members, Prefs!Arrive(m) \/ Prefs!Proceed(m)
        PROVE  prefs' = prefs \/ prefs' = request[m].copy
    BY <1>1, <2>5, ReadsOrWrites
    DEF ImportInv, Prefs!Proceed, Prefs!Decide, Prefs!Enqueue, Reads, Writes
  <2> QED
    BY <1>1, <2>2, <2>3, <2>4, <2>5 DEF Prefs!PrefsNext
<1>2. ImportInv /\ [Next]_vars
        => [\A p \in Papers : isReady(prefs', p) /\ ~isReady(prefs, p)
              => p \in linked \union deleted]_(Prefs!prefsVars)
  BY <1>1, StepOfEach
<1> QED
  BY <1>2, ImportInvariant, PTL DEF Spec, ReadyIsLinked, Prefs!ReadyIsLinked

-----------------------------------------------------------------------------
(* What is shown as under way, an evaluation run, a profile in the making  *)
(* or an import, has somebody left who will end it: a job that waits or is *)
(* in hand, or a request that is about to enqueue it.                      *)
THEOREM NobodyIsForgotten == Spec => []WorkIsAttended
<1>1. ProfileInv => Card!ProfileIsAttended
  BY DEF ProfileInv
<1>2. ImportInv => Prefs!ImportIsAttended
  BY DEF ImportInv
<1> QED
  BY <1>1, <1>2, RunsAreAttended, ProfileInvariant, ImportInvariant, PTL
  DEF WorkIsAttended

-----------------------------------------------------------------------------
(* Imports are done once, as long as the worker lives.                     *)

(* What the worker has in hand will not link its paper. *)
Failing ==
  \/ import.pc \in {"mark", "commit"} /\ import.status = "failed"
  \/ import.pc = "ack"
  \/ import.pc = "link" /\ import.paper \notin stored

(* The paper is not in the project and never will be. *)
Lost(p) ==
  /\ p \in taken /\ p \notin tagged \union linked \union waiting
  /\ \A m \in Members : Opening(m) => request[m].paper # p
  /\ import.pc # "idle" /\ import.paper = p => Failing

(* Nothing of a paper is stored before its job processes it. *)
Early ==
  /\ linked \subseteq tagged /\ tagged \union stored \subseteq taken
  /\ \A p \in waiting : p \notin stored \union tagged
  /\ \A m \in Members : Opening(m) => request[m].paper \notin stored \union tagged
  /\ import.pc # "idle" => import.paper \notin waiting
  /\ import.pc \in {"mark", "commit"} /\ import.status = "processing"
       => import.paper \notin stored \union tagged
  /\ import.pc \in {"download", "process"} => import.paper \notin stored \union tagged
  /\ import.pc = "link" => import.paper \notin tagged
  /\ import.pc \in {"mark", "commit"} /\ import.status = "failed" => import.paper \notin tagged

(* What failed or was deleted is lost. *)
Gone ==
  /\ \A p \in broken \union deleted : Lost(p)
  /\ \A m \in Members : request[m].pc = "delete" => Lost(request[m].paper)

(* Every copy tells the preprint of an import, and that it failed when it did. *)
Tells(c) ==
  \A e \in Prefs!Entries(c) :
    e.preprint = preprint[e.paper] /\ (e.status = "failed" => Lost(e.paper))

Telling ==
  Tells(prefs) /\ Tells(import.copy) /\ \A m \in Members : Tells(request[m].copy)

(* An import that was recorded has its entry until it is dropped or deleted. *)
Recorded(p) ==
  p \in taken /\ \A m \in Members : request[m].pc = "record" => request[m].paper # p

Entered ==
  \A p \in taken : Recorded(p) => p \in Prefs!Named(prefs) \union dropped \union deleted

(* A request that records an import has read of no other that can succeed. *)
Sole ==
  \A m \in Members : request[m].pc = "record" =>
    /\ request[m].paper \in Prefs!Named(request[m].copy)
    /\ \A p \in Prefs!Named(request[m].copy) \ {request[m].paper} :
         preprint[p] = preprint[request[m].paper] => Lost(p)

(* Of two imports of a preprint one is lost, or its entry was dropped. *)
Rivals ==
  \A p, q \in taken :
    Recorded(p) /\ Recorded(q) /\ preprint[p] = preprint[q] /\ p # q
      => p \in dropped \/ q \in dropped \/ Lost(p) \/ Lost(q)

OnceInv ==
  ImportInv /\ (importDeaths = 0 =>
                  Early /\ Gone /\ Telling /\ Entered /\ Sole /\ Rivals)

(* The steps of the worker, with what they do to the paper in hand. *)
LEMMA WorkerActs ==
  ASSUME Prefs!PrefsTypeOK, Prefs!WorkerStep
  PROVE  /\ UNCHANGED <<request, taken, deleted, preprint>>
         /\ import.pc # "idle" => waiting' = waiting
         /\ import'.pc # "idle" /\ import.pc # "idle" => import'.paper = import.paper
         /\ \/ /\ import.pc = "idle" /\ import'.pc = "mark" /\ import'.status = "processing"
               /\ import'.paper \in waiting /\ waiting' = waiting \ {import'.paper}
               /\ import'.copy = import.copy
               /\ UNCHANGED <<prefs, dropped, stored, tagged, linked, broken>>
            \/ /\ import.pc = "mark" /\ import'.pc = "commit" /\ import'.status = import.status
               /\ import'.copy = Prefs!WithStatus(prefs, import.paper, import.status)
               /\ UNCHANGED <<prefs, dropped, stored, tagged, linked, broken>>
            \/ /\ import.pc = "commit"
               /\ import'.pc = IF import.status = "processing" THEN "download" ELSE "ack"
               /\ import'.copy = Prefs!Nothing
               /\ prefs' \in {prefs, import.copy}
               /\ dropped' = dropped \union Prefs!Dropped(prefs', {})
               /\ UNCHANGED <<stored, tagged, linked, broken>>
            \/ /\ import.pc = "download" /\ import'.pc = "process"
               /\ import'.copy = import.copy
               /\ UNCHANGED <<prefs, dropped, stored, tagged, linked, broken>>
            \/ /\ import.pc = "download" /\ import'.pc = "mark" /\ import'.status = "failed"
               /\ import'.copy = import.copy /\ broken' = broken \union {import.paper}
               /\ UNCHANGED <<prefs, dropped, stored, tagged, linked>>
            \/ /\ import.pc = "process" /\ import'.pc = "link"
               /\ import'.copy = import.copy
               /\ \/ /\ stored' = stored \union {import.paper}
                     /\ broken' = broken \ {import.paper}
                  \/ stored' = stored /\ broken' = broken \union {import.paper}
               /\ UNCHANGED <<prefs, dropped, tagged, linked>>
            \/ /\ import.pc = "link" /\ import'.pc = "mark" /\ import'.copy = import.copy
               /\ IF import.paper \in stored
                  THEN /\ tagged' = tagged \union {import.paper}
                       /\ linked' = linked \union {import.paper} /\ import'.status = "ready"
                  ELSE UNCHANGED <<tagged, linked>> /\ import'.status = "failed"
               /\ UNCHANGED <<prefs, dropped, stored, broken>>
            \/ /\ import.pc = "ack" /\ import'.pc = "idle"
               /\ import'.copy = Prefs!Nothing
               /\ UNCHANGED <<prefs, dropped, stored, tagged, linked, broken>>
<1> USE IdleTypes, PrefsNumbers
<1>1. import \in Prefs!Import
  BY DEF Prefs!PrefsTypeOK
<1>2. CASE Prefs!Take
  <2>1. PICK p \in waiting :
          /\ waiting' = waiting \ {p}
          /\ import' = [import EXCEPT !.pc = "mark", !.paper = p, !.status = "processing"]
    BY <1>2 DEF Prefs!Take
  <2>2. /\ import'.pc = "mark" /\ import'.paper = p /\ import'.status = "processing"
        /\ import'.copy = import.copy
    BY <1>1, <2>1 DEF Prefs!Import
  <2> QED
    BY <1>2, <2>1, <2>2 DEF Prefs!Take, Prefs!Doing, Prefs!history, Prefs!papers
<1>3. CASE Prefs!Mark
  <2>1. /\ import'.pc = "commit" /\ import'.status = import.status
        /\ import'.paper = import.paper
        /\ import'.copy = Prefs!WithStatus(prefs, import.paper, import.status)
    BY <1>1, <1>3 DEF Prefs!Mark, Prefs!Import
  <2> QED
    BY <1>3, <2>1 DEF Prefs!Mark, Prefs!Doing, Prefs!history, Prefs!papers
<1>4. CASE Prefs!CommitMark
  <2>1. /\ import'.paper = import.paper /\ import'.copy = Prefs!Nothing
        /\ import'.pc = IF import.status = "processing" THEN "download" ELSE "ack"
    BY <1>4 DEF Prefs!CommitMark, Prefs!NoImport
  <2> QED
    BY <1>4, <2>1 DEF Prefs!CommitMark, Prefs!Doing, Prefs!papers
<1>5. CASE Prefs!Download
  <2>1. CASE import' = [import EXCEPT !.pc = "process"] /\ UNCHANGED broken
    <3>1. import'.pc = "process" /\ import'.paper = import.paper /\ import'.copy = import.copy
      BY <1>1, <2>1 DEF Prefs!Import
    <3> QED
      BY <1>5, <2>1, <3>1 DEF Prefs!Download, Prefs!Doing, Prefs!history
  <2>2. CASE broken' = broken \union {import.paper} /\ Prefs!Announce("failed")
    <3>1. /\ import'.pc = "mark" /\ import'.paper = import.paper
          /\ import'.copy = import.copy /\ import'.status = "failed"
      BY <1>1, <2>2 DEF Prefs!Import, Prefs!Announce
    <3> QED
      BY <1>5, <2>2, <3>1 DEF Prefs!Download, Prefs!Doing, Prefs!history
  <2> QED
    BY <1>5, <2>1, <2>2 DEF Prefs!Download
<1>6. CASE Prefs!Process
  <2>1. import'.pc = "link" /\ import'.paper = import.paper /\ import'.copy = import.copy
    BY <1>1, <1>6 DEF Prefs!Process, Prefs!Import
  <2> QED
    BY <1>6, <2>1 DEF Prefs!Process, Prefs!Doing, Prefs!history
<1>7. CASE Prefs!Link
  <2>1. /\ import'.pc = "mark" /\ import'.paper = import.paper /\ import'.copy = import.copy
        /\ import'.status = IF import.paper \in stored THEN "ready" ELSE "failed"
    BY <1>1, <1>7 DEF Prefs!Link, Prefs!Announce, Prefs!Import
  <2> QED
    BY <1>7, <2>1 DEF Prefs!Link, Prefs!Doing, Prefs!history
<1>8. CASE Prefs!Ack
  BY <1>8 DEF Prefs!Ack, Prefs!Doing, Prefs!history, Prefs!papers
<1> QED
  BY <1>2, <1>3, <1>4, <1>5, <1>6, <1>7, <1>8 DEF Prefs!WorkerStep

(* What a request that decides to import has found. *)
LEMMA Decides ==
  ASSUME Prefs!PrefsTypeOK, NEW m \in Members, Prefs!Decide(m)
  PROVE  /\ UNCHANGED <<stored, tagged, broken, dropped, deleted>>
         /\ linked \subseteq linked' /\ linked' \subseteq linked \union tagged
         /\ request'[m].pc \in {"idle", "record"}
         /\ request'[m].pc = "idle" =>
              UNCHANGED <<taken, preprint>> /\ request'[m].copy = Prefs!Nothing
         /\ request'[m].pc = "record" =>
              /\ request'[m].paper \in Papers \ taken
              /\ taken' = taken \union {request'[m].paper}
              /\ preprint' = [preprint EXCEPT ![request'[m].paper] = request[m].preprint]
              /\ \A p \in tagged : preprint[p] # request[m].preprint
              /\ \A e \in Prefs!Entries(request[m].copy) :
                   e.preprint = request[m].preprint => e.status \in {"ready", "failed"}
              /\ \E entry \in Prefs!Entries(request'[m].copy) :
                   /\ entry.paper = request'[m].paper /\ entry.status = "queued"
                   /\ entry.preprint = request[m].preprint
                   /\ Prefs!Entries(request'[m].copy)
                        \subseteq Prefs!Entries(request[m].copy) \union {entry}
<1> USE IdleTypes
<1> DEFINE a == request[m].preprint
           p == CHOOSE p \in Papers \ taken : TRUE
           entry == [preprint |-> a, paper |-> p, status |-> "queued"]
           c == Prefs!With(request[m].copy, entry)
<1>1. /\ request \in [Members -> Prefs!Request] /\ linked \subseteq Papers
      /\ taken \subseteq Papers /\ preprint \in [Papers -> Preprints]
      /\ tagged \subseteq Papers
      /\ a \in Preprints /\ request[m].copy \in Prefs!Prefs
  BY DEF Prefs!PrefsTypeOK, Prefs!Request
<1>2. UNCHANGED <<stored, tagged, broken, dropped, deleted>>
  BY DEF Prefs!Decide, Prefs!history
<1>3. CASE /\ request' = [request EXCEPT ![m] = Prefs!NoRequest]
           /\ linked' = linked \union Prefs!Owned(a) /\ UNCHANGED <<taken, preprint>>
  <2>1. request'[m] = Prefs!NoRequest
    BY <1>1, <1>3
  <2> QED
    BY <1>2, <1>3, <2>1 DEF Prefs!Owned
<1>4. CASE /\ taken # Papers /\ taken' = taken \union {p}
           /\ Prefs!Owned(a) = {} /\ ~Prefs!UnderWay(request[m].copy, a)
           /\ preprint' = [preprint EXCEPT ![p] = a]
           /\ request' = [request EXCEPT ![m] = [@ EXCEPT !.pc = "record", !.paper = p,
                                                   !.copy = c]]
           /\ UNCHANGED linked
  <2>1. p \in Papers \ taken
    BY <1>1, <1>4
  <2>2. \A q \in tagged : preprint[q] # a
    BY <1>4 DEF Prefs!Owned
  <2>3. \A e \in Prefs!Entries(request[m].copy) : e.preprint = a => e.status \in {"ready", "failed"}
    <3>1. \A e \in Prefs!Entries(request[m].copy) : e.status \in Prefs!Statuses
      BY <1>1, EntryTypes DEF Prefs!Entry
    <3> QED
      BY <1>4, <3>1 DEF Prefs!UnderWay, Prefs!Statuses
  <2> HIDE DEF p, a
  <2>4. /\ entry \in Prefs!Entry /\ entry.paper = p /\ entry.status = "queued"
        /\ entry.preprint = a
    BY <1>1, <2>1 DEF Prefs!Entry, Prefs!Statuses
  <2> HIDE DEF entry
  <2>5. /\ entry \in Prefs!Entries(c)
        /\ Prefs!Entries(c) \subseteq Prefs!Entries(request[m].copy) \union {entry}
    BY <1>1, <2>4, CopyWith
  <2> HIDE DEF c
  <2>6. request'[m].pc = "record" /\ request'[m].paper = p /\ request'[m].copy = c
    BY <1>1, <1>4 DEF Prefs!Request
  <2> QED
    BY <1>2, <1>4, <2>1, <2>2, <2>3, <2>4, <2>5, <2>6 DEF a
<1> QED
  BY <1>3, <1>4 DEF Prefs!Decide, Prefs!Finish

(* Every step is one of these, as long as nobody dies. *)
LEMMA StepsOfTheLiving ==
  ASSUME Prefs!PrefsTypeOK, [Prefs!PrefsNext]_prefsVars, importDeaths' = 0
  PROVE  /\ importDeaths = 0
         /\ \/ \E m \in Members :
                 Reads(m) \/ Writes(m) \/ Prefs!Decide(m) \/ Prefs!Enqueue(m)
            \/ Prefs!WorkerStep
            \/ UNCHANGED prefsVars
<1>1. importDeaths \in Nat
  BY PrefsNumbers DEF Prefs!PrefsTypeOK
<1>2. ~Prefs!Die
  BY <1>1 DEF Prefs!Die
<1>3. importDeaths' = importDeaths
  BY <1>2 DEF prefsVars, Prefs!PrefsNext, Prefs!WorkerStep, Prefs!Take, Prefs!Mark,
     Prefs!CommitMark, Prefs!Download, Prefs!Process, Prefs!Link, Prefs!Ack,
     Prefs!Arrive, Prefs!Proceed, Prefs!Favor, Prefs!Unfavor, Prefs!Rescope, Prefs!Read,
     Prefs!Delete, Prefs!Ask, Prefs!Commit, Prefs!CommitDelete, Prefs!Decide,
     Prefs!Record, Prefs!Enqueue
<1> QED
  BY <1>2, <1>3, ReadsOrWrites DEF Prefs!PrefsNext, Prefs!Proceed

(* Who moves a request, and who stays. *)
LEMMA Movers ==
  ASSUME Prefs!PrefsTypeOK, NEW m \in Members,
         Reads(m) \/ Writes(m) \/ Prefs!Decide(m) \/ Prefs!Enqueue(m)
  PROVE  /\ import' = import /\ taken \subseteq taken'
         /\ tagged' \subseteq tagged /\ stored' \subseteq stored
         /\ linked' \subseteq linked \union tagged
         /\ waiting' \subseteq waiting \union
                       (IF request[m].pc = "enqueue" THEN {request[m].paper} ELSE {})
         /\ \A n \in Members \ {m} : request'[n] = request[n]
         /\ Opening(m)' => \/ Opening(m) /\ request'[m].paper = request[m].paper
                                         /\ waiting' = waiting
                           \/ /\ Prefs!Decide(m) /\ request'[m].paper \notin taken
                              /\ waiting' = waiting
<1>1. request \in [Members -> Prefs!Request]
  BY DEF Prefs!PrefsTypeOK
<1>2. CASE Reads(m) \/ Writes(m)
  BY <1>2, IdleTypes DEF Reads, Writes, Deletes, Opening
<1>3. CASE Prefs!Decide(m)
  BY <1>3, Opens, Decides DEF Opening
<1>4. CASE Prefs!Enqueue(m)
  BY <1>1, <1>4, IdleTypes DEF Prefs!Enqueue, Prefs!Finish, Prefs!At, Opening
<1> QED
  BY <1>2, <1>3, <1>4

(* What is lost stays lost. *)
LEMMA LostStays ==
  ASSUME Prefs!PrefsTypeOK, Fresh, Early, NEW p, Lost(p),
         [Prefs!PrefsNext]_prefsVars, importDeaths' = 0
  PROVE  Lost(p)'
<1>1. ASSUME NEW m \in Members, Reads(m) \/ Writes(m) \/ Prefs!Decide(m) \/ Prefs!Enqueue(m)
      PROVE  Lost(p)'
  <2>1. /\ import' = import /\ p \in taken' /\ p \notin tagged' \union linked'
        /\ Failing => Failing'
    BY <1>1, Movers DEF Lost, Early, Failing
  <2>2. p \notin waiting'
    BY <1>1, Movers DEF Lost, Opening
  <2>3. \A n \in Members : Opening(n)' => request'[n].paper # p
    BY <1>1, Movers DEF Lost, Opening
  <2> QED
    BY <2>1, <2>2, <2>3 DEF Lost
<1>2. CASE Prefs!WorkerStep
  <2>1. UNCHANGED <<request, taken>>
    BY <1>2, WorkerActs
  <2>2. p \notin waiting' /\ p \notin tagged' \union linked'
    BY <1>2, WorkerActs DEF Lost, Failing
  <2>3. import'.pc # "idle" /\ import'.paper = p => Failing'
    BY <1>2, WorkerActs DEF Lost, Failing
  <2> QED
    BY <2>1, <2>2, <2>3 DEF Lost, Opening
<1>3. CASE UNCHANGED prefsVars
  BY <1>3 DEF prefsVars, Lost, Opening, Failing
<1> QED
  BY <1>1, <1>2, <1>3, StepsOfTheLiving

LEMMA EarlyStep ==
  ASSUME Prefs!PrefsTypeOK, Fresh, Early, Gone, [Prefs!PrefsNext]_prefsVars, importDeaths' = 0
  PROVE  Early'
<1>1. ASSUME NEW m \in Members, Reads(m) \/ Writes(m) \/ Prefs!Decide(m) \/ Prefs!Enqueue(m)
      PROVE  Early'
  <2>1. /\ import' = import /\ taken \subseteq taken'
        /\ tagged' \subseteq tagged /\ stored' \subseteq stored
    BY <1>1, Movers
  <2>2. linked' \subseteq tagged'
    <3>1. CASE Reads(m) \/ Writes(m) \/ Prefs!Enqueue(m)
      BY <3>1 DEF Early, Reads, Writes, Deletes, Prefs!Enqueue
    <3>2. CASE Prefs!Decide(m)
      BY <3>2, Decides DEF Early
    <3> QED
      BY <1>1, <3>1, <3>2
  <2>3. /\ \A q \in waiting' : q \notin stored' \union tagged'
        /\ import.pc # "idle" => import.paper \notin waiting'
    BY <1>1, Movers DEF Early, Fresh, Opening
  <2>4. \A n \in Members : Opening(n)' => request'[n].paper \notin stored' \union tagged'
    BY <1>1, Movers DEF Early, Opening
  <2> QED
    BY <2>1, <2>2, <2>3, <2>4 DEF Early
<1>2. CASE Prefs!WorkerStep
  <2>1. UNCHANGED <<request, taken>>
    BY <1>2, WorkerActs
  <2>2. import.pc # "idle" =>
          /\ import.paper \in taken
          /\ \A m \in Members : Opening(m) => request[m].paper # import.paper
    BY DEF Fresh
  <2>3. linked' \subseteq tagged' /\ tagged' \union stored' \subseteq taken'
    BY <1>2, <2>2, WorkerActs DEF Early
  <2>4. \A q \in waiting' : q \notin stored' \union tagged'
    BY <1>2, WorkerActs DEF Early
  <2>5. \A m \in Members : Opening(m)' => request'[m].paper \notin stored' \union tagged'
    BY <1>2, <2>1, <2>2, WorkerActs DEF Early, Opening
  <2>6. import'.pc # "idle" => import'.paper \notin waiting'
    BY <1>2, WorkerActs DEF Early
  <2>7. CASE import.pc = "idle"
    <3>1. /\ import'.pc = "mark" /\ import'.status = "processing" /\ import'.paper \in waiting
          /\ UNCHANGED <<stored, tagged>>
      BY <1>2, <2>7, WorkerActs
    <3> QED
      BY <2>3, <2>4, <2>5, <2>6, <3>1 DEF Early
  <2>8. CASE import.pc # "idle"
    <3>1. import'.pc # "idle" => import'.paper = import.paper
      BY <1>2, <2>8, WorkerActs
    <3>2. import'.pc \in {"mark", "commit"} /\ import'.status = "processing"
            => import.paper \notin stored' \union tagged'
      BY <1>2, <2>8, WorkerActs DEF Early
    <3>3. import'.pc \in {"download", "process"} => import.paper \notin stored' \union tagged'
      BY <1>2, <2>8, WorkerActs DEF Early
    <3>4. import'.pc = "link" => import.paper \notin tagged'
      BY <1>2, <2>8, WorkerActs DEF Early
    <3>5. import'.pc \in {"mark", "commit"} /\ import'.status = "failed"
            => import.paper \notin tagged'
      BY <1>2, <2>8, WorkerActs DEF Early
    <3> QED
      BY <2>3, <2>4, <2>5, <2>6, <3>1, <3>2, <3>3, <3>4, <3>5 DEF Early
  <2> QED
    BY <2>7, <2>8
<1>3. CASE UNCHANGED prefsVars
  BY <1>3 DEF prefsVars, Early, Opening
<1> QED
  BY <1>1, <1>2, <1>3, StepsOfTheLiving

(* What failed in hand is lost. *)
LEMMA FailedIsLost ==
  ASSUME Fresh, Early, import.pc \in {"mark", "commit"}, import.status = "failed"
  PROVE  Lost(import.paper)
BY DEF Fresh, Early, Lost, Failing

LEMMA GoneStep ==
  ASSUME Prefs!PrefsTypeOK, Fresh, Early, Gone, [Prefs!PrefsNext]_prefsVars, importDeaths' = 0
  PROVE  Gone'
<1>1. \A p : Lost(p) => Lost(p)'
  BY LostStays
<1>2. ASSUME NEW m \in Members, Reads(m) \/ Writes(m) \/ Prefs!Decide(m)
      PROVE  Gone'
  <2>1. \A p \in broken' \union deleted' : Lost(p)
    <3>1. CASE Reads(m) \/ Prefs!Decide(m)
      BY <3>1, Decides DEF Gone, Reads
    <3>2. CASE Writes(m)
      BY <3>2 DEF Gone, Writes, Deletes
    <3> QED
      BY <1>2, <3>1, <3>2
  <2>2. \A n \in Members : request'[n].pc = "delete" => Lost(request'[n].paper)
    <3>1. request'[m].pc = "delete" => Lost(request'[m].paper)
      BY <1>2, Decides, IdleTypes DEF Gone, Reads, Writes
    <3>2. \A n \in Members \ {m} : request'[n] = request[n]
      BY <1>2, Movers
    <3> QED
      BY <3>1, <3>2 DEF Gone
  <2> QED
    BY <1>1, <2>1, <2>2 DEF Gone
<1>3. ASSUME NEW m \in Members, Prefs!Enqueue(m)  PROVE Gone'
  <2>0. PICK p : p = request[m].paper
    OBVIOUS
  <2>1. /\ request[m].pc = "enqueue" /\ request' = [request EXCEPT ![m] = Prefs!NoRequest]
        /\ UNCHANGED <<tagged, linked, taken, import, stored, deleted>>
        /\ \/ waiting' = waiting /\ broken' = broken \union {p}
           \/ broken' = broken
    BY <1>3, <2>0 DEF Prefs!Enqueue, Prefs!Finish, Prefs!At
  <2>2. request'[m].pc = "idle" /\ \A n \in Members \ {m} : request'[n] = request[n]
    BY <2>1, IdleTypes DEF Prefs!PrefsTypeOK
  <2>3. waiting' = waiting => Lost(p)'
    <3>1. p \in taken /\ p \notin tagged \union linked \union waiting
      BY <2>0, <2>1 DEF Fresh, Early, Opening
    <3>2. \A n \in Members : Opening(n)' => request'[n].paper # p
      BY <2>0, <2>1, <2>2 DEF Fresh, Opening
    <3>3. import.pc # "idle" => import.paper # p
      BY <2>0, <2>1 DEF Fresh, Opening
    <3> QED
      BY <2>1, <3>1, <3>2, <3>3 DEF Lost
  <2>4. \A q \in broken' \union deleted' : Lost(q)'
    BY <1>1, <2>1, <2>3 DEF Gone
  <2>5. \A n \in Members : request'[n].pc = "delete" => Lost(request'[n].paper)
    BY <2>2 DEF Gone
  <2> QED
    BY <1>1, <2>4, <2>5 DEF Gone
<1>4. CASE Prefs!WorkerStep
  <2>1. UNCHANGED <<request, taken, deleted>>
    BY <1>4, WorkerActs
  <2>0. PICK p : p = import.paper
    OBVIOUS
  <2> DEFINE fails == \/ import.pc = "download" /\ import'.status = "failed" /\ import'.pc = "mark"
                      \/ import.pc = "process" /\ import'.pc = "link" /\ stored' = stored
  <2>2. ASSUME broken' = broken \union {p}, fails
        PROVE  Lost(p)'
    <3>1. /\ p \in taken /\ p \notin stored \union tagged \union linked
          /\ p \notin waiting
          /\ \A m \in Members : Opening(m) => request[m].paper # p
      BY <2>0, <2>2 DEF Fresh, Early
    <3>2. /\ UNCHANGED <<tagged, linked>> /\ waiting' = waiting
          /\ import'.paper = p
      BY <1>4, <2>0, <2>2, WorkerActs
    <3>3. Failing'
      BY <2>0, <2>2, <3>1, <3>2 DEF Failing
    <3> QED
      BY <2>1, <3>1, <3>2, <3>3 DEF Lost, Opening
  <2>3. broken' \subseteq broken \/ (fails /\ broken' = broken \union {p})
    BY <1>4, <2>0, WorkerActs
  <2> HIDE DEF fails
  <2>4. \A q \in broken' : q \in broken \/ Lost(q)'
    BY <2>2, <2>3
  <2> QED
    BY <1>1, <2>1, <2>4 DEF Gone
<1>5. CASE UNCHANGED prefsVars
  BY <1>1, <1>5 DEF prefsVars, Gone
<1> QED
  BY <1>2, <1>3, <1>4, <1>5, StepsOfTheLiving

(* The preprint of a paper that is taken does not change, what is dropped   *)
(* stays so, and a paper on its way to the list comes from a decision.      *)
LEMMA NamesStay ==
  ASSUME Prefs!PrefsTypeOK, [Prefs!PrefsNext]_prefsVars, importDeaths' = 0
  PROVE  /\ taken \subseteq taken' /\ dropped \subseteq dropped' /\ deleted \subseteq deleted'
         /\ \A p \in taken : preprint'[p] = preprint[p]
<1>1. taken \subseteq Papers /\ preprint \in [Papers -> Preprints]
  BY DEF Prefs!PrefsTypeOK
<1>2. ASSUME NEW m \in Members, Reads(m) \/ Writes(m) \/ Prefs!Enqueue(m)
      PROVE  UNCHANGED <<taken, preprint>> /\ dropped \subseteq dropped' /\ deleted \subseteq deleted'
  BY <1>2 DEF Reads, Writes, Deletes, Prefs!Enqueue
<1>3. ASSUME NEW m \in Members, Prefs!Decide(m)
      PROVE  /\ taken \subseteq taken' /\ UNCHANGED <<dropped, deleted>>
             /\ \A p \in taken : preprint'[p] = preprint[p]
  BY <1>1, <1>3, Decides
<1>4. CASE Prefs!WorkerStep
  BY <1>4, WorkerActs
<1>5. CASE UNCHANGED prefsVars
  BY <1>5 DEF prefsVars
<1> QED
  BY <1>2, <1>3, <1>4, <1>5, StepsOfTheLiving

LEMMA TellingStep ==
  ASSUME Prefs!PrefsTypeOK, Copies, Fresh, Early, Gone, Telling,
         [Prefs!PrefsNext]_prefsVars, importDeaths' = 0
  PROVE  Telling'
<1> USE IdleTypes
<1> DEFINE Told(c) == \A e \in Prefs!Entries(c) :
                        e.preprint = preprint'[e.paper] /\ (e.status = "failed" => Lost(e.paper)')
<1>1. \A p : Lost(p) => Lost(p)'
  BY LostStays
<1>2. \A c, known : Tells(c) /\ Whole(c, taken, known) => Told(c)
  BY <1>1, NamesStay DEF Tells, Whole
<1>3. /\ Told(prefs) /\ Told(import.copy) /\ \A m \in Members : Told(request[m].copy)
      /\ Told(Prefs!Nothing)
  BY <1>2 DEF Copies, Telling
<1>4. \A c, d : Told(c) /\ Prefs!Entries(d) \subseteq Prefs!Entries(c) => Told(d)
  OBVIOUS
<1> SUFFICES Told(prefs') /\ Told(import'.copy) /\ \A m \in Members : Told(request'[m].copy)
  BY DEF Telling, Tells, Prefs!Entries
<1> HIDE DEF Told
<1>5. ASSUME NEW m \in Members, Told(prefs'), import' = import, Told(request'[m].copy),
             \A n \in Members \ {m} : request'[n] = request[n]
      PROVE  Told(prefs') /\ Told(import'.copy) /\ \A n \in Members : Told(request'[n].copy)
  BY <1>3, <1>5
<1>6. ASSUME NEW m \in Members, Reads(m) \/ Writes(m) \/ Prefs!Decide(m) \/ Prefs!Enqueue(m)
      PROVE  Told(prefs') /\ Told(request'[m].copy)
  <2>1. CASE Reads(m)
    BY <1>3, <1>4, <2>1 DEF Reads
  <2>2. CASE Writes(m)
    BY <1>3, <2>2 DEF Writes
  <2>3. CASE Prefs!Enqueue(m)
    BY <1>3, <2>3 DEF Prefs!Enqueue, Prefs!Finish, Prefs!PrefsTypeOK
  <2>4. CASE Prefs!Decide(m)
    <3>1. prefs' = prefs
      BY <2>4, Opens
    <3>2. CASE request'[m].pc = "idle"
      BY <1>3, <2>4, <3>1, <3>2, Decides
    <3>3. CASE request'[m].pc = "record"
      <4>1. PICK entry \in Prefs!Entries(request'[m].copy) :
              /\ entry.paper = request'[m].paper /\ entry.status = "queued"
              /\ entry.preprint = request[m].preprint
              /\ Prefs!Entries(request'[m].copy)
                   \subseteq Prefs!Entries(request[m].copy) \union {entry}
        BY <2>4, <3>3, Decides
      <4>2. preprint'[request'[m].paper] = request[m].preprint
        BY <2>4, <3>3, Decides DEF Prefs!PrefsTypeOK
      <4> QED
        BY <1>3, <3>1, <4>1, <4>2 DEF Told
    <3> QED
      BY <2>4, <3>2, <3>3, Decides
  <2> QED
    BY <1>6, <2>1, <2>2, <2>3, <2>4
<1>7. CASE Prefs!WorkerStep
  <2>1. UNCHANGED request /\ prefs' \in {prefs, import.copy}
    BY <1>7, WorkerActs
  <2>2. \/ import'.copy \in {import.copy, Prefs!Nothing}
        \/ /\ import.pc = "mark"
           /\ import'.copy = Prefs!WithStatus(prefs, import.paper, import.status)
    BY <1>7, WorkerActs
  <2>3. CASE /\ import.pc = "mark"
             /\ import'.copy = Prefs!WithStatus(prefs, import.paper, import.status)
    <3> DEFINE c == Prefs!WithStatus(prefs, import.paper, import.status)
    <3>1. prefs \in Prefs!Prefs /\ import.status \in Prefs!Statuses
      BY DEF Prefs!PrefsTypeOK, Prefs!Import
    <3>2. \A e \in Prefs!Entries(c) :
            /\ IF e.paper = import.paper THEN e.status = import.status
                                         ELSE e \in Prefs!Entries(prefs)
            /\ \E f \in Prefs!Entries(prefs) : f.paper = e.paper /\ f.preprint = e.preprint
      BY <3>1, StatusOfCopy
    <3> HIDE DEF c
    <3>0. PICK p : p = import.paper
      OBVIOUS
    <3>3. import.status = "failed" => Lost(p)'
      BY <1>1, <2>3, <3>0, FailedIsLost
    <3>4. Told(c)
      BY <1>3, <3>0, <3>2, <3>3 DEF Told
    <3> QED
      BY <1>3, <2>1, <2>3, <3>4 DEF c
  <2> QED
    BY <1>3, <2>1, <2>2, <2>3
<1>8. CASE UNCHANGED prefsVars
  BY <1>3, <1>8 DEF prefsVars
<1> QED
  BY <1>5, <1>6, <1>7, <1>8, Movers, StepsOfTheLiving

(* A commit of the preferences keeps an entry, drops it or deletes it. *)
LEMMA EntriesGo ==
  ASSUME Prefs!PrefsTypeOK, [Prefs!PrefsNext]_prefsVars, importDeaths' = 0
  PROVE  Prefs!Named(prefs) \union dropped \union deleted
           \subseteq Prefs!Named(prefs') \union dropped' \union deleted'
<1>1. dropped \subseteq dropped' /\ deleted \subseteq deleted'
  BY NamesStay
<1>2. CASE prefs' = prefs
  BY <1>1, <1>2
<1>3. CASE dropped' = dropped \union Prefs!Dropped(prefs', {})
  BY <1>1, <1>3 DEF Prefs!Dropped
<1>4. ASSUME NEW p, Deletes(p)
      PROVE  Prefs!Named(prefs) \subseteq Prefs!Named(prefs') \union dropped' \union deleted'
  BY <1>4 DEF Deletes, Prefs!Dropped
<1>5. ASSUME NEW m \in Members, Reads(m) \/ Writes(m) \/ Prefs!Decide(m) \/ Prefs!Enqueue(m)
      PROVE  \/ prefs' = prefs \/ dropped' = dropped \union Prefs!Dropped(prefs', {})
             \/ \E p : Deletes(p)
  BY <1>5, Opens DEF Reads, Writes, Prefs!Enqueue
<1>6. CASE Prefs!WorkerStep
  BY <1>1, <1>2, <1>3, <1>6, WorkerActs
<1>7. CASE UNCHANGED prefsVars
  BY <1>2, <1>7 DEF prefsVars
<1> QED
  BY <1>1, <1>2, <1>3, <1>4, <1>5, <1>6, <1>7, StepsOfTheLiving

(* An import that is recorded now was so before, or a request has just     *)
(* written its copy.                                                       *)
LEMMA RecordedNow ==
  ASSUME Prefs!PrefsTypeOK, Fresh, [Prefs!PrefsNext]_prefsVars, importDeaths' = 0,
         NEW p, Recorded(p)'
  PROVE  /\ p \in taken
         /\ ~Recorded(p) => \E m \in Members : /\ Writes(m) /\ request[m].pc = "record"
                                               /\ request[m].paper = p
<1>1. p \in taken' /\ \A m \in Members : request'[m].pc = "record" => request'[m].paper # p
  BY DEF Recorded
<1>2. ASSUME NEW m \in Members, Reads(m) \/ Writes(m) \/ Prefs!Decide(m) \/ Prefs!Enqueue(m)
      PROVE  /\ p \in taken /\ \A n \in Members \ {m} : request'[n] = request[n]
             /\ request[m].pc = "record" => Writes(m)
  <2>1. request[m].pc = "record" => Writes(m)
    BY <1>2 DEF Reads, Prefs!Decide, Prefs!Enqueue, Prefs!At
  <2>2. p \in taken
    BY <1>1, <1>2, Opens DEF Reads, Writes, Prefs!Enqueue
  <2> QED
    BY <1>2, <2>1, <2>2, Movers
<1>3. ASSUME NEW m \in Members, Reads(m) \/ Writes(m) \/ Prefs!Decide(m) \/ Prefs!Enqueue(m)
      PROVE  ~Recorded(p) => Writes(m) /\ request[m].pc = "record" /\ request[m].paper = p
  BY <1>1, <1>2, <1>3 DEF Recorded
<1>4. CASE Prefs!WorkerStep
  BY <1>1, <1>4, WorkerActs DEF Recorded
<1>5. CASE UNCHANGED prefsVars
  BY <1>1, <1>5 DEF prefsVars, Recorded
<1> QED
  BY <1>2, <1>3, <1>4, <1>5, StepsOfTheLiving

LEMMA EnteredStep ==
  ASSUME Prefs!PrefsTypeOK, Fresh, Entered, Sole, [Prefs!PrefsNext]_prefsVars,
         importDeaths' = 0
  PROVE  Entered'
<1>1. ASSUME NEW p, Recorded(p)'
      PROVE  p \in Prefs!Named(prefs') \union dropped' \union deleted'
  <2>1. CASE Recorded(p)
    BY <2>1, EntriesGo DEF Entered, Recorded
  <2>2. CASE ~Recorded(p)
    <3>1. PICK m \in Members :
            Writes(m) /\ request[m].pc = "record" /\ request[m].paper = p
      BY <1>1, <2>2, RecordedNow
    <3>2. prefs' = request[m].copy
      BY <3>1 DEF Writes
    <3>3. p \in Prefs!Named(request[m].copy)
      BY <3>1 DEF Sole
    <3> QED
      BY <3>2, <3>3
  <2> QED
    BY <2>1, <2>2
<1> QED
  BY <1>1 DEF Entered, Prefs!Named, Prefs!Entries

(* Of what it has read, a request that decides to import can only find     *)
(* imports of the preprint that are lost.                                  *)
LEMMA OnlyLostAreFound ==
  ASSUME Prefs!PrefsTypeOK, Copies, Fresh, Early, Gone, Telling, NEW m \in Members,
         Prefs!Decide(m), NEW p \in Prefs!Named(request[m].copy),
         preprint[p] = request[m].preprint, \A q \in tagged : preprint[q] # request[m].preprint,
         \A e \in Prefs!Entries(request[m].copy) :
           e.preprint = request[m].preprint => e.status \in {"ready", "failed"}
  PROVE  Lost(p)
<1>1. PICK e \in Prefs!Entries(request[m].copy) : e.paper = p
  BY DEF Prefs!Named
<1>2. e.status \in {"ready", "failed"}
  BY <1>1 DEF Telling, Tells
<1>3. e.status = "failed" => Lost(p)
  BY <1>1 DEF Telling, Tells
<1>4. e.status = "ready" => p \in linked \union deleted
  BY <1>1 DEF Copies, Whole
<1>5. p \notin linked
  BY DEF Early
<1> QED
  BY <1>2, <1>3, <1>4, <1>5 DEF Gone

LEMMA SoleStep ==
  ASSUME Prefs!PrefsTypeOK, Copies, Fresh, Early, Gone, Telling, Sole,
         [Prefs!PrefsNext]_prefsVars, importDeaths' = 0
  PROVE  Sole'
<1>1. ASSUME NEW n \in Members, request'[n].pc = "record"
      PROVE  request'[n] = request[n] \/ Prefs!Decide(n)
  <2>1. ASSUME NEW m \in Members, Reads(m) \/ Writes(m) \/ Prefs!Decide(m) \/ Prefs!Enqueue(m)
        PROVE  request'[n] = request[n] \/ Prefs!Decide(n)
    <3>1. CASE n = m
      <4>1. CASE Prefs!Enqueue(n)
        BY <1>1, <4>1, IdleTypes DEF Prefs!Enqueue, Prefs!Finish, Prefs!PrefsTypeOK
      <4> QED
        BY <1>1, <2>1, <3>1, <4>1, IdleTypes DEF Reads, Writes
    <3> QED
      BY <2>1, <3>1, Movers
  <2>2. CASE Prefs!WorkerStep
    BY <2>2, WorkerActs
  <2>3. CASE UNCHANGED prefsVars
    BY <2>3 DEF prefsVars
  <2> QED
    BY <2>1, <2>2, <2>3, StepsOfTheLiving
<1>2. \A p \in taken : preprint'[p] = preprint[p]
  BY NamesStay
<1>3. \A p : Lost(p) => Lost(p)'
  BY LostStays
<1> DEFINE Alone(n) ==
      /\ request'[n].paper \in Prefs!Named(request'[n].copy)
      /\ \A p \in Prefs!Named(request'[n].copy) \ {request'[n].paper} :
           preprint'[p] = preprint'[request'[n].paper] => Lost(p)'
<1>4. \A n \in Members : Prefs!Named(request[n].copy) \subseteq taken
  BY DEF Copies, Whole, Prefs!Named
<1>5. ASSUME NEW n \in Members, request'[n].pc = "record", request'[n] = request[n]
      PROVE  Alone(n)
  <2>1. request[n].paper \in taken
    BY <1>5 DEF Fresh, Opening
  <2>2. /\ request[n].paper \in Prefs!Named(request[n].copy)
        /\ \A p \in Prefs!Named(request[n].copy) \ {request[n].paper} :
             preprint[p] = preprint[request[n].paper] => Lost(p)
    BY <1>5 DEF Sole
  <2>3. \A p \in Prefs!Named(request[n].copy) \ {request[n].paper} :
          preprint'[p] = preprint'[request[n].paper] => Lost(p)'
    BY <1>2, <1>3, <1>4, <2>1, <2>2
  <2> QED
    BY <1>5, <2>2, <2>3
<1>6. ASSUME NEW n \in Members, request'[n].pc = "record", Prefs!Decide(n)
      PROVE  Alone(n)
  <2> DEFINE new == request'[n].paper
             a == request[n].preprint
  <2>1. /\ new \in Papers \ taken /\ preprint'[new] = a
        /\ \A q \in tagged : preprint[q] # a
        /\ \A e \in Prefs!Entries(request[n].copy) :
             e.preprint = a => e.status \in {"ready", "failed"}
        /\ \E entry \in Prefs!Entries(request'[n].copy) :
             /\ entry.paper = new
             /\ Prefs!Entries(request'[n].copy)
                  \subseteq Prefs!Entries(request[n].copy) \union {entry}
    BY <1>6, Decides DEF Prefs!PrefsTypeOK
  <2>2. /\ new \in Prefs!Named(request'[n].copy)
        /\ Prefs!Named(request'[n].copy) \subseteq Prefs!Named(request[n].copy) \union {new}
    BY <2>1 DEF Prefs!Named
  <2>3. \A p \in Prefs!Named(request[n].copy) : preprint[p] = a => Lost(p)
    BY <1>6, <2>1, OnlyLostAreFound
  <2> HIDE DEF new, a
  <2>4. \A p \in Prefs!Named(request'[n].copy) \ {new} : preprint'[p] = preprint'[new] => Lost(p)'
    BY <1>2, <1>3, <1>4, <2>1, <2>2, <2>3
  <2> QED
    BY <2>2, <2>4 DEF new
<1> QED
  BY <1>1, <1>5, <1>6 DEF Sole, Prefs!Named, Prefs!Entries

LEMMA RivalsStep ==
  ASSUME Prefs!PrefsTypeOK, Fresh, Early, Gone, Entered, Sole, Rivals,
         [Prefs!PrefsNext]_prefsVars, importDeaths' = 0
  PROVE  Rivals'
<1>1. /\ dropped \subseteq dropped' /\ \A p \in taken : preprint'[p] = preprint[p]
  BY NamesStay
<1>2. \A p : Lost(p) => Lost(p)'
  BY LostStays
<1> DEFINE Beaten(p) == p \in dropped' \/ Lost(p)'
<1>3. ASSUME NEW p \in taken, NEW q \in taken, Recorded(p), preprint[p] = preprint[q], p # q,
             NEW m \in Members, Writes(m), request[m].pc = "record", request[m].paper = q
      PROVE  Beaten(p)
  <2>1. CASE p \in Prefs!Named(request[m].copy)
    BY <1>2, <1>3, <2>1 DEF Sole
  <2>2. CASE p \in deleted
    BY <1>2, <2>2 DEF Gone
  <2>3. CASE p \in Prefs!Named(prefs) \ Prefs!Named(request[m].copy)
    <3>1. prefs' = request[m].copy /\ dropped' = dropped \union Prefs!Dropped(prefs', {})
      BY <1>3 DEF Writes
    <3> QED
      BY <2>3, <3>1 DEF Prefs!Dropped
  <2> QED
    BY <1>1, <1>3, <2>1, <2>2, <2>3 DEF Entered
<1>4. ASSUME NEW p, NEW q, Recorded(p)', Recorded(q)', preprint'[p] = preprint'[q], p # q
      PROVE  Beaten(p) \/ Beaten(q)
  <2>1. p \in taken /\ q \in taken
    BY <1>4, RecordedNow
  <2>2. preprint[p] = preprint[q]
    BY <1>1, <1>4, <2>1
  <2>3. CASE Recorded(p) /\ Recorded(q)
    BY <1>1, <1>2, <1>4, <2>1, <2>2, <2>3 DEF Rivals
  <2>4. \A u \in {p, q} : ~Recorded(u) =>
          \E m \in Members : Writes(m) /\ request[m].pc = "record" /\ request[m].paper = u
    BY <1>4, RecordedNow
  <2>5. CASE Recorded(p) /\ ~Recorded(q)
    BY <1>3, <1>4, <2>1, <2>2, <2>4, <2>5
  <2>6. CASE Recorded(q) /\ ~Recorded(p)
    BY <1>3, <1>4, <2>1, <2>2, <2>4, <2>6
  <2>7. CASE ~Recorded(p) /\ ~Recorded(q)
    <3>1. PICK m \in Members : Writes(m) /\ request[m].pc = "record" /\ request[m].paper = p
      BY <2>4, <2>7
    <3>2. PICK n \in Members : Writes(n) /\ request[n].pc = "record" /\ request[n].paper = q
      BY <2>4, <2>7
    <3>3. n # m
      BY <1>4, <3>1, <3>2
    <3>4. request'[n] = request[n]
      BY <3>1, <3>3 DEF Writes
    <3> QED
      BY <3>2, <3>4 DEF Writes
  <2> QED
    BY <2>3, <2>5, <2>6, <2>7
<1> QED
  BY <1>4 DEF Rivals

LEMMA OnceInit ==
  ASSUME Init
  PROVE  OnceInv
<1>1. /\ Prefs!PrefsInit /\ ImportInv
  BY ImportInit DEF Init
<1>2. /\ stored = {} /\ tagged = {} /\ linked = {} /\ broken = {} /\ deleted = {}
      /\ taken = {} /\ waiting = {} /\ prefs = Prefs!Nothing
      /\ import = Prefs!NoImport /\ request = [m \in Members |-> Prefs!NoRequest]
  BY <1>1 DEF Prefs!PrefsInit
<1>3. Early /\ Gone /\ Telling /\ Entered /\ Sole /\ Rivals
  BY <1>2, IdleTypes DEF Early, Gone, Telling, Tells, Entered, Sole, Rivals, Opening
<1> QED
  BY <1>1, <1>3 DEF OnceInv

LEMMA OnceInvariant == Spec => []OnceInv
<1>1. ASSUME ImportInv, [Next]_vars  PROVE ImportInv'
  BY <1>1, StepOfEach, PrefsTypesStep, CopiesStep, FreshStep, MarksStep, AttendedStep
  DEF ImportInv
<1>2. ASSUME OnceInv, [Next]_vars, importDeaths' = 0
      PROVE  (Early /\ Gone /\ Telling /\ Entered /\ Sole /\ Rivals)'
  <2>1. Prefs!PrefsTypeOK /\ Copies /\ Fresh /\ [Prefs!PrefsNext]_prefsVars
    BY <1>2, StepOfEach DEF OnceInv, ImportInv
  <2>2. Early /\ Gone /\ Telling /\ Entered /\ Sole /\ Rivals
    BY <1>2, <2>1, StepsOfTheLiving DEF OnceInv
  <2> QED
    BY <1>2, <2>1, <2>2, EarlyStep, GoneStep, TellingStep, EnteredStep, SoleStep, RivalsStep
<1>3. OnceInv /\ [Next]_vars => OnceInv'
  BY <1>1, <1>2 DEF OnceInv
<1> QED
  BY <1>3, OnceInit, PTL DEF Spec

(* The rivals of a paper of the project are lost or were dropped. *)
LEMMA OnceShows == OnceInv => Prefs!ImportedOnce
<1> SUFFICES ASSUME OnceInv, importDeaths = 0, NEW p \in linked \ dropped,
                    NEW q \in linked \ dropped, preprint[p] = preprint[q], p # q
             PROVE  FALSE
  BY DEF Prefs!ImportedOnce
<1>1. p \in tagged /\ q \in tagged /\ p \in taken /\ q \in taken
  BY DEF OnceInv, Early
<1>2. Recorded(p) /\ Recorded(q)
  BY <1>1 DEF OnceInv, Early, Recorded, Opening
<1>3. ~Lost(p) /\ ~Lost(q)
  BY DEF Lost
<1> QED
  BY <1>1, <1>2, <1>3 DEF OnceInv, Rivals

(* One run of a type is active at a time and a run is evaluated once, and  *)
(* as long as the worker lives a preprint is imported once, whatever       *)
(* members ask for at the same time and whatever they write back from old  *)
(* copies: a second paper of it only comes after the entry of the first    *)
(* was overwritten or pushed out.                                          *)
THEOREM NothingIsDoneTwice == Spec => []DoneOnce
BY OnceInvariant, OnceShows, RunsAreDoneOnce, PTL DEF DoneOnce
-----------------------------------------------------------------------------
(* LeadAgent: the conversation. *)
Talks == [asked : Nat, answered : Nat, found : Nat]

(* What Redis has is a conversation that was whole, of a round before the  *)
(* last.                                                                   *)
GoodCheckpoint(c) ==
  /\ c.iteration \in 1..MaxIterations /\ c.resumed \in 0..MaxResumeCount
  /\ c.talk \in Talks /\ c.chunks = c.talk.found
  /\ c.talk.asked = c.talk.answered

(* The types, and at each place of the loop how many answers are missing.  *)
TalkInv ==
  /\ task \in {"queued", "running", "retrying", "completed", "failed"}
  /\ attempts \in 0..MaxTaskAttempts
  /\ overspent \in BOOLEAN /\ stopped \in BOOLEAN /\ cardMade \in BOOLEAN
  /\ pc \in {"idle", "read", "restore", "complete", "model", "tools", "card"}
  /\ checkpoint = None \/ GoodCheckpoint(checkpoint)
  /\ iteration \in 0..(MaxIterations + 1) /\ talk \in Talks
  /\ chunks \in Nat /\ todo \in 0..MaxAnswered /\ traced \in Nat
  /\ tried \in 0..MaxRetries /\ resumed \in 0..MaxResumeCount
  /\ agentDeaths \in 0..MaxAgentDeaths
  /\ pc \in {"model", "tools"} => iteration >= 1
  /\ pc = "model" => talk.asked = talk.answered
  /\ pc = "tools" => talk.asked = talk.answered + todo /\ iteration <= MaxIterations
  /\ pc \in {"model", "tools", "card"} => chunks = talk.found

LEMMA AgentNumbers ==
  /\ MaxTaskAttempts \in Nat \ {0} /\ MaxIterations \in Nat \ {0}
  /\ MaxRetries \in Nat /\ MaxResumeCount \in Nat /\ MaxAnswered \in Nat \ {0}
  /\ MaxAgentDeaths \in Nat
BY ServicesAssumption DEF Agent!AgentAssumption

LEMMA TalkShows ==
  CallsInv /\ TalkInv => Agent!AgentTypeOK /\ Agent!ConversationIsWhole
BY DEF CallsInv, TalkInv, GoodCheckpoint, Agent!AgentTypeOK, Agent!Running,
   Agent!ConversationIsWhole

(* A run that is over has forgotten everything. *)
LEMMA SettleKeeps ==
  ASSUME TalkInv, NEW outcome \in {"retry", "queued", "failed", "completed"},
         Agent!Settle(outcome), attempts' = attempts,
         overspent' \in BOOLEAN, stopped' \in BOOLEAN, cardMade' = cardMade,
         checkpoint' = checkpoint \/ checkpoint' = None, agentDeaths' = agentDeaths
  PROVE  TalkInv'
<1>1. /\ pc' = "idle" /\ iteration' = 0 /\ talk' = [asked |-> 0, answered |-> 0, found |-> 0]
      /\ chunks' = 0 /\ todo' = 0 /\ traced' = 0 /\ tried' = 0 /\ resumed' = 0
      /\ task' \in {"queued", "retrying", "completed", "failed"}
  BY DEF Agent!Settle, Agent!ForgetRun, Agent!Blank
<1> QED
  BY <1>1, AgentNumbers DEF TalkInv, Talks

(* Every step of the agent keeps TalkInv. *)
LEMMA TalkStep ==
  ASSUME TalkInv, [Agent!AgentNext]_agentVars
  PROVE  TalkInv'
<1> USE AgentNumbers
<1>1. CASE Agent!Take
  BY <1>1 DEF TalkInv, Agent!Take, Agent!memory
<1>2. CASE Agent!Read
  <2>1. /\ UNCHANGED <<attempts, metrics, charged, overspent, stopped, cardMade,
                       checkpoint, made, agentDeaths>>
        /\ \/ Agent!Settle("queued") \/ Agent!Settle("failed") \/ Agent!Settle("completed")
           \/ pc' = "restore" /\ UNCHANGED <<task, iteration, talk, chunks, todo, traced,
                                             tried, resumed>>
    BY <1>2 DEF Agent!Read, Agent!memory
  <2>2. ASSUME pc' = "restore" /\ UNCHANGED <<task, iteration, talk, chunks, todo, traced,
                                              tried, resumed>>
        PROVE  TalkInv'
    BY <2>1, <2>2 DEF TalkInv
  <2>3. overspent' \in BOOLEAN /\ stopped' \in BOOLEAN
    BY <2>1 DEF TalkInv
  <2> QED
    BY <2>1, <2>2, <2>3, SettleKeeps
<1>3. CASE Agent!Restore
  <2>1. /\ pc' = "model" /\ todo' = 0 /\ traced' = 0 /\ tried' = 0
        /\ UNCHANGED <<task, attempts, overspent, cardMade, stopped, checkpoint, agentDeaths>>
        /\ \/ /\ iteration' = 1 /\ talk' = [asked |-> 0, answered |-> 0, found |-> 0]
              /\ chunks' = 0 /\ resumed' = 0
           \/ /\ iteration' = 1 /\ talk' = [asked |-> 0, answered |-> 0, found |-> 0]
              /\ chunks' = 0 /\ resumed' = checkpoint.resumed /\ checkpoint # None
           \/ /\ iteration' = checkpoint.iteration + 1 /\ talk' = checkpoint.talk
              /\ chunks' = checkpoint.chunks /\ resumed' = checkpoint.resumed + 1
              /\ ~(checkpoint.resumed >= MaxResumeCount) /\ checkpoint # None
    BY <1>3 DEF Agent!Restore, Agent!Blank, Agent!row
  <2> QED
    BY <2>1 DEF TalkInv, Talks, GoodCheckpoint
<1>4. CASE Agent!CallRefused
  <2>1. /\ UNCHANGED <<attempts, overspent, stopped, cardMade, checkpoint, agentDeaths>>
        /\ Agent!Settle("retry") \/ Agent!Settle("queued") \/ Agent!Settle("failed")
    BY <1>4 DEF Agent!CallRefused
  <2> QED
    BY <2>1, SettleKeeps DEF TalkInv
<1>5. CASE Agent!CallFails
  <2>1. UNCHANGED <<attempts, stopped, cardMade, checkpoint, agentDeaths>> /\ pc = "model"
    BY <1>5 DEF Agent!CallFails, Agent!MakeCall
  <2>2. CASE /\ tried < MaxRetries /\ tried' = tried + 1
             /\ UNCHANGED <<task, overspent, pc, iteration, talk, chunks, todo,
                            traced, resumed>>
    BY <2>1, <2>2 DEF TalkInv
  <2>3. CASE /\ Agent!Settle("retry") \/ Agent!Settle("failed")
             /\ overspent' \in {overspent, TRUE}
    BY <2>1, <2>3, SettleKeeps DEF TalkInv
  <2> QED
    BY <1>5, <2>2, <2>3 DEF Agent!CallFails
<1>6. CASE Agent!CallForTools
  <2>1. /\ ~Agent!Last /\ pc = "model" /\ pc' = "tools" /\ tried' = 0
        /\ UNCHANGED <<task, attempts, overspent, stopped, cardMade, checkpoint,
                       agentDeaths, iteration, chunks, traced, resumed>>
    BY <1>6 DEF Agent!CallForTools, Agent!MakeCall
  <2>2. PICK n \in 1..MaxAnswered : todo' = n /\ talk' = [talk EXCEPT !.asked = @ + n]
    BY <1>6 DEF Agent!CallForTools
  <2>3. /\ talk' \in Talks /\ talk'.asked = talk.asked + n
        /\ talk'.answered = talk.answered /\ talk'.found = talk.found
    BY <2>2 DEF TalkInv, Talks
  <2>4. iteration <= MaxIterations
    BY <2>1 DEF Agent!Last, TalkInv
  <2> QED
    BY <2>1, <2>2, <2>3, <2>4 DEF TalkInv
<1>7. CASE Agent!CallAnswers
  <2>1. /\ UNCHANGED <<attempts, overspent, stopped, cardMade, agentDeaths>> /\ pc = "model"
        /\ checkpoint' = checkpoint \/ checkpoint' = None
        /\ Agent!Settle("retry") \/ (pc' = "card" /\ UNCHANGED <<task, iteration, talk, chunks,
                                          todo, traced, tried, resumed>>)
    BY <1>7 DEF Agent!CallAnswers, Agent!DeleteCheckpoint, Agent!memory
  <2>2. CASE Agent!Settle("retry")
    BY <2>1, <2>2, SettleKeeps DEF TalkInv
  <2>3. CASE pc' = "card" /\ UNCHANGED <<task, iteration, talk, chunks,
                                          todo, traced, tried, resumed>>
    BY <2>1, <2>3 DEF TalkInv
  <2> QED
    BY <2>1, <2>2, <2>3
<1>8. CASE Agent!RunTool \/ Agent!RejectTool
  <2>1. /\ pc = "tools" /\ todo > 0 /\ todo' = todo - 1 /\ traced' = traced + 1
        /\ UNCHANGED <<task, attempts, overspent, stopped, cardMade, checkpoint, pc,
                       iteration, tried, resumed, agentDeaths>>
    BY <1>8 DEF Agent!RunTool, Agent!RejectTool
  <2>2. talk \in Talks /\ chunks \in Nat /\ traced \in Nat
    BY DEF TalkInv
  <2>3. /\ talk' \in Talks /\ talk'.asked = talk.asked
        /\ talk'.answered = talk.answered + 1
        /\ \/ talk'.found = talk.found /\ chunks' = chunks
           \/ talk'.found = talk.found + 1 /\ chunks' = chunks + 1
    <3>1. CASE Agent!RunTool
      <4>1. PICK hit \in {0, 1} : /\ talk' = [talk EXCEPT !.answered = @ + 1, !.found = @ + hit]
                                 /\ chunks' = chunks + hit
        BY <3>1 DEF Agent!RunTool
      <4>2. talk.answered + 1 \in Nat /\ talk.found + hit \in Nat
        BY <2>2 DEF Talks
      <4>3. talk' = [talk EXCEPT !.answered = talk.answered + 1, !.found = talk.found + hit]
        BY <4>1, Zenon
      <4>4. /\ talk' \in Talks /\ talk'.asked = talk.asked
            /\ talk'.answered = talk.answered + 1 /\ talk'.found = talk.found + hit
        BY <4>3, <4>2, <2>2 DEF Talks
      <4>5. CASE hit = 0
        BY <4>1, <4>4, <4>5, <2>2 DEF Talks
      <4>6. CASE hit = 1
        BY <4>1, <4>4, <4>6, <2>2 DEF Talks
      <4> QED
        BY <4>5, <4>6
    <3>2. CASE Agent!RejectTool
      <4>1. talk' = [talk EXCEPT !.answered = @ + 1] /\ chunks' = chunks
        BY <3>2 DEF Agent!RejectTool
      <4> QED
        BY <4>1, <2>2 DEF Talks
    <3> QED
      BY <1>8, <3>1, <3>2
  <2>4. /\ todo' \in 0..MaxAnswered /\ chunks' \in Nat /\ traced' \in Nat
        /\ talk'.asked = talk'.answered + todo' /\ chunks' = talk'.found
    BY <2>1, <2>2, <2>3 DEF TalkInv, Talks
  <2> QED
    BY <2>1, <2>3, <2>4 DEF TalkInv
<1>9. CASE Agent!StopAtTool \/ Agent!CompleteRead \/ Agent!RunOut
  <2>1. /\ UNCHANGED <<attempts, overspent, stopped, cardMade, checkpoint, agentDeaths>>
        /\ \/ Agent!Settle("retry") \/ Agent!Settle("queued") \/ Agent!Settle("failed")
           \/ Agent!Settle("completed")
    BY <1>9 DEF Agent!StopAtTool, Agent!CompleteRead, Agent!RunOut
  <2> QED
    BY <2>1, SettleKeeps DEF TalkInv
<1>10. CASE Agent!SaveCheckpoint
  <2>1. /\ pc = "tools" /\ todo = 0 /\ iteration' = iteration + 1 /\ pc' = "model"
        /\ UNCHANGED <<task, attempts, overspent, cardMade, stopped, talk, chunks, todo,
                       traced, tried, resumed, agentDeaths>>
        /\ \/ checkpoint' = [iteration |-> iteration, talk |-> talk,
                             chunks |-> chunks, resumed |-> resumed]
           \/ UNCHANGED checkpoint
    BY <1>10 DEF Agent!SaveCheckpoint, Agent!row
  <2>2. checkpoint' = None \/ GoodCheckpoint(checkpoint')
    BY <2>1 DEF TalkInv, Talks, GoodCheckpoint
  <2>3. /\ iteration' \in 0..(MaxIterations + 1) /\ iteration' >= 1
        /\ talk'.asked = talk'.answered /\ chunks' = talk'.found
    BY <2>1 DEF TalkInv, Talks
  <2>4. /\ task' \in {"queued", "running", "retrying", "completed", "failed"}
        /\ attempts' \in 0..MaxTaskAttempts /\ overspent' \in BOOLEAN
        /\ stopped' \in BOOLEAN /\ cardMade' \in BOOLEAN
    BY <2>1 DEF TalkInv
  <2>5. /\ talk' \in Talks /\ chunks' \in Nat /\ todo' \in 0..MaxAnswered /\ traced' \in Nat
        /\ tried' \in 0..MaxRetries /\ resumed' \in 0..MaxResumeCount
        /\ agentDeaths' \in 0..MaxAgentDeaths
    BY <2>1 DEF TalkInv
  <2> HIDE DEF GoodCheckpoint
  <2> QED
    BY <2>1, <2>2, <2>3, <2>4, <2>5 DEF TalkInv
<1>11. CASE Agent!SaveCard
  BY <1>11 DEF TalkInv, Agent!SaveCard, Agent!memory
<1>12. CASE Agent!Stop
  BY <1>12 DEF TalkInv, Agent!Stop, Agent!row, Agent!memory
<1>13. CASE Agent!StopDuringCall
  <2>1. /\ UNCHANGED <<attempts, overspent, cardMade, checkpoint, agentDeaths>> /\ stopped' = TRUE
        /\ Agent!Settle("retry") \/ Agent!Settle("queued")
    BY <1>13 DEF Agent!StopDuringCall
  <2> QED
    BY <2>1, SettleKeeps DEF TalkInv
<1>14. CASE Agent!AgentDies
  <2>1. /\ agentDeaths < MaxAgentDeaths /\ agentDeaths' = agentDeaths + 1 /\ pc' = "idle"
        /\ iteration' = 0 /\ talk' = [asked |-> 0, answered |-> 0, found |-> 0]
        /\ chunks' = 0 /\ todo' = 0 /\ traced' = 0 /\ tried' = 0 /\ resumed' = 0
        /\ checkpoint' \in {checkpoint, None}
        /\ UNCHANGED <<task, attempts, overspent, cardMade, stopped>>
    BY <1>14 DEF Agent!AgentDies, Agent!ForgetRun, Agent!Blank, Agent!row
  <2> QED
    BY <2>1 DEF TalkInv, Talks
<1>15. CASE UNCHANGED agentVars
  BY <1>15 DEF TalkInv, agentVars
<1> QED
  BY <1>1, <1>2, <1>3, <1>4, <1>5, <1>6, <1>7, <1>8, <1>9, <1>10, <1>11, <1>12, <1>13,
     <1>14, <1>15 DEF Agent!AgentNext, Agent!AgentStep

LEMMA TalkInit ==
  ASSUME Agent!AgentInit
  PROVE  TalkInv
<1>1. talk = [asked |-> 0, answered |-> 0, found |-> 0]
  BY DEF Agent!AgentInit, Agent!Blank
<1>2. talk \in Talks
  BY <1>1 DEF Talks
<1>3. /\ task = "queued" /\ attempts = 0 /\ overspent \in BOOLEAN /\ stopped \in BOOLEAN
      /\ cardMade \in BOOLEAN /\ checkpoint = None /\ pc = "idle" /\ iteration = 0
      /\ chunks = 0 /\ todo = 0 /\ traced = 0 /\ tried = 0 /\ resumed = 0
      /\ agentDeaths = 0
  BY DEF Agent!AgentInit
<1> HIDE DEF Talks, GoodCheckpoint
<1> QED
  BY <1>2, <1>3, AgentNumbers, SMTT(60) DEF TalkInv

-----------------------------------------------------------------------------
(* QaWorkflow *)

(* Where an event is in a stream, and where a question is among the rows.  *)
Spots(sent, e) == {i \in DOMAIN sent : sent[i] = e}
RowsOf(rows, q) == {i \in DOMAIN rows : rows[i].question = q}

EventNames   == {"error", "answer_delta", "blank_delta", "reasoning_delta",
           "reasoning_done", "citations", "done"}
Before == {"idle", "load_context", "classify_intent", "retrieve_evidence",
           "evaluate_evidence", "answer_without_evidence"}
Middle == {"generate_answer", "organize_citations", "persist_message", "finalize"}
After  == {"end", "failed", "recorded"}

QaTypes ==
  /\ node \in [Questions -> Before \union Middle \union After]
  /\ asker \in [Questions -> {None, "chat", "given"}]
  /\ evidence \in [Questions -> {"none", "noise", "some"}]
  /\ reasoning \in [Questions -> {"no", "open", "closed"}]
  /\ said \in [Questions -> Nat] /\ cited \in [Questions -> BOOLEAN]
  /\ pieces \in [Questions -> Nat]
  /\ events \in [Questions -> Seq(EventNames)] /\ counted \in [Questions -> {None} \union Nat]
  /\ chat \in BOOLEAN
  /\ messages \in Seq([place : Nat, question : Questions, text : Nat])

(* What the place of a question says about what it has told: nothing of an *)
(* answer before one is made, no last event before the end.                *)
Course(q) ==
  /\ node[q] \in Before =>
       events[q] = <<>> /\ said[q] = 0 /\ reasoning[q] = "no" /\ ~cited[q]
  /\ node[q] \notin After =>
       Spots(events[q], "done") = {} /\ Spots(events[q], "error") = {}
  /\ node[q] = "end" =>
       /\ events[q] # <<>> /\ events[q][Len(events[q])] = "done"
       /\ Spots(events[q], "error") = {}
  /\ node[q] = "failed" =>
       events[q] # <<>> /\ events[q][Len(events[q])] = "error"
         /\ Spots(events[q], "done") = {}
  /\ node[q] = "recorded" => asker[q] = "given"
  /\ \A i \in Spots(events[q], "done") \union Spots(events[q], "error") :
       i = Len(events[q])
  /\ node[q] \in {"generate_answer", "organize_citations"} =>
       evidence[q] = "some" /\ ~cited[q]
  /\ cited[q] => evidence[q] = "some"
  /\ node[q] = "idle" => counted[q] = None
  /\ node[q] # "idle" => asker[q] \in {"chat", "given"}
  /\ node[q] \notin After /\ asker[q] # "chat" => counted[q] = None

(* The reasoning is closed once, before what is said after it. *)
Thought(q) ==
  /\ reasoning[q] = "no" => Spots(events[q], "reasoning_delta") = {}
  /\ reasoning[q] # "closed" => Spots(events[q], "reasoning_done") = {}
  /\ reasoning[q] = "closed" => \E k : Spots(events[q], "reasoning_done") = {k}
  /\ \A i \in Spots(events[q], "reasoning_delta"),
        j \in Spots(events[q], "answer_delta") :
       i < j => \E k \in Spots(events[q], "reasoning_done") : k < j

(* The answer has as many pieces as were told, also where it was saved.   *)
Written(q) ==
  /\ said[q] = Cardinality(Spots(events[q], "answer_delta"))
  /\ RowsOf(messages, q) # {} => node[q] \in {"finalize", "end"} /\ asker[q] = "chat"
  /\ asker[q] = "chat" /\ chat /\ node[q] \in {"finalize", "end"} =>
       RowsOf(messages, q) # {}
  /\ \A i \in RowsOf(messages, q) : messages[i].text = said[q]

QaInv == QaTypes /\ \A q \in Questions : Course(q) /\ Thought(q) /\ Written(q)

(* Along its nodes every stream is whole. *)
LEMMA StreamsShow == QaInv => Qa!StreamsAreWhole
<1> SUFFICES ASSUME QaInv, NEW q \in Questions
             PROVE  LET sent == events[q]
                        At(e) == {i \in DOMAIN sent : sent[i] = e}
                        mine == {i \in DOMAIN messages : messages[i].question = q}
                    IN  /\ \A i \in At("done") \union At("error") : i = Len(sent)
                        /\ node[q] \in Qa!Ends =>
                             sent # <<>> /\ sent[Len(sent)] \in {"done", "error"}
                        /\ asker[q] = "chat" /\ chat => (At("done") # {} => mine # {})
                        /\ mine # {} => At("error") = {}
                        /\ \A i \in mine :
                             messages[i].text = Qa!Cardinality(At("answer_delta"))
                        /\ \A i \in At("reasoning_delta"), j \in At("answer_delta") :
                             i < j => \E k \in At("reasoning_done") : k < j
                        /\ Qa!Cardinality(At("reasoning_done")) <= 1
                        /\ cited[q] => evidence[q] = "some"
  BY DEF Qa!StreamsAreWhole
<1> DEFINE sent == events[q]
           At(e) == {i \in DOMAIN sent : sent[i] = e}
           mine == {i \in DOMAIN messages : messages[i].question = q}
<1>1. (\A e : At(e) = Spots(sent, e)) /\ mine = RowsOf(messages, q)
  BY DEF Spots, RowsOf
<1>2. QaTypes /\ Course(q) /\ Thought(q) /\ Written(q)
  BY DEF QaInv
<1> HIDE DEF At, mine
<1>3. \A i \in At("done") \union At("error") : i = Len(sent)
  BY <1>1, <1>2 DEF Course
<1>4. node[q] \in Qa!Ends => sent # <<>> /\ sent[Len(sent)] \in {"done", "error"}
  BY <1>2 DEF Course, Qa!Ends
<1>5. asker[q] = "chat" /\ chat => (At("done") # {} => mine # {})
  BY <1>1, <1>2 DEF Course, Written, QaTypes, Before, Middle, After
<1>6. mine # {} => At("error") = {}
  BY <1>1, <1>2 DEF Course, Written, After
<1>7. \A i \in mine : messages[i].text = Qa!Cardinality(At("answer_delta"))
  BY <1>1, <1>2, SameCardinality DEF Written
<1>8. \A i \in At("reasoning_delta"), j \in At("answer_delta") :
        i < j => \E k \in At("reasoning_done") : k < j
  BY <1>1, <1>2 DEF Thought
<1>9. Qa!Cardinality(At("reasoning_done")) <= 1
  <2>1. At("reasoning_done") = {} \/ \E k : At("reasoning_done") = {k}
    BY <1>1, <1>2 DEF Thought, QaTypes
  <2>2. CASE At("reasoning_done") = {}
    BY <2>2, SameCardinality, FS_EmptySet
  <2>3. ASSUME NEW k, At("reasoning_done") = {k} PROVE Qa!Cardinality(At("reasoning_done")) <= 1
    <3>1. Cardinality({k}) = 1 /\ Qa!Cardinality({k}) = Cardinality({k})
      BY FS_Singleton, SameCardinality
    <3> QED
      BY <2>3, <3>1
  <2> QED
    BY <2>1, <2>2, <2>3
<1>10. cited[q] => evidence[q] = "some"
  BY <1>2 DEF Course
<1> QED
  BY <1>3, <1>4, <1>5, <1>6, <1>7, <1>8, <1>9, <1>10 DEF At, mine

(* One event more. *)
LEMMA SpotsOfMore ==
  ASSUME NEW sent \in Seq(EventNames), NEW e \in EventNames, NEW d
  PROVE  /\ Append(sent, e) \in Seq(EventNames) /\ Append(sent, e) # <<>>
         /\ Len(Append(sent, e)) = Len(sent) + 1
         /\ Append(sent, e)[Len(sent) + 1] = e
         /\ d = e => Spots(Append(sent, e), d) = Spots(sent, d) \union {Len(sent) + 1}
         /\ d # e => Spots(Append(sent, e), d) = Spots(sent, d)
         /\ \A i \in Spots(sent, d) : i \in Nat /\ i <= Len(sent)
         /\ IsFiniteSet(Spots(sent, d)) /\ Cardinality(Spots(sent, d)) \in Nat
         /\ Cardinality(Spots(Append(sent, e), d)) =
              Cardinality(Spots(sent, d)) + (IF d = e THEN 1 ELSE 0)
<1>1. /\ Append(sent, e) \in Seq(EventNames) /\ Append(sent, e) # <<>>
      /\ Len(Append(sent, e)) = Len(sent) + 1
      /\ Append(sent, e)[Len(sent) + 1] = e
      /\ \A i \in 1..Len(sent) : Append(sent, e)[i] = sent[i]
  OBVIOUS
<1>2. /\ DOMAIN sent = 1..Len(sent) /\ DOMAIN Append(sent, e) = 1..(Len(sent) + 1)
      /\ Len(sent) \in Nat
  OBVIOUS
<1>3. /\ d = e => Spots(Append(sent, e), d) = Spots(sent, d) \union {Len(sent) + 1}
      /\ d # e => Spots(Append(sent, e), d) = Spots(sent, d)
  BY <1>1, <1>2 DEF Spots
<1>4. \A i \in Spots(sent, d) : i \in Nat /\ i <= Len(sent)
  BY <1>2 DEF Spots
<1>5. IsFiniteSet(Spots(sent, d)) /\ Cardinality(Spots(sent, d)) \in Nat
  <2>1. Spots(sent, d) \subseteq 1..Len(sent)
    BY <1>2 DEF Spots
  <2>2. IsFiniteSet(1..Len(sent))
    BY <1>2, FS_Interval
  <2>3. IsFiniteSet(Spots(sent, d))
    BY <2>1, <2>2, FS_Subset
  <2> QED
    BY <2>3, FS_CardinalityType
<1>6. Cardinality(Spots(Append(sent, e), d)) =
        Cardinality(Spots(sent, d)) + (IF d = e THEN 1 ELSE 0)
  <2>1. Len(sent) + 1 \notin Spots(sent, d)
    BY <1>2, <1>4
  <2>2. CASE d = e
    BY <2>1, <2>2, <1>3, <1>5, FS_AddElement
  <2>3. CASE d # e
    BY <2>3, <1>3, <1>5
  <2> QED
    BY <2>2, <2>3
<1> QED
  BY <1>1, <1>3, <1>4, <1>5, <1>6

(* What is told in one go is appended event by event. *)
LEMMA SaidIsAppended ==
  ASSUME NEW sent \in Seq(EventNames)
  PROVE  /\ sent \o <<>> = sent
         /\ \A e \in EventNames : sent \o <<e>> = Append(sent, e)
         /\ \A t \in Seq(EventNames), e \in EventNames : sent \o Append(t, e) = Append(sent \o t, e)
<1>1. sent \o <<>> = sent
  OBVIOUS
<1>2. ASSUME NEW e \in EventNames PROVE sent \o <<e>> = Append(sent, e)
  OBVIOUS
<1>3. ASSUME NEW t \in Seq(EventNames), NEW e \in EventNames
      PROVE  sent \o Append(t, e) = Append(sent \o t, e)
  <2>1. Append(t, e) = t \o <<e>> /\ <<e>> \in Seq(EventNames)
    BY AppendIsConcat
  <2>2. sent \o t \in Seq(EventNames)
    BY ConcatProperties
  <2>3. Append(sent \o t, e) = (sent \o t) \o <<e>>
    BY <2>2, AppendIsConcat
  <2> QED
    BY <2>1, <2>3, ConcatAssociative
<1> QED
  BY <1>1, <1>2, <1>3

(* A step for one question changes nothing of the others. *)
LEMMA OthersStay ==
  ASSUME QaInv, NEW q \in Questions, QaTypes', chat' = chat,
         \A p \in Questions \ {q} :
           /\ node'[p] = node[p] /\ asker'[p] = asker[p] /\ evidence'[p] = evidence[p]
           /\ reasoning'[p] = reasoning[p] /\ said'[p] = said[p]
           /\ cited'[p] = cited[p] /\ counted'[p] = counted[p] /\ events'[p] = events[p],
         \/ messages' = messages
         \/ \E r : r.question = q /\ messages' = Append(messages, r),
         Course(q)', Thought(q)', Written(q)'
  PROVE  QaInv'
<1> SUFFICES ASSUME NEW p \in Questions, p # q
             PROVE  Course(p)' /\ Thought(p)' /\ Written(p)'
  BY DEF QaInv
<1>1. Course(p) /\ Thought(p) /\ Written(p) /\ QaTypes
  BY DEF QaInv
<1>2. /\ node'[p] = node[p] /\ asker'[p] = asker[p] /\ evidence'[p] = evidence[p]
      /\ reasoning'[p] = reasoning[p] /\ said'[p] = said[p]
      /\ cited'[p] = cited[p] /\ counted'[p] = counted[p] /\ events'[p] = events[p]
  OBVIOUS
<1>3. /\ RowsOf(messages, p)' = RowsOf(messages, p)
      /\ \A i \in RowsOf(messages, p) : messages'[i] = messages[i]
  <2>1. messages \in Seq([place : Nat, question : Questions, text : Nat])
    BY <1>1 DEF QaTypes
  <2>2. CASE messages' = messages
    BY <2>2 DEF RowsOf
  <2>3. ASSUME NEW r, r.question = q, messages' = Append(messages, r)
        PROVE  /\ RowsOf(messages, p)' = RowsOf(messages, p)
               /\ \A i \in RowsOf(messages, p) : messages'[i] = messages[i]
    <3>1. /\ DOMAIN messages' = 1..(Len(messages) + 1)
          /\ DOMAIN messages = 1..Len(messages) /\ Len(messages) \in Nat
          /\ \A i \in 1..Len(messages) : messages'[i] = messages[i]
          /\ messages'[Len(messages) + 1] = r
      BY <2>1, <2>3
    <3>2. \A i \in DOMAIN messages' :
            messages'[i].question = p <=> i \in DOMAIN messages /\ messages[i].question = p
      <4>1. r.question # p
        BY <2>3
      <4>2. \A i \in 1..(Len(messages) + 1) : i \in 1..Len(messages) \/ i = Len(messages) + 1
        BY <3>1
      <4> QED
        BY <3>1, <4>1, <4>2
    <3>3. DOMAIN messages \subseteq DOMAIN messages'
      BY <3>1
    <3> QED
      BY <3>1, <3>2, <3>3 DEF RowsOf
  <2> QED
    BY <2>2, <2>3
<1>4. Course(p)'
  BY <1>1, <1>2 DEF Course
<1>5. Thought(p)'
  BY <1>1, <1>2 DEF Thought
<1>6. Written(p)'
  BY <1>1, <1>2, <1>3 DEF Written
<1> QED
  BY <1>4, <1>5, <1>6

(* The stream ends with an error. *)
LEMMA FailKeeps ==
  ASSUME QaInv, NEW q \in Questions, node[q] \notin After \union {"finalize", "idle"},
         Qa!Fail(q),
         UNCHANGED <<asker, evidence, reasoning, pieces, said, cited, counted, chat,
                     messages, pairs>>
  PROVE  QaInv'
<1>1. QaTypes /\ Course(q) /\ Thought(q) /\ Written(q)
  BY DEF QaInv
<1>2. /\ node' = [node EXCEPT ![q] = "failed"]
      /\ events' = [events EXCEPT ![q] = Append(@, "error")]
  <2>1. events' = [events EXCEPT ![q] = @ \o <<"error">>]
    BY DEF Qa!Fail, Qa!Say
  <2>2. events[q] \o <<"error">> = Append(events[q], "error")
    BY <1>1, SaidIsAppended DEF QaTypes, EventNames
  <2> QED
    BY <2>1, <2>2 DEF Qa!Fail, Qa!Go
<1>3. events[q] \in Seq(EventNames) /\ "error" \in EventNames
  BY <1>1 DEF QaTypes, EventNames
<1>4. QaTypes'
  BY <1>1, <1>2, <1>3, SpotsOfMore DEF QaTypes, After
<1>5. node'[q] = "failed" /\ events'[q] = Append(events[q], "error")
  BY <1>1, <1>2 DEF QaTypes
<1>6. Course(q)'
  BY <1>1, <1>3, <1>5, SpotsOfMore DEF Course, Before, Middle, After
<1>7. Thought(q)'
  <2>1. \A d : d # "error" => Spots(events[q], d)' = Spots(events[q], d)
    BY <1>3, <1>5, SpotsOfMore
  <2> QED
    BY <1>1, <2>1 DEF Thought
<1>8. Written(q)'
  <2>1. RowsOf(messages, q) = {}
    BY <1>1 DEF Written, After
  <2> QED
    BY <1>1, <1>3, <1>5, <2>1, SpotsOfMore DEF Written, RowsOf
<1>9. \A p \in Questions \ {q} : node'[p] = node[p] /\ events'[p] = events[p]
  BY <1>1, <1>2 DEF QaTypes
<1> QED
  BY <1>4, <1>6, <1>7, <1>8, <1>9, OthersStay

(* A step that tells nothing and saves nothing. *)
LEMMA QuietKeeps ==
  ASSUME QaInv, NEW q \in Questions, QaTypes', Course(q)',
         \A p \in Questions \ {q} :
           /\ node'[p] = node[p] /\ asker'[p] = asker[p]
           /\ evidence'[p] = evidence[p] /\ cited'[p] = cited[p]
           /\ counted'[p] = counted[p],
         UNCHANGED <<reasoning, said, events, chat, messages>>,
         asker'[q] = asker[q] \/ node[q] = "idle",
         node'[q] \in {"finalize", "end"} => asker'[q] = "given",
         node[q] \notin {"finalize", "end"} \/ node'[q] = node[q] \/ asker[q] # "chat"
  PROVE  QaInv'
<1>1. QaTypes /\ Course(q) /\ Thought(q) /\ Written(q)
  BY DEF QaInv
<1>2. Thought(q)'
  BY <1>1 DEF Thought
<1>3. Written(q)'
  BY <1>1 DEF Written, RowsOf
<1> QED
  BY <1>2, <1>3, OthersStay

(* The end of the reasoning is told when it is open. *)
LEMMA ClosingCloses ==
  ASSUME NEW q, events[q] \in Seq(EventNames)
  PROVE  /\ Qa!Closing(q) \in Seq(EventNames)
         /\ events[q] \o Qa!Closing(q) =
              (IF reasoning[q] = "open" THEN Append(events[q], "reasoning_done")
               ELSE events[q])
<1>1. "reasoning_done" \in EventNames
  BY DEF EventNames
<1>2. Qa!Closing(q) = IF reasoning[q] = "open" THEN <<"reasoning_done">> ELSE <<>>
  BY DEF Qa!Closing
<1>3. Qa!Closing(q) \in Seq(EventNames)
  BY <1>1, <1>2
<1> QED
  BY <1>1, <1>2, <1>3, SaidIsAppended

(* The model says a piece, the first one after it has closed its reasoning.*)
LEMMA SpeakKeeps ==
  ASSUME QaInv, NEW q \in Questions, NEW blank \in BOOLEAN, Qa!Speak(q, blank)
  PROVE  QaInv'
<1> DEFINE piece == IF blank THEN "blank_delta" ELSE "answer_delta"
           closed == IF reasoning[q] = "open" THEN Append(events[q], "reasoning_done")
                     ELSE events[q]
<1>1. QaTypes /\ Course(q) /\ Thought(q) /\ Written(q)
  BY DEF QaInv
<1>2. /\ node[q] = "generate_answer" /\ events[q] \in Seq(EventNames) /\ piece \in EventNames
      /\ "reasoning_done" \in EventNames /\ closed \in Seq(EventNames)
  BY <1>1, SpotsOfMore DEF Qa!Speak, QaTypes, EventNames
<1>3. events[q] \o Append(Qa!Closing(q), piece) = Append(closed, piece)
  <2>1. Qa!Closing(q) \in Seq(EventNames) /\ events[q] \o Qa!Closing(q) = closed
    BY <1>2, ClosingCloses
  <2> HIDE DEF closed, piece
  <2> QED
    BY <1>2, <2>1, SaidIsAppended
<1> HIDE DEF closed
<1>4. events' = [events EXCEPT ![q] = Append(closed, piece)]
  BY <1>3 DEF Qa!Speak, Qa!Say
<1>5. /\ reasoning' = [reasoning EXCEPT ![q] = IF @ = "open" THEN "closed" ELSE @]
      /\ pieces' = [pieces EXCEPT ![q] = @ + 1]
      /\ said' = [said EXCEPT ![q] = IF blank THEN @ ELSE @ + 1]
      /\ UNCHANGED <<node, asker, evidence, cited, counted, chat, messages, pairs>>
  BY DEF Qa!Speak, Qa!rowVars
<1>6. /\ Append(closed, piece) \in Seq(EventNames)
      /\ \A d : d \notin {piece, "reasoning_done"} =>
           Spots(Append(closed, piece), d) = Spots(events[q], d)
      /\ Spots(Append(closed, piece), "reasoning_done") = Spots(closed, "reasoning_done")
      /\ Spots(Append(closed, piece), piece) = Spots(events[q], piece) \union {Len(closed) + 1}
      /\ Cardinality(Spots(Append(closed, piece), "answer_delta")) =
           Cardinality(Spots(events[q], "answer_delta")) + (IF blank THEN 0 ELSE 1)
  <2>1. /\ \A d : d # "reasoning_done" => Spots(closed, d) = Spots(events[q], d)
        /\ piece # "reasoning_done" /\ (piece = "answer_delta" <=> ~blank)
    BY <1>2, SpotsOfMore DEF closed
  <2>2. /\ Append(closed, piece) \in Seq(EventNames)
        /\ \A d : d # piece => Spots(Append(closed, piece), d) = Spots(closed, d)
        /\ Spots(Append(closed, piece), piece) = Spots(closed, piece) \union {Len(closed) + 1}
        /\ Cardinality(Spots(Append(closed, piece), "answer_delta")) =
             Cardinality(Spots(closed, "answer_delta")) + (IF blank THEN 0 ELSE 1)
    BY <1>2, <2>1, SpotsOfMore
  <2> HIDE DEF piece
  <2> QED
    BY <2>1, <2>2
<1>7. QaTypes'
  BY <1>1, <1>4, <1>5, <1>6 DEF QaTypes
<1>8. /\ events'[q] = Append(closed, piece) /\ said'[q] = said[q] + (IF blank THEN 0 ELSE 1)
      /\ reasoning'[q] = (IF reasoning[q] = "open" THEN "closed" ELSE reasoning[q])
  BY <1>1, <1>4, <1>5 DEF QaTypes
<1>9. Course(q)'
  BY <1>1, <1>2, <1>5, <1>6, <1>8 DEF Course, Before, After
<1>10. Thought(q)'
  <2>1. \A i \in Spots(events[q], "reasoning_delta") : i <= Len(events[q])
    BY <1>2, SpotsOfMore
  <2>2. CASE reasoning[q] = "open"
    <3>1. /\ Spots(events[q], "reasoning_done") = {}
          /\ Spots(closed, "reasoning_done") = {Len(events[q]) + 1}
          /\ Len(closed) = Len(events[q]) + 1 /\ Len(events[q]) \in Nat
      BY <1>1, <1>2, <2>2, SpotsOfMore DEF closed, Thought
    <3>2. /\ Spots(events'[q], "reasoning_done") = {Len(events[q]) + 1}
          /\ Spots(events'[q], "reasoning_delta") = Spots(events[q], "reasoning_delta")
          /\ \A j \in Spots(events'[q], "answer_delta") :
               j \in Spots(events[q], "answer_delta") \/ j = Len(events[q]) + 2
          /\ reasoning'[q] = "closed"
      BY <1>6, <1>8, <2>2, <3>1
    <3>3. \A i \in Spots(events[q], "reasoning_delta"),
             j \in Spots(events[q], "answer_delta") : ~(i < j)
      BY <1>1, <3>1 DEF Thought
    <3> QED
      BY <3>1, <3>2, <3>3, Len(events[q]) + 1 < Len(events[q]) + 2 DEF Thought
  <2>3. CASE reasoning[q] # "open"
    <3>1. closed = events[q] /\ Len(events[q]) \in Nat
      BY <1>2, <2>3 DEF closed
    <3>2. \A k \in Spots(events[q], "reasoning_done") : k \in Nat /\ k <= Len(events[q])
      BY <1>2, SpotsOfMore
    <3>3. reasoning[q] = "no" \/ reasoning[q] = "closed"
      BY <1>1, <2>3 DEF QaTypes
    <3>4. /\ Spots(events'[q], "reasoning_done") = Spots(events[q], "reasoning_done")
          /\ Spots(events'[q], "reasoning_delta") = Spots(events[q], "reasoning_delta")
          /\ \A j \in Spots(events'[q], "answer_delta") :
               j \in Spots(events[q], "answer_delta") \/ j = Len(events[q]) + 1
          /\ reasoning'[q] = reasoning[q]
      BY <1>6, <1>8, <2>3, <3>1
    <3>5. Spots(events[q], "reasoning_delta") # {} =>
            \E k \in Spots(events[q], "reasoning_done") : k < Len(events[q]) + 1
      <4>1. CASE reasoning[q] = "no"
        BY <1>1, <4>1 DEF Thought
      <4>2. CASE reasoning[q] = "closed"
        <5>1. PICK k : Spots(events[q], "reasoning_done") = {k}
          BY <1>1, <4>2 DEF Thought
        <5>2. k \in Spots(events[q], "reasoning_done") /\ k < Len(events[q]) + 1
          BY <3>1, <3>2, <5>1
        <5> QED
          BY <5>2
      <4> QED
        BY <3>3, <4>1, <4>2
    <3>6. \A i \in Spots(events'[q], "reasoning_delta"),
             j \in Spots(events'[q], "answer_delta") :
            i < j => \E k \in Spots(events'[q], "reasoning_done") : k < j
      BY <1>1, <3>4, <3>5 DEF Thought
    <3> QED
      BY <1>1, <3>4, <3>6 DEF Thought
  <2> QED
    BY <2>2, <2>3
<1>11. Written(q)'
  <2>1. RowsOf(messages, q) = {} /\ RowsOf(messages, q)' = {}
    BY <1>1, <1>2, <1>5 DEF Written, RowsOf
  <2>2. Cardinality(Spots(events[q], "answer_delta")) \in Nat /\ said[q] \in Nat
    BY <1>1, <1>2, SpotsOfMore DEF QaTypes
  <2> QED
    BY <1>1, <1>2, <1>5, <1>6, <1>8, <2>1, <2>2 DEF Written
<1>12. \A p \in Questions \ {q} :
         /\ reasoning'[p] = reasoning[p] /\ said'[p] = said[p] /\ events'[p] = events[p]
  BY <1>1, <1>4, <1>5 DEF QaTypes
<1> QED
  BY <1>5, <1>7, <1>9, <1>10, <1>11, <1>12, OthersStay

(* The stream of the model is over. *)
LEMMA EndAnswerKeeps ==
  ASSUME QaInv, NEW q \in Questions, Qa!EndAnswer(q)
  PROVE  QaInv'
<1> DEFINE closed == IF reasoning[q] = "open" THEN Append(events[q], "reasoning_done")
                     ELSE events[q]
           told == IF said[q] > 0 THEN closed ELSE Append(closed, "error")
           where == IF said[q] > 0 THEN "organize_citations" ELSE "failed"
<1>1. QaTypes /\ Course(q) /\ Thought(q) /\ Written(q)
  BY DEF QaInv
<1>2. /\ node[q] = "generate_answer" /\ events[q] \in Seq(EventNames) /\ said[q] \in Nat
      /\ {"reasoning_done", "error"} \subseteq EventNames /\ closed \in Seq(EventNames)
  BY <1>1, SpotsOfMore DEF Qa!EndAnswer, QaTypes, EventNames
<1>3. /\ events[q] \o Qa!Closing(q) = closed
      /\ events[q] \o Append(Qa!Closing(q), "error") = Append(closed, "error")
  <2>1. Qa!Closing(q) \in Seq(EventNames) /\ events[q] \o Qa!Closing(q) = closed
    BY <1>2, ClosingCloses
  <2> HIDE DEF closed
  <2> QED
    BY <1>2, <2>1, SaidIsAppended
<1>4. /\ events' = [events EXCEPT ![q] = told] /\ node' = [node EXCEPT ![q] = where]
  <2>1. CASE said[q] > 0
    <3>1. Qa!Go(q, "organize_citations") /\ Qa!Say(q, Qa!Closing(q))
      BY <1>2, <2>1 DEF Qa!EndAnswer
    <3>2. /\ events' = [events EXCEPT ![q] = events[q] \o Qa!Closing(q)]
          /\ node' = [node EXCEPT ![q] = "organize_citations"]
      BY <3>1 DEF Qa!Say, Qa!Go
    <3> QED
      BY <1>3, <2>1, <3>2
  <2>2. CASE ~(said[q] > 0)
    <3>1. events' = [events EXCEPT ![q] = events[q] \o Append(Qa!Closing(q), "error")]
      BY <1>2, <2>2 DEF Qa!EndAnswer, Qa!Say
    <3>2. node' = [node EXCEPT ![q] = "failed"]
      BY <1>2, <2>2 DEF Qa!EndAnswer, Qa!Go
    <3> QED
      BY <1>3, <2>2, <3>1, <3>2
  <2> QED
    BY <2>1, <2>2
<1> HIDE DEF closed, told, where
<1>5. /\ reasoning' = [reasoning EXCEPT ![q] = IF @ = "open" THEN "closed" ELSE @]
      /\ UNCHANGED <<asker, evidence, pieces, said, cited, counted, chat, messages, pairs>>
  BY DEF Qa!EndAnswer, Qa!rowVars
<1>6. /\ told \in Seq(EventNames)
      /\ \A d : d \notin {"error", "reasoning_done"} => Spots(told, d) = Spots(events[q], d)
      /\ Spots(told, "reasoning_done") = Spots(closed, "reasoning_done")
      /\ where = "failed" => /\ told # <<>> /\ told[Len(told)] = "error"
                             /\ Spots(told, "error") = Spots(events[q], "error") \union {Len(told)}
      /\ where # "failed" => Spots(told, "error") = Spots(events[q], "error")
  <2>1. \A d : d # "reasoning_done" => Spots(closed, d) = Spots(events[q], d)
    BY <1>2, SpotsOfMore DEF closed
  <2>2. CASE said[q] > 0
    BY <1>2, <2>1, <2>2 DEF told, where
  <2>3. CASE ~(said[q] > 0)
    <3>1. told = Append(closed, "error")
      BY <2>3 DEF told
    <3>2. /\ told \in Seq(EventNames) /\ told # <<>> /\ told[Len(told)] = "error"
          /\ \A d : d # "error" => Spots(told, d) = Spots(closed, d)
          /\ Spots(told, "error") = Spots(closed, "error") \union {Len(told)}
      BY <1>2, <3>1, SpotsOfMore
    <3> QED
      BY <2>1, <2>3, <3>2 DEF where
  <2> QED
    BY <2>2, <2>3
<1>7. QaTypes'
  BY <1>1, <1>4, <1>5, <1>6 DEF QaTypes, where, Middle, After
<1>8. /\ events'[q] = told /\ node'[q] = where
      /\ reasoning'[q] = (IF reasoning[q] = "open" THEN "closed" ELSE reasoning[q])
  BY <1>1, <1>4, <1>5 DEF QaTypes
<1>9. Course(q)'
  BY <1>1, <1>2, <1>5, <1>6, <1>8 DEF Course, Before, After, where
<1>10. Thought(q)'
  <2>1. CASE reasoning[q] = "open"
    <3>1. /\ Spots(events[q], "reasoning_done") = {}
          /\ Spots(closed, "reasoning_done") = {Len(events[q]) + 1}
      BY <1>1, <1>2, <2>1, SpotsOfMore DEF closed, Thought
    <3> QED
      BY <1>1, <1>6, <1>8, <2>1, <3>1 DEF Thought
  <2>2. CASE reasoning[q] # "open"
    <3>1. closed = events[q]
      BY <2>2 DEF closed
    <3> QED
      BY <1>1, <1>6, <1>8, <2>2, <3>1 DEF Thought
  <2> QED
    BY <2>1, <2>2
<1>11. Written(q)'
  <2>1. RowsOf(messages, q) = {} /\ RowsOf(messages, q)' = {}
    BY <1>1, <1>2, <1>5 DEF Written, RowsOf
  <2> QED
    BY <1>1, <1>5, <1>6, <1>8, <2>1 DEF Written, where
<1>12. \A p \in Questions \ {q} :
         /\ reasoning'[p] = reasoning[p] /\ node'[p] = node[p] /\ events'[p] = events[p]
  BY <1>1, <1>4, <1>5 DEF QaTypes
<1> QED
  BY <1>5, <1>7, <1>9, <1>10, <1>11, <1>12, OthersStay

(* Every step of a question keeps the invariant. *)
LEMMA QaStepKeeps ==
  ASSUME QaInv, NEW q \in Questions, Qa!QaStep(q)
  PROVE  QaInv'
<1>1. QaTypes /\ Course(q) /\ Thought(q) /\ Written(q)
  BY DEF QaInv
<1>2. events[q] \in Seq(EventNames) /\ EventNames = EventNames \union {"answer_delta", "reasoning_delta",
                                                      "citations", "done"}
  BY <1>1 DEF QaTypes, EventNames
<1>3. ASSUME Qa!LoadContext(q) PROVE QaInv'
  <2>1. CASE Qa!Fail(q)
    BY <1>3, <2>1, FailKeeps DEF Qa!LoadContext, Qa!answerVars, Qa!rowVars, After
  <2>2. CASE ~Qa!Fail(q)
    <3>1. /\ node[q] = "load_context" /\ node' = [node EXCEPT ![q] = "classify_intent"]
          /\ UNCHANGED <<asker, evidence, reasoning, pieces, said, cited, events,
                         counted, chat, messages, pairs>>
      BY <1>3, <2>2 DEF Qa!LoadContext, Qa!Go, Qa!answerVars, Qa!rowVars
    <3>2. QaTypes' /\ Course(q)'
      BY <1>1, <3>1 DEF QaTypes, Course, Before, Middle, After
    <3> QED
      BY <1>1, <3>1, <3>2, QuietKeeps DEF QaTypes
  <2> QED
    BY <2>1, <2>2
<1>4. ASSUME Qa!ClassifyIntent(q) PROVE QaInv'
  <2>1. /\ node[q] = "classify_intent" /\ node' = [node EXCEPT ![q] = "retrieve_evidence"]
        /\ UNCHANGED <<asker, evidence, reasoning, pieces, said, cited, events,
                       counted, chat, messages, pairs>>
    BY <1>4 DEF Qa!ClassifyIntent, Qa!Go, Qa!answerVars, Qa!rowVars
  <2>2. QaTypes' /\ Course(q)'
    BY <1>1, <2>1 DEF QaTypes, Course, Before, Middle, After
  <2> QED
    BY <1>1, <2>1, <2>2, QuietKeeps DEF QaTypes
<1>5. ASSUME Qa!RetrieveEvidence(q) PROVE QaInv'
  <2>1. CASE Qa!Fail(q) /\ UNCHANGED evidence
    BY <1>5, <2>1, FailKeeps DEF Qa!RetrieveEvidence, Qa!answerVars, Qa!rowVars, After
  <2>2. CASE ~(Qa!Fail(q) /\ UNCHANGED evidence)
    <3>1. /\ node[q] = "retrieve_evidence" /\ node' = [node EXCEPT ![q] = "evaluate_evidence"]
          /\ \E e \in {"none", "noise", "some"} : evidence' = [evidence EXCEPT ![q] = e]
          /\ UNCHANGED <<asker, reasoning, pieces, said, cited, events,
                         counted, chat, messages, pairs>>
      BY <1>1, <1>5, <2>2
      DEF Qa!RetrieveEvidence, Qa!Go, Qa!answerVars, Qa!rowVars, QaTypes
    <3>2. QaTypes' /\ Course(q)'
      BY <1>1, <3>1 DEF QaTypes, Course, Before, Middle, After
    <3> QED
      BY <1>1, <3>1, <3>2, QuietKeeps DEF QaTypes
  <2> QED
    BY <2>1, <2>2
<1>6. ASSUME Qa!EvaluateEvidence(q) PROVE QaInv'
  <2>1. /\ node[q] = "evaluate_evidence"
        /\ node' = [node EXCEPT ![q] = IF evidence[q] = "some" THEN "generate_answer"
                                       ELSE "answer_without_evidence"]
        /\ evidence' = [evidence EXCEPT ![q] = IF @ = "noise" THEN "none" ELSE @]
        /\ UNCHANGED <<asker, reasoning, pieces, said, cited, events,
                       counted, chat, messages, pairs>>
    BY <1>6 DEF Qa!EvaluateEvidence, Qa!Go, Qa!answerVars, Qa!rowVars
  <2>2. QaTypes' /\ Course(q)'
    BY <1>1, <2>1 DEF QaTypes, Course, Before, Middle, After
  <2> QED
    BY <1>1, <2>1, <2>2, QuietKeeps DEF QaTypes
<1>7. ASSUME Qa!AnswerWithoutEvidence(q) PROVE QaInv'
  <2>1. /\ node[q] = "answer_without_evidence" /\ said' = [said EXCEPT ![q] = 1]
        /\ node' = [node EXCEPT ![q] = "persist_message"]
        /\ UNCHANGED <<asker, evidence, reasoning, pieces, cited, counted, chat,
                       messages, pairs>>
    BY <1>7 DEF Qa!AnswerWithoutEvidence, Qa!Go, Qa!rowVars
  <2>2. /\ events' = [events EXCEPT ![q] = Append(@, "answer_delta")]
        /\ events[q] = <<>> /\ said[q] = 0 /\ reasoning[q] = "no" /\ ~cited[q]
    BY <1>1, <1>2, <1>7, <2>1, SaidIsAppended
    DEF Qa!AnswerWithoutEvidence, Qa!Say, Course, Before
  <2>3. /\ events'[q] = Append(events[q], "answer_delta") /\ said'[q] = 1
        /\ node'[q] = "persist_message"
    BY <1>1, <2>1, <2>2 DEF QaTypes
  <2>4. /\ events'[q] \in Seq(EventNames)
        /\ \A d : d # "answer_delta" => Spots(events[q], d)' = Spots(events[q], d)
        /\ Cardinality(Spots(events[q], "answer_delta"))' =
             Cardinality(Spots(events[q], "answer_delta")) + 1
    BY <1>2, <2>3, SpotsOfMore
  <2>5. QaTypes'
    BY <1>1, <2>1, <2>2, <2>4 DEF QaTypes, Middle
  <2>6. Course(q)'
    BY <1>1, <2>1, <2>2, <2>3, <2>4 DEF Course, Before, After
  <2>7. Thought(q)' /\ Written(q)'
    BY <1>1, <2>1, <2>2, <2>3, <2>4 DEF Thought, Written, RowsOf
  <2>8. \A p \in Questions \ {q} :
          node'[p] = node[p] /\ said'[p] = said[p] /\ events'[p] = events[p]
    BY <1>1, <2>1, <2>2 DEF QaTypes
  <2> QED
    BY <2>1, <2>5, <2>6, <2>7, <2>8, OthersStay
<1>8. ASSUME Qa!Think(q) PROVE QaInv'
  <2>1. /\ node[q] = "generate_answer" /\ pieces' = [pieces EXCEPT ![q] = @ + 1]
        /\ reasoning' = [reasoning EXCEPT ![q] = IF @ = "closed" THEN @ ELSE "open"]
        /\ UNCHANGED <<node, asker, evidence, said, cited, counted, chat, messages, pairs>>
    BY <1>8 DEF Qa!Think, Qa!rowVars
  <2>2. events' = [events EXCEPT ![q] = Append(@, "reasoning_delta")]
    BY <1>2, <1>8, SaidIsAppended DEF Qa!Think, Qa!Say
  <2>3. /\ events'[q] = Append(events[q], "reasoning_delta")
        /\ reasoning'[q] = (IF reasoning[q] = "closed" THEN "closed" ELSE "open")
    BY <1>1, <2>1, <2>2 DEF QaTypes
  <2>4. /\ events'[q] \in Seq(EventNames) /\ Len(events[q]) \in Nat
        /\ \A d : d # "reasoning_delta" => Spots(events[q], d)' = Spots(events[q], d)
        /\ Spots(events[q], "reasoning_delta")' =
             Spots(events[q], "reasoning_delta") \union {Len(events[q]) + 1}
        /\ \A j \in Spots(events[q], "answer_delta") : j \in Nat /\ j <= Len(events[q])
    BY <1>2, <2>3, SpotsOfMore
  <2>5. QaTypes'
    BY <1>1, <2>1, <2>2, <2>4 DEF QaTypes
  <2>6. Course(q)'
    BY <1>1, <2>1, <2>4 DEF Course, Before, After
  <2>7. Thought(q)'
    <3>1. \A i \in Spots(events[q], "reasoning_delta")', j \in Spots(events[q], "answer_delta")' :
            i < j => \E k \in Spots(events[q], "reasoning_done")' : k < j
      BY <1>1, <2>4 DEF Thought
    <3>2. /\ reasoning[q] \in {"no", "open", "closed"}
          /\ Spots(events[q], "reasoning_done")' = Spots(events[q], "reasoning_done")
      BY <1>1, <2>4 DEF QaTypes
    <3> QED
      BY <1>1, <2>3, <3>1, <3>2 DEF Thought
  <2>8. Written(q)'
    BY <1>1, <2>1, <2>4 DEF Written, RowsOf
  <2>9. \A p \in Questions \ {q} : reasoning'[p] = reasoning[p] /\ events'[p] = events[p]
    BY <1>1, <2>1, <2>2 DEF QaTypes
  <2> QED
    BY <2>1, <2>5, <2>6, <2>7, <2>8, <2>9, OthersStay
<1>9. ASSUME Qa!BreakAnswer(q) PROVE QaInv'
  BY <1>9, FailKeeps DEF Qa!BreakAnswer, Qa!answerVars, Qa!rowVars, After
<1>10. ASSUME Qa!OrganizeCitations(q) PROVE QaInv'
  <2>1. /\ node[q] = "organize_citations" /\ node' = [node EXCEPT ![q] = "persist_message"]
        /\ \E c \in BOOLEAN : cited' = [cited EXCEPT ![q] = c]
        /\ UNCHANGED <<asker, evidence, reasoning, pieces, said, events,
                       counted, chat, messages, pairs>>
    BY <1>10 DEF Qa!OrganizeCitations, Qa!Go, Qa!answerVars, Qa!rowVars
  <2>2. QaTypes' /\ Course(q)'
    BY <1>1, <2>1 DEF QaTypes, Course, Before, Middle, After
  <2> QED
    BY <1>1, <2>1, <2>2, QuietKeeps DEF QaTypes
<1>11. ASSUME Qa!CountMessages(q) PROVE QaInv'
  <2>1. CASE Qa!Fail(q) /\ UNCHANGED counted
    BY <1>11, <2>1, FailKeeps DEF Qa!CountMessages, Qa!answerVars, Qa!rowVars, After
  <2>2. CASE ~(Qa!Fail(q) /\ UNCHANGED counted)
    <3>1. /\ node[q] = "persist_message"
          /\ \/ /\ asker[q] = "given" /\ node' = [node EXCEPT ![q] = "finalize"]
                /\ UNCHANGED counted
             \/ /\ asker[q] # "given" /\ node' = node
                /\ counted' = [counted EXCEPT ![q] = Len(messages)]
          /\ UNCHANGED <<asker, evidence, reasoning, pieces, said, cited, events,
                         chat, messages, pairs>>
      BY <1>11, <2>2 DEF Qa!CountMessages, Qa!Go, Qa!answerVars, Qa!rowVars
    <3>2. QaTypes' /\ Course(q)'
      <4>1. Len(messages) \in Nat
        BY <1>1 DEF QaTypes
      <4>2. QaTypes'
        BY <1>1, <3>1, <4>1 DEF QaTypes, Middle
      <4>3. asker[q] \in {"chat", "given"} /\ node'[q] \in {"finalize", "persist_message"}
        BY <1>1, <3>1 DEF QaTypes, Course
      <4>4. Course(q)'
        BY <1>1, <3>1, <4>3 DEF Course, Before, After
      <4> QED
        BY <4>2, <4>4
    <3>3. /\ node'[q] \in {"finalize", "end"} => asker'[q] = "given"
          /\ \A p \in Questions \ {q} : node'[p] = node[p] /\ counted'[p] = counted[p]
      BY <1>1, <3>1 DEF QaTypes
    <3> QED
      BY <3>1, <3>2, <3>3, QuietKeeps
  <2> QED
    BY <2>1, <2>2
<1>12. ASSUME Qa!SaveMessage(q) PROVE QaInv'
  <2>1. CASE Qa!Fail(q) /\ UNCHANGED messages
    BY <1>12, <2>1, FailKeeps DEF Qa!SaveMessage, Qa!answerVars, After
  <2>2. CASE ~(Qa!Fail(q) /\ UNCHANGED messages)
    <3>1. /\ node[q] = "persist_message" /\ node' = [node EXCEPT ![q] = "finalize"]
          /\ counted[q] # None /\ messages' = Append(messages, Qa!Row(q))
          /\ UNCHANGED <<asker, evidence, reasoning, pieces, said, cited, events,
                         counted, chat, pairs>>
      BY <1>12, <2>2 DEF Qa!SaveMessage, Qa!Go, Qa!answerVars
    <3>2. /\ Qa!Row(q) \in [place : Nat, question : Questions, text : Nat]
          /\ Qa!Row(q).question = q /\ Qa!Row(q).text = said[q]
      BY <1>1, <3>1 DEF QaTypes, Qa!Row
    <3>3. QaTypes'
      BY <1>1, <3>1, <3>2 DEF QaTypes, Middle
    <3>4. Course(q)'
      BY <1>1, <3>1 DEF Course, QaTypes, Before, After
    <3>5. Thought(q)'
      BY <1>1, <3>1 DEF Thought
    <3>6. RowsOf(messages', q) = {Len(messages) + 1} /\ messages'[Len(messages) + 1] = Qa!Row(q)
      <4>1. RowsOf(messages, q) = {} /\ messages \in Seq([place : Nat, question : Questions, text : Nat])
        BY <1>1, <3>1 DEF Written, QaTypes
      <4>2. /\ DOMAIN messages' = 1..(Len(messages) + 1)
            /\ DOMAIN messages = 1..Len(messages) /\ Len(messages) \in Nat
            /\ \A i \in 1..Len(messages) : messages'[i] = messages[i]
            /\ messages'[Len(messages) + 1] = Qa!Row(q)
        BY <3>1, <4>1
      <4>3. \A i \in 1..(Len(messages) + 1) : i \in 1..Len(messages) \/ i = Len(messages) + 1
        BY <4>2
      <4> QED
        BY <3>2, <4>1, <4>2, <4>3 DEF RowsOf
    <3>7. Written(q)'
      <4>1. node'[q] = "finalize" /\ asker[q] = "chat"
        BY <1>1, <3>1 DEF QaTypes, Course, After
      <4> QED
        BY <1>1, <3>1, <3>2, <3>6, <4>1 DEF Written
    <3>8. \A p \in Questions \ {q} : node'[p] = node[p]
      BY <1>1, <3>1 DEF QaTypes
    <3> QED
      BY <3>1, <3>2, <3>3, <3>4, <3>5, <3>7, <3>8, OthersStay
  <2> QED
    BY <2>1, <2>2
<1>13. ASSUME Qa!Finalize(q) PROVE QaInv'
  <2> DEFINE first == Append(events[q], "citations")
  <2>1. /\ node[q] = "finalize" /\ node' = [node EXCEPT ![q] = "end"]
        /\ UNCHANGED <<asker, evidence, reasoning, pieces, said, cited, counted, chat,
                       messages, pairs>>
    BY <1>13 DEF Qa!Finalize, Qa!Go, Qa!answerVars, Qa!rowVars
  <2>2. first \in Seq(EventNames) /\ events' = [events EXCEPT ![q] = Append(first, "done")]
    <3>1. <<"citations", "done">> = Append(<<"citations">>, "done")
      OBVIOUS
    <3>2. events[q] \o Append(<<"citations">>, "done") = Append(first, "done")
      <4>1. /\ <<"citations">> \in Seq(EventNames) /\ {"citations", "done"} \subseteq EventNames
            /\ events[q] \o <<"citations">> = first
        BY <1>2, SaidIsAppended
      <4> HIDE DEF first
      <4> QED
        BY <1>2, <4>1, SaidIsAppended
    <3>3. first \in Seq(EventNames)
      BY <1>2
    <3>4. events' = [events EXCEPT ![q] = events[q] \o <<"citations", "done">>]
      BY <1>13 DEF Qa!Finalize, Qa!Say
    <3> HIDE DEF first
    <3> QED
      BY <3>1, <3>2, <3>3, <3>4
  <2>3. \A d : d # "citations" => Spots(first, d) = Spots(events[q], d)
    BY <1>2, SpotsOfMore
  <2> HIDE DEF first
  <2>4. events'[q] = Append(first, "done") /\ node'[q] = "end"
    BY <1>1, <2>1, <2>2 DEF QaTypes
  <2>5. /\ events'[q] \in Seq(EventNames) /\ events'[q] # <<>>
        /\ events'[q][Len(events'[q])] = "done"
        /\ \A d : d \notin {"citations", "done"} =>
             Spots(events'[q], d) = Spots(events[q], d)
        /\ Spots(events'[q], "done") = Spots(events[q], "done") \union {Len(events'[q])}
    <3>1. "done" \in EventNames
      BY <1>2
    <3>2. /\ Append(first, "done") \in Seq(EventNames) /\ Append(first, "done") # <<>>
          /\ Len(Append(first, "done")) = Len(first) + 1
          /\ Append(first, "done")[Len(first) + 1] = "done"
          /\ \A d : d # "done" => Spots(Append(first, "done"), d) = Spots(first, d)
          /\ Spots(Append(first, "done"), "done") = Spots(first, "done") \union {Len(first) + 1}
      BY <2>2, <3>1, SpotsOfMore
    <3> QED
      BY <2>3, <2>4, <3>2
  <2>6. QaTypes'
    BY <1>1, <2>1, <2>2, <2>4, <2>5 DEF QaTypes, After
  <2>7. Course(q)'
    BY <1>1, <2>1, <2>4, <2>5 DEF Course, Before, Middle, After
  <2>8. Thought(q)'
    BY <1>1, <2>1, <2>5 DEF Thought
  <2>9. Written(q)'
    BY <1>1, <2>1, <2>4, <2>5 DEF Written, RowsOf
  <2>10. \A p \in Questions \ {q} : node'[p] = node[p] /\ events'[p] = events[p]
    BY <1>1, <2>1, <2>2 DEF QaTypes
  <2> QED
    BY <2>1, <2>6, <2>7, <2>8, <2>9, <2>10, OthersStay
<1>14. ASSUME Qa!CountPairs(q) PROVE QaInv'
  <2>1. /\ node[q] \in {"end", "failed"} /\ asker[q] = "given"
        /\ counted' = [counted EXCEPT ![q] = Len(pairs)]
        /\ UNCHANGED <<node, asker, evidence, reasoning, pieces, said, cited, events,
                       chat, messages, pairs>>
    BY <1>14 DEF Qa!CountPairs, Qa!Ends, Qa!answerVars, Qa!rowVars
  <2>2. QaTypes' /\ Course(q)'
    BY <1>1, <2>1 DEF QaTypes, Course, Before, Middle, After
  <2>3. \A p \in Questions \ {q} : counted'[p] = counted[p]
    BY <1>1, <2>1 DEF QaTypes
  <2> QED
    BY <2>1, <2>2, <2>3, QuietKeeps
<1>15. ASSUME Qa!RecordPair(q) PROVE QaInv'
  <2>1. /\ node[q] \in {"end", "failed"} /\ asker[q] = "given"
        /\ node' = [node EXCEPT ![q] = "recorded"] /\ pairs' = Append(pairs, Qa!Row(q))
        /\ counted[q] # None
        /\ UNCHANGED <<asker, evidence, reasoning, pieces, said, cited, counted,
                       events, chat, messages>>
    BY <1>15 DEF Qa!RecordPair, Qa!Go, Qa!Ends, Qa!answerVars
  <2>2. Qa!Row(q) \in [place : Nat, question : Questions, text : Nat]
    BY <1>1, <2>1 DEF QaTypes, Qa!Row
  <2>3. QaTypes'
    BY <1>1, <2>1, <2>2 DEF QaTypes, After
  <2>4. Course(q)'
    BY <1>1, <2>1 DEF QaTypes, Course, Before, Middle, After
  <2>5. node'[q] = "recorded" /\ \A p \in Questions \ {q} : node'[p] = node[p]
    BY <1>1, <2>1 DEF QaTypes
  <2> QED
    BY <2>1, <2>3, <2>4, <2>5, QuietKeeps
<1> QED
  BY <1>3, <1>4, <1>5, <1>6, <1>7, <1>8, <1>9, <1>10, <1>11, <1>12, <1>13, <1>14,
     <1>15, SpeakKeeps, EndAnswerKeeps DEF Qa!QaStep

(* Every step of the questions keeps QaInv. *)
LEMMA QaInvStep ==
  ASSUME QaInv, [Qa!QaNext]_qaVars
  PROVE  QaInv'
<1>1. QaTypes /\ \A q \in Questions : Course(q) /\ Thought(q) /\ Written(q)
  BY DEF QaInv
<1>2. ASSUME NEW q \in Questions, NEW k \in {"chat", "given"},
             NEW f \in {"none", "noise", "some"}, Qa!Begin(q, k, f)
      PROVE  QaInv'
  <2>1. /\ node[q] = "idle" /\ node' = [node EXCEPT ![q] = "load_context"]
        /\ asker' = [asker EXCEPT ![q] = k] /\ evidence' = [evidence EXCEPT ![q] = f]
        /\ UNCHANGED <<reasoning, pieces, said, cited, events, counted, chat,
                       messages, pairs>>
    BY <1>2 DEF Qa!Begin, Qa!Go, Qa!answerVars, Qa!rowVars
  <2>2. Course(q) /\ counted[q] = None
    BY <1>1, <2>1 DEF Course
  <2>3. QaTypes' /\ Course(q)'
    BY <1>1, <2>1, <2>2 DEF QaTypes, Course, Before, Middle, After
  <2>4. /\ node'[q] = "load_context"
        /\ \A p \in Questions \ {q} :
             node'[p] = node[p] /\ asker'[p] = asker[p] /\ evidence'[p] = evidence[p]
    BY <1>1, <2>1 DEF QaTypes
  <2> QED
    BY <2>1, <2>3, <2>4, QuietKeeps
<1>3. CASE Qa!DeleteChat
  <2>1. /\ chat' = FALSE /\ messages' = <<>>
        /\ UNCHANGED <<node, asker, evidence, reasoning, pieces, said, cited, events,
                       counted, pairs>>
    BY <1>3 DEF Qa!DeleteChat, Qa!answerVars
  <2>2. QaTypes'
    <3>1. <<>> \in Seq([place : Nat, question : Questions, text : Nat])
      OBVIOUS
    <3> QED
      BY <1>1, <2>1, <3>1 DEF QaTypes
  <2>3. ASSUME NEW q \in Questions PROVE Course(q)' /\ Thought(q)' /\ Written(q)'
    <3>1. RowsOf(messages', q) = {}
      BY <2>1 DEF RowsOf
    <3>2. Course(q)'
      BY <1>1, <2>1 DEF Course
    <3>3. Thought(q)'
      BY <1>1, <2>1 DEF Thought
    <3>4. Written(q)'
      BY <1>1, <2>1, <3>1 DEF Written
    <3> QED
      BY <3>2, <3>3, <3>4
  <2> QED
    BY <2>2, <2>3 DEF QaInv
<1>4. CASE UNCHANGED qaVars
  <2>1. QaTypes'
    BY <1>1, <1>4 DEF qaVars, QaTypes
  <2>2. ASSUME NEW q \in Questions PROVE Course(q)' /\ Thought(q)' /\ Written(q)'
    <3>1. Course(q)'
      BY <1>1, <1>4 DEF qaVars, Course
    <3>2. Thought(q)'
      BY <1>1, <1>4 DEF qaVars, Thought
    <3>3. Written(q)'
      BY <1>1, <1>4 DEF qaVars, Written
    <3> QED
      BY <3>1, <3>2, <3>3
  <2> QED
    BY <2>1, <2>2 DEF QaInv
<1> QED
  BY <1>2, <1>3, <1>4, QaStepKeeps DEF Qa!QaNext

LEMMA QaInvInit ==
  ASSUME Qa!QaInit
  PROVE  QaInv
<1>1. QaTypes
  BY DEF Qa!QaInit, QaTypes, Before
<1>2. ASSUME NEW q \in Questions PROVE Course(q) /\ Thought(q) /\ Written(q)
  <2>1. /\ node[q] = "idle" /\ asker[q] = None /\ reasoning[q] = "no" /\ said[q] = 0
        /\ cited[q] = FALSE /\ events[q] = <<>> /\ counted[q] = None /\ messages = <<>>
    BY DEF Qa!QaInit
  <2>2. (\A d : Spots(events[q], d) = {}) /\ RowsOf(messages, q) = {}
    BY <2>1 DEF Spots, RowsOf
  <2>3. Course(q) /\ Thought(q)
    BY <2>1, <2>2 DEF Course, Thought, After
  <2>4. Written(q)
    BY <2>1, <2>2, FS_EmptySet DEF Written
  <2> QED
    BY <2>3, <2>4
<1> QED
  BY <1>1, <1>2 DEF QaInv

(* A question has one row of a kind, so that no more rows are counted than *)
(* there are questions; and its answer has no more pieces than the model   *)
(* gave, and one without evidence.                                         *)
Rows == [place : Nat, question : Questions, text : Nat]
OneRowEach(rows) ==
  \A i, j \in DOMAIN rows : rows[i].question = rows[j].question => i = j

QaBounds ==
  /\ pairs \in Seq(Rows) /\ OneRowEach(messages) /\ OneRowEach(pairs)
  /\ \A i \in DOMAIN pairs : node[pairs[i].question] = "recorded"
  /\ \A q \in Questions :
       /\ pieces[q] <= MaxPieces /\ said[q] <= pieces[q] + 1
       /\ counted[q] = None \/ counted[q] <= Cardinality(Questions)

LEMMA QuestionsAreFinite == IsFiniteSet(Questions) /\ MaxPieces \in Nat
BY ServicesAssumption DEF Qa!QaAssumption, Qa!IsFiniteSet, IsFiniteSet

(* With one row for a question there are no more rows than questions. *)
LEMMA RowsAreFew ==
  ASSUME NEW rows \in Seq(Rows), OneRowEach(rows)
  PROVE  Len(rows) \in Nat /\ Len(rows) <= Cardinality(Questions)
<1> DEFINE names == [i \in 1..Len(rows) |-> rows[i].question]
<1>1. /\ Len(rows) \in Int /\ 1 \in Int /\ Len(rows) \in Nat
      /\ DOMAIN rows = 1..Len(rows) /\ \A i \in 1..Len(rows) : rows[i] \in Rows
  OBVIOUS
<1>2. names \in Injection(1..Len(rows), Questions)
  BY <1>1 DEF Injection, IsInjective, OneRowEach, Rows
<1> HIDE DEF names
<1>3. Cardinality(1..Len(rows)) <= Cardinality(Questions)
  BY <1>2, QuestionsAreFinite, FS_Injection
<1>4. Cardinality(1..Len(rows)) = Len(rows)
  <2>1. Cardinality(1..Len(rows)) = IF 1 > Len(rows) THEN 0 ELSE Len(rows) - 1 + 1
    BY <1>1, FS_Interval
  <2> QED
    BY <1>1, <2>1
<1> QED
  BY <1>1, <1>3, <1>4

(* A row of a question that had none. *)
LEMMA OneRowMore ==
  ASSUME NEW rows \in Seq(Rows), NEW r \in Rows, OneRowEach(rows),
         \A i \in DOMAIN rows : rows[i].question # r.question
  PROVE  /\ Append(rows, r) \in Seq(Rows) /\ OneRowEach(Append(rows, r))
         /\ \A i \in DOMAIN Append(rows, r) :
              (i \in DOMAIN rows /\ Append(rows, r)[i] = rows[i]) \/ Append(rows, r)[i] = r
<1>1. /\ DOMAIN Append(rows, r) = 1..(Len(rows) + 1)
      /\ DOMAIN rows = 1..Len(rows) /\ Len(rows) \in Nat
      /\ \A i \in 1..Len(rows) : Append(rows, r)[i] = rows[i]
      /\ Append(rows, r)[Len(rows) + 1] = r /\ Append(rows, r) \in Seq(Rows)
  OBVIOUS
<1>2. \A i \in 1..(Len(rows) + 1) : i \in 1..Len(rows) \/ i = Len(rows) + 1
  BY <1>1
<1> QED
  BY <1>1, <1>2 DEF OneRowEach

(* What a step for a question does to the counts and the rows. *)
LEMMA QaCounts ==
  ASSUME NEW q \in Questions, said \in [Questions -> Nat],
         \/ Qa!QaStep(q)
         \/ \E k \in {"chat", "given"}, f \in {"none", "noise", "some"} : Qa!Begin(q, k, f)
  PROVE  /\ \/ UNCHANGED <<pieces, said>>
            \/ /\ node[q] = "answer_without_evidence"
               /\ said' = [said EXCEPT ![q] = 1] /\ pieces' = pieces
            \/ /\ pieces[q] < MaxPieces /\ pieces' = [pieces EXCEPT ![q] = @ + 1]
               /\ said' = said \/ said' = [said EXCEPT ![q] = @ + 1]
         /\ \/ counted' = counted
            \/ counted' = [counted EXCEPT ![q] = Len(messages)]
            \/ counted' = [counted EXCEPT ![q] = Len(pairs)]
         /\ \/ messages' = messages
            \/ /\ node[q] = "persist_message" /\ counted[q] # None
               /\ messages' = Append(messages, Qa!Row(q))
         /\ \/ pairs' = pairs
            \/ /\ node[q] \in {"end", "failed"} /\ counted[q] # None
               /\ pairs' = Append(pairs, Qa!Row(q))
               /\ node' = [node EXCEPT ![q] = "recorded"]
         /\ node[q] # "recorded"
         /\ node' = node \/ \E where : node' = [node EXCEPT ![q] = where]
<1>1. CASE Qa!LoadContext(q) \/ Qa!ClassifyIntent(q) \/ Qa!RetrieveEvidence(q)
  BY <1>1
  DEF Qa!ClassifyIntent, Qa!LoadContext, Qa!RetrieveEvidence, Qa!Fail, Qa!Go, Qa!Ends,
      Qa!answerVars, Qa!rowVars
<1>2. CASE Qa!EvaluateEvidence(q) \/ Qa!BreakAnswer(q) \/ Qa!OrganizeCitations(q) \/ Qa!Finalize(q)
  BY <1>2
  DEF Qa!BreakAnswer, Qa!EvaluateEvidence, Qa!Finalize, Qa!OrganizeCitations, Qa!Fail, Qa!Go, Qa!Ends,
      Qa!answerVars, Qa!rowVars
<1>3. CASE Qa!EndAnswer(q)
  BY <1>3
  DEF Qa!EndAnswer, Qa!Fail, Qa!Go, Qa!Ends,
      Qa!answerVars, Qa!rowVars
<1>4. CASE Qa!AnswerWithoutEvidence(q)
  BY <1>4
  DEF Qa!AnswerWithoutEvidence, Qa!Fail, Qa!Go, Qa!Ends,
      Qa!answerVars, Qa!rowVars
<1>5. CASE Qa!Think(q)
  BY <1>5
  DEF Qa!Think, Qa!Fail, Qa!Go, Qa!Ends,
      Qa!answerVars, Qa!rowVars
<1>6. ASSUME NEW blank \in BOOLEAN, Qa!Speak(q, blank)
      PROVE  /\ pieces[q] < MaxPieces /\ pieces' = [pieces EXCEPT ![q] = @ + 1]
             /\ said' = said \/ said' = [said EXCEPT ![q] = @ + 1]
             /\ node[q] = "generate_answer" /\ UNCHANGED <<node, counted, messages, pairs>>
  <2>1. /\ pieces[q] < MaxPieces /\ pieces' = [pieces EXCEPT ![q] = @ + 1]
        /\ said' = [said EXCEPT ![q] = IF blank THEN said[q] ELSE said[q] + 1]
        /\ node[q] = "generate_answer" /\ UNCHANGED <<node, counted, messages, pairs>>
    BY <1>6 DEF Qa!Speak, Qa!rowVars
  <2> QED
    BY <2>1, said \in [Questions -> Nat]
<1>7. CASE Qa!CountMessages(q)
  BY <1>7
  DEF Qa!CountMessages, Qa!Fail, Qa!Go, Qa!Ends,
      Qa!answerVars, Qa!rowVars
<1>8. CASE Qa!SaveMessage(q)
  BY <1>8
  DEF Qa!SaveMessage, Qa!Fail, Qa!Go, Qa!Ends,
      Qa!answerVars, Qa!rowVars
<1>9. CASE Qa!CountPairs(q)
  BY <1>9
  DEF Qa!CountPairs, Qa!Fail, Qa!Go, Qa!Ends,
      Qa!answerVars, Qa!rowVars
<1>10. CASE Qa!RecordPair(q)
  BY <1>10
  DEF Qa!RecordPair, Qa!Fail, Qa!Go, Qa!Ends,
      Qa!answerVars, Qa!rowVars
<1>11. CASE \E k \in {"chat", "given"}, f \in {"none", "noise", "some"} : Qa!Begin(q, k, f)
  BY <1>11 DEF Qa!Begin, Qa!Go, Qa!answerVars, Qa!rowVars
<1> QED
  BY <1>1, <1>2, <1>3, <1>4, <1>5, <1>6, <1>7, <1>8, <1>9, <1>10, <1>11 DEF Qa!QaStep

(* Every step keeps the rows apart and the counts bounded. *)
LEMMA QaBoundsStep ==
  ASSUME QaInv, QaBounds, [Qa!QaNext]_qaVars
  PROVE  QaBounds'
<1>1. QaTypes /\ \A q \in Questions : Course(q) /\ Written(q)
  BY DEF QaInv
<1>2. messages \in Seq(Rows) /\ pairs \in Seq(Rows)
  BY <1>1 DEF QaTypes, QaBounds, Rows
<1>3. /\ Len(messages) \in Nat /\ Len(messages) <= Cardinality(Questions)
      /\ Len(pairs) \in Nat /\ Len(pairs) <= Cardinality(Questions)
  BY <1>2, RowsAreFew DEF QaBounds
<1>4. said \in [Questions -> Nat]
  BY <1>1 DEF QaTypes
<1>5. ASSUME NEW q \in Questions,
             \/ Qa!QaStep(q)
             \/ \E k \in {"chat", "given"}, f \in {"none", "noise", "some"} : Qa!Begin(q, k, f)
      PROVE  QaBounds'
  <2>1. ASSUME counted[q] # None PROVE Qa!Row(q) \in Rows /\ Qa!Row(q).question = q
    BY <1>1, <2>1 DEF QaTypes, Rows, Qa!Row
  <2>2. OneRowEach(messages')
    <3>1. CASE messages' = messages
      BY <3>1 DEF QaBounds
    <3>2. CASE /\ node[q] = "persist_message" /\ counted[q] # None
               /\ messages' = Append(messages, Qa!Row(q))
      <4>1. RowsOf(messages, q) = {}
        BY <1>1, <3>2 DEF Written
      <4>2. \A i \in DOMAIN messages : messages[i].question # Qa!Row(q).question
        BY <2>1, <3>2, <4>1 DEF RowsOf
      <4> QED
        BY <1>2, <2>1, <3>2, <4>2, OneRowMore DEF QaBounds
    <3> QED
      BY <1>5, <1>4, <3>1, <3>2, QaCounts
  <2>3. /\ pairs' \in Seq(Rows) /\ OneRowEach(pairs')
        /\ \A i \in DOMAIN pairs' : node'[pairs'[i].question] = "recorded"
    <3>1. DOMAIN node = Questions /\ node = [p \in Questions |-> node[p]]
      BY <1>1 DEF QaTypes
    <3>2. \A i \in DOMAIN pairs : /\ pairs[i].question \in Questions \ {q}
                                   /\ node[pairs[i].question] = "recorded"
      <4>1. \A i \in DOMAIN pairs : pairs[i].question \in Questions
        <5>1. \A i \in DOMAIN pairs : pairs[i] \in Rows
          BY <1>2
        <5> QED
          BY <5>1 DEF Rows
      <4>2. node[q] # "recorded"
        BY <1>5, <1>4, QaCounts
      <4> QED
        BY <4>1, <4>2 DEF QaBounds
    <3>3. \A i \in DOMAIN pairs : node'[pairs[i].question] = "recorded"
      <4>1. node' = node \/ \E where : node' = [node EXCEPT ![q] = where]
        BY <1>5, <1>4, QaCounts
      <4> QED
        BY <3>1, <3>2, <4>1
    <3>4. CASE pairs' = pairs
      BY <3>3, <3>4 DEF QaBounds
    <3>5. CASE /\ counted[q] # None /\ pairs' = Append(pairs, Qa!Row(q))
               /\ node' = [node EXCEPT ![q] = "recorded"]
      <4>1. \A i \in DOMAIN pairs : pairs[i].question # Qa!Row(q).question
        BY <2>1, <3>2, <3>5
      <4>2. node'[q] = "recorded"
        BY <3>1, <3>5
      <4>3. /\ pairs' \in Seq(Rows) /\ OneRowEach(pairs')
            /\ \A i \in DOMAIN pairs' :
                 (i \in DOMAIN pairs /\ pairs'[i] = pairs[i]) \/ pairs'[i] = Qa!Row(q)
        BY <1>2, <2>1, <3>5, <4>1, OneRowMore DEF QaBounds
      <4> QED
        BY <2>1, <3>3, <3>5, <4>2, <4>3
    <3> QED
      BY <1>5, <1>4, <3>4, <3>5, QaCounts
  <2>4. ASSUME NEW p \in Questions
        PROVE  pieces'[p] <= MaxPieces /\ said'[p] <= pieces'[p] + 1
    <3>1. /\ pieces \in [Questions -> Nat] /\ said \in [Questions -> Nat]
          /\ pieces[p] <= MaxPieces /\ said[p] <= pieces[p] + 1
          /\ pieces[p] \in Nat /\ said[p] \in Nat
      BY <1>1 DEF QaTypes, QaBounds
    <3>2. \/ UNCHANGED <<pieces, said>>
          \/ said' = [said EXCEPT ![q] = 1] /\ pieces' = pieces
          \/ /\ pieces[q] < MaxPieces /\ pieces' = [pieces EXCEPT ![q] = @ + 1]
             /\ said' = said \/ said' = [said EXCEPT ![q] = @ + 1]
      BY <1>5, <1>4, QaCounts
    <3> QED
      BY <3>1, <3>2, QuestionsAreFinite
  <2>5. ASSUME NEW p \in Questions
        PROVE  counted'[p] = None \/ counted'[p] <= Cardinality(Questions)
    <3>1. DOMAIN counted = Questions /\ (counted[p] = None \/ counted[p] <= Cardinality(Questions))
      BY <1>1 DEF QaTypes, QaBounds
    <3>2. \/ counted' = counted
          \/ counted' = [counted EXCEPT ![q] = Len(messages)]
          \/ counted' = [counted EXCEPT ![q] = Len(pairs)]
      BY <1>5, <1>4, QaCounts
    <3> QED
      BY <1>3, <3>1, <3>2
  <2> QED
    BY <2>2, <2>3, <2>4, <2>5 DEF QaBounds
<1>6. CASE Qa!DeleteChat
  <2>1. messages' = <<>> /\ UNCHANGED <<pieces, said, counted, pairs, node>>
    BY <1>6 DEF Qa!DeleteChat, Qa!answerVars
  <2>2. OneRowEach(messages')
    BY <2>1 DEF OneRowEach
  <2> QED
    BY <2>1, <2>2 DEF QaBounds
<1>7. CASE UNCHANGED qaVars
  BY <1>7 DEF QaBounds, qaVars
<1> QED
  BY <1>5, <1>6, <1>7 DEF Qa!QaNext

LEMMA QaBoundsInit ==
  ASSUME Qa!QaInit
  PROVE  QaBounds
<1>1. messages = <<>> /\ pairs = <<>>
  BY DEF Qa!QaInit
<1>2. ASSUME NEW q \in Questions
      PROVE  pieces[q] = 0 /\ said[q] = 0 /\ counted[q] = None
  BY DEF Qa!QaInit
<1>3. pairs \in Seq(Rows) /\ OneRowEach(messages) /\ OneRowEach(pairs) /\ DOMAIN pairs = {}
  BY <1>1 DEF OneRowEach
<1> QED
  BY <1>2, <1>3, QuestionsAreFinite DEF QaBounds

(* What is counted is bounded by the questions. *)
LEMMA QaShowsTypes == QaInv /\ QaBounds => Qa!QaTypeOK
<1> SUFFICES ASSUME QaInv, QaBounds, NEW q \in Questions
             PROVE  /\ node[q] \in {"idle", "recorded"} \union Qa!Nodes \union Qa!Ends
                    /\ asker[q] \in {None, "chat", "given"}
                    /\ evidence[q] \in {"none", "noise", "some"}
                    /\ reasoning[q] \in {"no", "open", "closed"}
                    /\ pieces[q] \in 0..MaxPieces /\ said[q] \in 0..(MaxPieces + 1)
                    /\ cited[q] \in BOOLEAN
                    /\ counted[q] \in {None} \union 0..Qa!Cardinality(Questions)
                    /\ chat \in BOOLEAN
  BY DEF Qa!QaTypeOK, QaInv, QaTypes
<1>1. QaTypes
  BY DEF QaInv
<1>2. node[q] \in {"idle", "recorded"} \union Qa!Nodes \union Qa!Ends
  BY <1>1 DEF QaTypes, Before, Middle, After, Qa!Nodes, Qa!Ends
<1>3. /\ pieces[q] \in Nat /\ said[q] \in Nat /\ counted[q] \in {None} \union Nat
      /\ pieces[q] <= MaxPieces /\ said[q] <= pieces[q] + 1
      /\ counted[q] = None \/ counted[q] <= Cardinality(Questions)
  BY <1>1 DEF QaTypes, QaBounds
<1>4. pieces[q] \in 0..MaxPieces /\ said[q] \in 0..(MaxPieces + 1)
  BY <1>3, QuestionsAreFinite
<1>5. counted[q] \in {None} \union 0..Qa!Cardinality(Questions)
  <2>1. Cardinality(Questions) \in Nat /\ Qa!Cardinality(Questions) = Cardinality(Questions)
    BY QuestionsAreFinite, FS_CardinalityType, SameCardinality
  <2> QED
    BY <1>3, <2>1
<1> QED
  BY <1>1, <1>2, <1>4, <1>5 DEF QaTypes

-----------------------------------------------------------------------------
(* AnswerPaths *)

Chunk  == [agent : Nat, search : Nat, n : Nat]
Source(c) == <<c.agent, c.search>>
InFound(c, these) == \E k \in DOMAIN these : these[k] = c

(* A chunk has the number of its place, or there are chunks of two searches. *)
Numbered(these) ==
  \A i \in DOMAIN these :
    these[i].n = i \/ \E j \in DOMAIN these : Source(these[j]) # Source(these[i])

(* The text is what the stream ends with. *)
EndsWith(stream, words) ==
  /\ Len(words) <= Len(stream)
  /\ \A i \in 1..Len(words) : stream[Len(stream) - Len(words) + i] = words[i]

(* An agent's chunks are its own, of the searches it made, and it cites    *)
(* what it found.                                                          *)
Agents == [at : {"running", "answered", "empty", "raised"}, turns : Nat,
           text : Path!Texts, cites : SUBSET [chunk : Chunk, bare : BOOLEAN],
           found : Seq(Chunk)]
Sound(i, a) ==
  /\ a \in Agents /\ Numbered(a.found) /\ (a.at # "answered" => a.text = <<>>)
  /\ \A c \in a.cites : InFound(c.chunk, a.found)
  /\ \A k \in DOMAIN a.found : a.found[k].agent = i /\ a.found[k].search <= a.turns

Choosing   == {"start", "load", "look", "analyze"}
InParts   == {"ask", "spawn", "wait", "join", "joining"}
Answering == {"retrieve", "generate"}
Saving  == {"persist", "cite", "end"}
Broken    == {"failed", "raised"}
Nobody    == \A i \in Path!Tasks : agents[i] = None
NoAnswer  == text = <<>> /\ shown = <<>> /\ buffer = <<>>

PathTypes ==
  /\ stage \in Choosing \union InParts \union Answering \union Saving \union Broken
                 \union {"start_agent", "stream", "show"}
  /\ way \in {None, "metadata", "clarify", "multi", "single", "react"}
  /\ reader \in {"waiting", "holding", "gone"}
  /\ DOMAIN agents = Path!Tasks /\ agents = [i \in Path!Tasks |-> agents[i]]
  /\ agents[0] = None \/ agents[0] \in Agents
  /\ \A i \in Path!Tasks \ {0} : agents[i] = None \/ Sound(i, agents[i])
  /\ part \in Nat /\ wanted \in 0..MaxParts /\ part <= wanted
  /\ buffer \in Seq(Nat) /\ shown \in Seq(Nat) /\ text \in Path!Texts
  /\ cites \subseteq [chunk : Chunk, bare : BOOLEAN] /\ found \in Seq(Chunk)

(* What there is of an answer at each place of the generator. *)
Places ==
  /\ stage \in Choosing \union {"start_agent"} =>
       NoAnswer /\ Nobody /\ found = <<>> /\ cites = {} /\ part = 0
  /\ stage \in InParts => way = "multi" /\ NoAnswer
  /\ stage \in {"spawn", "wait"} => part < wanted
  /\ stage = "wait" => Sound(part + 1, agents[part + 1])
  /\ stage = "joining" => agents[0] \in Agents /\ agents[0].cites \subseteq cites
  /\ stage \in Answering => way = "single" /\ shown = text /\ cites = {}
  /\ stage = "retrieve" => text = <<>>
  /\ stage = "start_agent" => way = "react"
  /\ stage = "stream" =>
       /\ way = "react" /\ Sound(1, agents[1])
       /\ \A i \in Path!Tasks \ {1} : agents[i] = None
       /\ agents[1].at = "answered" => EndsWith(shown \o buffer, agents[1].text)
       /\ found = <<>> /\ cites = {}
  /\ stage = "show" =>
       /\ way \in {"metadata", "clarify", "multi"} /\ Len(shown) <= Len(text)
       /\ \A i \in 1..Len(shown) : shown[i] = text[i]
  /\ stage \in Saving =>
       /\ EndsWith(shown, text) /\ (way # "react" => shown = text)
       /\ way = "react" => Nobody
       /\ buffer = <<>>
  /\ stage \in {"show"} \union Answering => buffer = <<>>
  /\ saved = (IF stage \in {"cite", "end"} THEN 1 ELSE 0)
  /\ pathCited = (IF stage \in {"cite", "end"} THEN Path!Resolve ELSE None)

(* The chunks are those of the parts that were answered, numbered, and the *)
(* citations are of them.                                                  *)
Findings ==
  /\ Numbered(found)
  /\ \A c \in cites : InFound(c.chunk, found)
  /\ stage \in InParts => \A k \in DOMAIN found : found[k].agent \in 1..part

PathInv == PathTypes /\ Places /\ Findings

LEMMA PathNumbers ==
  /\ MaxParts \in Nat \ {0} /\ MaxPieces \in Nat \ {0}
  /\ Hits \subseteq Nat /\ Path!Tasks = 0..MaxParts
BY ServicesAssumption DEF Path!PathAssumption, Path!Tasks

(* Texts *)
LEMMA TextsAreSequences ==
  /\ \A t \in Path!Texts : t \in Seq(Nat) /\ Len(t) <= MaxPieces /\ \A i \in 1..Len(t) : t[i] = i
  /\ <<>> \in Path!Texts
  /\ \A t \in Path!Texts : Len(t) < MaxPieces => Append(t, Len(t) + 1) \in Path!Texts
<1>1. ASSUME NEW t \in Path!Texts
      PROVE  /\ t \in Seq(Nat) /\ Len(t) <= MaxPieces /\ \A i \in 1..Len(t) : t[i] = i
             /\ Len(t) < MaxPieces => Append(t, Len(t) + 1) \in Path!Texts
  <2>1. PICK n \in 0..MaxPieces : t = [i \in 1..n |-> i]
    BY DEF Path!Texts
  <2>2. t \in Seq(Nat) /\ Len(t) = n /\ \A i \in 1..n : t[i] = i
    BY <2>1, PathNumbers
  <2>3. ASSUME n < MaxPieces PROVE Append(t, n + 1) \in Path!Texts
    <3>1. Append(t, n + 1) = [i \in 1..(n + 1) |-> i]
      BY <2>1, <2>2
    <3>2. n + 1 \in 0..MaxPieces
      BY <2>3, PathNumbers
    <3> QED
      BY <3>1, <3>2 DEF Path!Texts
  <2> QED
    BY <2>2, <2>3, PathNumbers
<1>2. <<>> \in Path!Texts
  <2>1. <<>> = [i \in 1..0 |-> i] /\ 0 \in 0..MaxPieces
    BY PathNumbers
  <2> QED
    BY <2>1 DEF Path!Texts
<1> QED
  BY <1>1, <1>2

(* A stream that ends with a text, cut where the text begins. *)
LEMMA EndIsLast ==
  ASSUME NEW s \in Seq(Nat), NEW t \in Seq(Nat), EndsWith(s, t)
  PROVE  SubSeq(s, Len(s) - Len(t) + 1, Len(s)) = t
<1> DEFINE a == Len(s) - Len(t) + 1
           u == SubSeq(s, a, Len(s))
<1>1. Len(s) \in Nat /\ Len(t) \in Nat /\ a \in 1..(Len(s) + 1)
  BY DEF EndsWith
<1>2. u \in Seq(Nat) /\ Len(u) = Len(t) /\ \A i \in 1..Len(t) : u[i] = s[a + i - 1]
  BY <1>1
<1>3. \A i \in 1..Len(t) : u[i] = t[i]
  <2>1. \A i \in 1..Len(t) : a + i - 1 = Len(s) - Len(t) + i
    BY <1>1
  <2> QED
    BY <1>2, <2>1 DEF EndsWith
<1> HIDE DEF u, a
<1>4. u = t
  BY <1>2, <1>3, SeqEqual
<1> QED
  BY <1>4 DEF u, a

(* Appending a text. *)
LEMMA EndOfMore ==
  ASSUME NEW s \in Seq(Nat), NEW t \in Seq(Nat)
  PROVE  EndsWith(s \o t, t)
<1>1. Len(s \o t) = Len(s) + Len(t) /\ Len(s) \in Nat /\ Len(t) \in Nat
  OBVIOUS
<1>2. \A i \in 1..Len(t) : (s \o t)[Len(s) + i] = t[i]
  OBVIOUS
<1> QED
  BY <1>1, <1>2 DEF EndsWith

(* Showing a word moves it from the buffer to what was shown. *)
LEMMA PushKeepsStream ==
  ASSUME NEW s \in Seq(Nat), NEW b \in Seq(Nat), b # <<>>
  PROVE  /\ Append(s, Head(b)) \in Seq(Nat) /\ Tail(b) \in Seq(Nat)
         /\ Append(s, Head(b)) \o Tail(b) = s \o b
<1>1. Head(b) \in Nat /\ Tail(b) \in Seq(Nat) /\ b = <<Head(b)>> \o Tail(b)
  OBVIOUS
<1>2. Append(s, Head(b)) = s \o <<Head(b)>> /\ <<Head(b)>> \in Seq(Nat)
  BY <1>1, AppendIsConcat
<1> QED
  BY <1>1, <1>2, ConcatAssociative

(* Chunks *)
LEMMA FoundMore ==
  ASSUME NEW f \in Seq(Chunk), NEW g \in Seq(Chunk), Numbered(f), Numbered(g),
         \A i \in DOMAIN f, j \in DOMAIN g : Source(f[i]) # Source(g[j])
  PROVE  /\ f \o g \in Seq(Chunk) /\ Numbered(f \o g)
         /\ \A c : InFound(c, f \o g) <=> InFound(c, f) \/ InFound(c, g)
         /\ \A k \in DOMAIN (f \o g) :
              (\E i \in DOMAIN f : (f \o g)[k] = f[i]) \/ \E j \in DOMAIN g : (f \o g)[k] = g[j]
<1> DEFINE h == f \o g
<1>1. /\ h \in Seq(Chunk) /\ DOMAIN f = 1..Len(f) /\ DOMAIN g = 1..Len(g)
      /\ DOMAIN h = 1..(Len(f) + Len(g)) /\ Len(f) \in Nat /\ Len(g) \in Nat
      /\ \A i \in 1..Len(f) : h[i] = f[i]
      /\ \A i \in 1..Len(g) : h[Len(f) + i] = g[i]
  OBVIOUS
<1> HIDE DEF h
<1>2. \A k \in DOMAIN h : k \in DOMAIN f \/ \E j \in DOMAIN g : k = Len(f) + j
  <2>1. \A k \in DOMAIN h : k \in 1..Len(f) \/ (k - Len(f) \in 1..Len(g) /\ k = Len(f) + (k - Len(f)))
    BY <1>1
  <2> QED
    BY <1>1, <2>1
<1>3. /\ \A i \in DOMAIN f : i \in DOMAIN h
      /\ \A j \in DOMAIN g : Len(f) + j \in DOMAIN h
  BY <1>1
<1>4. Numbered(h)
  <2>1. ASSUME NEW k \in DOMAIN f
        PROVE  h[k].n = k \/ \E j \in DOMAIN h : Source(h[j]) # Source(h[k])
    <3>1. h[k] = f[k]
      BY <1>1
    <3> QED
      BY <1>1, <1>3, <3>1 DEF Numbered
  <2>2. ASSUME NEW j \in DOMAIN g
        PROVE  \/ h[Len(f) + j].n = Len(f) + j
               \/ \E l \in DOMAIN h : Source(h[l]) # Source(h[Len(f) + j])
    <3>1. h[Len(f) + j] = g[j]
      BY <1>1
    <3>2. CASE Len(f) = 0
      <4>1. Len(f) + j = j
        BY <1>1, <3>2
      <4>2. CASE g[j].n = j
        BY <3>1, <4>1, <4>2
      <4>3. CASE g[j].n # j
        <5>1. PICK l \in DOMAIN g : Source(g[l]) # Source(g[j])
          BY <4>3 DEF Numbered
        <5>2. Len(f) + l \in DOMAIN h /\ h[Len(f) + l] = g[l]
          BY <1>1, <1>3
        <5> QED
          BY <3>1, <5>1, <5>2
      <4> QED
        BY <4>2, <4>3
    <3>3. CASE Len(f) # 0
      <4>1. 1 \in DOMAIN f /\ h[1] = f[1]
        BY <1>1, <3>3
      <4> QED
        BY <1>3, <3>1, <4>1
    <3> QED
      BY <3>2, <3>3
  <2> QED
    BY <1>2, <2>1, <2>2 DEF Numbered
<1>5. \A k \in DOMAIN h : (\E i \in DOMAIN f : h[k] = f[i]) \/ \E j \in DOMAIN g : h[k] = g[j]
  BY <1>1, <1>2
<1>6. \A c : InFound(c, h) <=> InFound(c, f) \/ InFound(c, g)
  BY <1>1, <1>3, <1>5 DEF InFound
<1> QED
  BY <1>1, <1>4, <1>5, <1>6 DEF h

(* What one search finds is numbered. *)
LEMMA ChunksAreNumbered ==
  ASSUME NEW a \in Nat, NEW s \in Nat, NEW n \in Nat
  PROVE  /\ Path!Chunks(a, s, n) \in Seq(Chunk) /\ Numbered(Path!Chunks(a, s, n))
         /\ \A k \in DOMAIN Path!Chunks(a, s, n) :
              Path!Chunks(a, s, n)[k].agent = a /\ Path!Chunks(a, s, n)[k].search = s
<1> DEFINE f == [i \in 1..n |-> [agent |-> a, search |-> s, n |-> i]]
<1>1. f \in Seq(Chunk)
  BY DEF Chunk
<1>2. /\ DOMAIN f = 1..n
      /\ \A k \in 1..n : f[k].agent = a /\ f[k].search = s /\ f[k].n = k
  OBVIOUS
<1> HIDE DEF f
<1>3. Numbered(f)
  BY <1>2 DEF Numbered
<1> QED
  BY <1>1, <1>2, <1>3 DEF f, Path!Chunks

LEMMA NothingFound ==
  /\ <<>> \in Seq(Chunk) /\ Numbered(<<>>) /\ DOMAIN <<>> = {}
  /\ \A f \in Seq(Chunk) : <<>> \o f = f
<1>1. <<>> \in Seq(Chunk) /\ DOMAIN <<>> = {}
  OBVIOUS
<1>2. \A f \in Seq(Chunk) : <<>> \o f = f
  BY ConcatEmptySeq
<1> QED
  BY <1>1, <1>2 DEF Numbered

(* An agent that was just started. *)
LEMMA NewIsSound ==
  /\ Path!New \in Agents /\ Path!New.cites = {} /\ Path!New.at = "running"
  /\ Path!New.found = <<>> /\ Path!New.text = <<>>
  /\ \A i : Sound(i, Path!New)
<1>1. Path!New = [at |-> "running", turns |-> 0, text |-> <<>>, cites |-> {}, found |-> <<>>]
  BY DEF Path!New
<1>2. Path!New \in Agents
  BY <1>1, TextsAreSequences, NothingFound DEF Agents
<1> QED
  BY <1>1, <1>2, NothingFound DEF Sound

LEMMA PairHasTwo == \A a, b : a # b => Cardinality({a, b}) = 2
<1> SUFFICES ASSUME NEW a, NEW b, a # b PROVE Cardinality({a, b}) = 2
  OBVIOUS
<1>1. IsFiniteSet({a}) /\ Cardinality({a}) = 1
  BY FS_Singleton
<1>2. {a, b} = {a} \union {b} /\ b \notin {a}
  OBVIOUS
<1> QED
  BY <1>1, <1>2, FS_AddElement

(* With one search, each bare citation is resolved to the chunk it names.  *)
LEMMA ResolveNames ==
  ASSUME PathTypes, Findings,
         Path!Cardinality({<<c.agent, c.search>> : c \in Path!Range(found)}) <= 1
  PROVE  Path!Resolve = {c.chunk : c \in {c \in cites : c.bare}}
<1> DEFINE sources == {<<c.agent, c.search>> : c \in Path!Range(found)}
<1>1. /\ found \in Seq(Chunk) /\ DOMAIN found = 1..Len(found) /\ Len(found) \in Nat
      /\ cites \subseteq [chunk : Chunk, bare : BOOLEAN]
  BY DEF PathTypes
<1>2. \A k \in DOMAIN found : Source(found[k]) \in sources
  BY DEF Path!Range, Source
<1>3. Cardinality(sources) <= 1
  BY SameCardinality
<1>4. IsFiniteSet(sources)
  <2> DEFINE of == [k \in 1..Len(found) |-> Source(found[k])]
  <2>1. of \in Surjection(1..Len(found), sources)
    BY <1>1 DEF Path!Range, Source, Surjection
  <2> HIDE DEF of, sources
  <2>2. IsFiniteSet(1..Len(found))
    <3>1. Len(found) \in Int /\ 1 \in Int
      BY <1>1
    <3> QED
      BY <3>1, FS_Interval
  <2> QED
    BY <2>1, <2>2, FS_Surjection
<1> HIDE DEF sources
<1>5. \A a, b \in sources : a = b
  <2> SUFFICES ASSUME NEW a \in sources, NEW b \in sources, a # b PROVE FALSE
    OBVIOUS
  <2>1. {a, b} \subseteq sources /\ Cardinality({a, b}) = 2
    BY PairHasTwo
  <2> QED
    BY <1>3, <1>4, <2>1, FS_Subset, FS_CardinalityType
<1>6. \A k \in DOMAIN found : found[k].n = k
  BY <1>2, <1>5 DEF Findings, Numbered
<1>7. ASSUME NEW c \in cites PROVE c.chunk.n \in DOMAIN found /\ found[c.chunk.n] = c.chunk
  BY <1>6, <1>7 DEF Findings, InFound
<1>8. \A c \in cites : c.chunk.n <= Len(found)
  BY <1>1, <1>7
<1> QED
  BY <1>7, <1>8 DEF Path!Resolve

(* The invariant shows what the reader is promised. *)
LEMMA PathShows == PathInv => Path!PathTypeOK /\ Path!AnswerIsWhole /\ Path!OneNumbering
<1> SUFFICES ASSUME PathInv PROVE Path!PathTypeOK /\ Path!AnswerIsWhole /\ Path!OneNumbering
  OBVIOUS
<1> USE DEF PathInv
<1>1. Path!PathTypeOK
  BY PathNumbers DEF PathTypes, Places, Path!PathTypeOK, Path!Ends, Choosing, InParts,
     Answering, Saving, Broken
<1>2. Path!AnswerIsWhole
  <2>1. saved = (IF stage \in {"cite", "end"} THEN 1 ELSE 0)
    BY DEF Places
  <2>2. ASSUME saved = 1
        PROVE  /\ EndsWith(shown, text) /\ (way # "react" => shown = text)
               /\ buffer = <<>>
    BY <2>1, <2>2 DEF Places, Saving
  <2>3. ASSUME saved = 1
        PROVE  SubSeq(shown, Len(shown) - Len(text) + 1, Len(shown)) = text
    BY <2>2, <2>3, TextsAreSequences, EndIsLast DEF PathTypes
  <2> QED
    BY <2>1, <2>2, <2>3 DEF Path!AnswerIsWhole, EndsWith
<1>3. Path!OneNumbering
  BY ResolveNames DEF Places, Path!OneNumbering, Path!CitationsNameWhatWasCited
<1> QED
  BY <1>1, <1>2, <1>3

(* What the generator does up to its next yield. *)
LEMMA ChooseKeeps ==
  ASSUME PathInv, Path!Choose
  PROVE  PathInv'
<1>1. /\ stage \in Choosing /\ reader' \in {"waiting", "holding", "gone"}
      /\ UNCHANGED <<agents, buffer, part, shown, cites, found, pathCited, saved>>
  BY DEF Path!Choose, Path!Begin, Path!Load, Path!Look, Path!Understand, Path!At,
     Path!Yield, Path!taskVars, Choosing, Path!Enter, Path!Analyse, Path!ByRules
<1>2. \/ /\ stage' \in {"load", "failed", "look", "analyze"}
         /\ UNCHANGED <<way, text, wanted>>
      \/ /\ stage' = "show" /\ way' \in {"metadata", "clarify"}
         /\ text' \in Path!Texts /\ wanted' \in {0, wanted}
      \/ /\ stage' = "ask" /\ way' = "multi" /\ text' = <<>> /\ wanted' \in 1..MaxParts
      \/ /\ stage' = "retrieve" /\ way' = "single" /\ text' = <<>> /\ wanted' = 0
      \/ /\ stage' = "start_agent" /\ way' = "react" /\ text' = <<>> /\ wanted' = 0
  <2>1. ASSUME NEW ways, ways \subseteq {"clarify", "multi", "single", "react"},
               Path!Enter(ways)
        PROVE  \/ /\ stage' = "show" /\ way' \in {"metadata", "clarify"}
                  /\ text' \in Path!Texts /\ wanted' \in {0, wanted}
               \/ /\ stage' = "ask" /\ way' = "multi" /\ text' = <<>> /\ wanted' \in 1..MaxParts
               \/ /\ stage' = "retrieve" /\ way' = "single" /\ text' = <<>> /\ wanted' = 0
               \/ /\ stage' = "start_agent" /\ way' = "react" /\ text' = <<>> /\ wanted' = 0
    <3>1. PICK w \in ways :
            /\ way' = w
            /\ Path!Yield(CASE w = "clarify" -> "show" [] w = "multi" -> "ask"
                            [] w = "single" -> "retrieve" [] w = "react" -> "start_agent")
            /\ text' \in IF w = "clarify" THEN Path!Said ELSE {<<>>}
            /\ wanted' \in IF w = "multi" THEN 1..MaxParts ELSE {0}
      BY <2>1 DEF Path!Enter
    <3>2. w \in {"clarify", "multi", "single", "react"}
      BY <2>1, <3>1
    <3>3. CASE w = "clarify"
      BY <3>1, <3>3 DEF Path!Yield, Path!Said
    <3>4. CASE w = "multi"
      BY <3>1, <3>4 DEF Path!Yield
    <3>5. CASE w = "single"
      BY <3>1, <3>5 DEF Path!Yield
    <3>6. CASE w = "react"
      BY <3>1, <3>6 DEF Path!Yield
    <3> QED
      BY <3>2, <3>3, <3>4, <3>5, <3>6
  <2>2. CASE Path!Begin \/ Path!Load
    BY <2>1, <2>2 DEF Path!Begin, Path!Load, Path!ByRules, Path!Analyse, Path!Yield
  <2>3. CASE Path!Look \/ Path!Understand
    BY <2>1, <2>3
    DEF Path!Look, Path!Understand, Path!ByRules, Path!Analyse, Path!Yield, Path!Said
  <2> QED
    BY <2>2, <2>3 DEF Path!Choose
<1>3. /\ NoAnswer /\ Nobody /\ found = <<>> /\ cites = {} /\ part = 0
      /\ pathCited = None /\ saved = 0
  BY <1>1 DEF PathInv, Places, Choosing
<1>4. PathTypes'
  BY <1>1, <1>2, <1>3, TextsAreSequences, PathNumbers
  DEF PathInv, PathTypes, Choosing, InParts, Answering, Broken
<1>5. Places'
  <2>1. Len(<<>>) = 0 /\ \A t \in Path!Texts : Len(t) \in Nat
    BY TextsAreSequences
  <2> QED
    BY <1>1, <1>2, <1>3, <2>1, TextsAreSequences
    DEF Places, NoAnswer, Nobody, Choosing, InParts, Answering, Saving, Broken
<1>6. Findings'
  BY <1>1, <1>3, NothingFound DEF Findings
<1> QED
  BY <1>4, <1>5, <1>6 DEF PathInv

(* The parts of a question are answered one after the other, each by an    *)
(* agent.                                                                  *)
LEMMA SayKeeps ==
  ASSUME PathInv, Path!Say
  PROVE  PathInv'
<1> USE DEF PathInv
<1>1. /\ stage \in InParts
      /\ stage' = stage \/ (stage = "ask" /\ part < wanted /\ stage' = "spawn")
           \/ (stage = "ask" /\ stage' = "join")
      /\ reader' = "holding"
      /\ UNCHANGED <<way, agents, buffer, wanted, part, shown, text, cites, found,
                     pathCited, saved>>
  BY DEF Path!Say, Path!Ask, Path!Heartbeat, Path!At, Path!Yield, Path!taskVars,
     Path!answerVars, InParts
<1>2. PathTypes'
  BY <1>1 DEF PathTypes, InParts
<1>3. Places'
  BY <1>1 DEF Places, NoAnswer, Nobody, Choosing, InParts, Answering, Saving, Broken
<1>4. Findings'
  BY <1>1 DEF Findings, InParts
<1> QED
  BY <1>2, <1>3, <1>4

LEMMA SpawnKeeps ==
  ASSUME PathInv, Path!Spawn
  PROVE  PathInv'
<1> USE DEF PathInv
<1>1. UNCHANGED <<way, wanted, part, buffer, shown, text, cites, found, pathCited, saved, reader>>
  BY DEF Path!Spawn, Path!Go, Path!answerVars
<1>2. part \in Nat /\ wanted \in 0..MaxParts /\ part <= wanted /\ DOMAIN agents = Path!Tasks
  BY DEF PathTypes
<1>3. CASE stage = "spawn" /\ stage' = "wait" /\ agents' = [agents EXCEPT ![part + 1] = Path!New]
  <2>1. part + 1 \in Path!Tasks \ {0} /\ part < wanted
    BY <1>2, <1>3, PathNumbers DEF Places
  <2>2. PathTypes'
    <3>1. 0 \in Path!Tasks
      BY PathNumbers
    <3>2. /\ DOMAIN agents' = Path!Tasks /\ agents' = [i \in Path!Tasks |-> agents'[i]]
          /\ agents'[0] = agents[0]
          /\ \A i \in Path!Tasks \ {0} : agents'[i] = Path!New \/ agents'[i] = agents[i]
      BY <1>2, <1>3, <2>1, <3>1
    <3> QED
      BY <1>1, <1>3, <3>2, NewIsSound DEF PathTypes, InParts
  <2>3. Places'
    BY <1>1, <1>2, <1>3, <2>1, NewIsSound
    DEF Places, NoAnswer, Nobody, Choosing, InParts, Answering, Saving, Broken
  <2>4. Findings'
    BY <1>1, <1>3 DEF Findings, InParts
  <2> QED
    BY <2>2, <2>3, <2>4
<1>4. CASE stage = "join" /\ stage' = "joining" /\ agents' = [agents EXCEPT ![0] = Path!New]
  <2>1. 0 \in Path!Tasks
    BY PathNumbers
  <2>2. PathTypes'
    BY <1>1, <1>4, <2>1, NewIsSound DEF PathTypes, InParts
  <2>3. Places'
    BY <1>1, <1>2, <1>4, <2>1, NewIsSound
    DEF Places, NoAnswer, Nobody, Choosing, InParts, Answering, Saving, Broken
  <2>4. Findings'
    BY <1>1, <1>4 DEF Findings, InParts
  <2> QED
    BY <2>2, <2>3, <2>4
<1>5. CASE stage = "start_agent" /\ stage' = "stream" /\ agents' = [agents EXCEPT ![1] = Path!New]
  <2>1. 1 \in Path!Tasks \ {0} /\ 0 \in Path!Tasks
    BY PathNumbers
  <2>2. PathTypes'
    BY <1>1, <1>5, <2>1, NewIsSound DEF PathTypes
  <2>3. Places'
    BY <1>1, <1>2, <1>5, <2>1, NewIsSound
    DEF Places, NoAnswer, Nobody, Choosing, InParts, Answering, Saving, Broken
  <2>4. Findings'
    BY <1>1, <1>5 DEF Findings, InParts
  <2> QED
    BY <2>2, <2>3, <2>4
<1> QED
  BY <1>3, <1>4, <1>5 DEF Path!Spawn, Path!At, Path!Go

LEMMA CollectKeeps ==
  ASSUME PathInv, Path!Collect
  PROVE  PathInv'
<1> USE DEF PathInv
<1> DEFINE agent == agents[part + 1]
<1>1. /\ stage = "wait" /\ agents' = [agents EXCEPT ![part + 1] = None]
      /\ UNCHANGED <<way, buffer, wanted, shown, text, pathCited, saved, reader>>
      /\ \/ /\ stage' = "raised" /\ UNCHANGED <<part, cites, found>>
         \/ /\ stage' = "ask" /\ part' = part + 1
            /\ cites' = cites \union agent.cites /\ found' = found \o agent.found
  BY DEF Path!Collect, Path!At, Path!Go
<1>2. /\ part \in Nat /\ wanted \in 0..MaxParts /\ part < wanted /\ DOMAIN agents = Path!Tasks
      /\ Sound(part + 1, agent) /\ part + 1 \in Path!Tasks \ {0}
      /\ found \in Seq(Chunk) /\ cites \subseteq [chunk : Chunk, bare : BOOLEAN]
  BY <1>1, PathNumbers DEF PathTypes, Places
<1>3. /\ agent.found \in Seq(Chunk) /\ agent.cites \subseteq [chunk : Chunk, bare : BOOLEAN]
      /\ Numbered(agent.found) /\ \A c \in agent.cites : InFound(c.chunk, agent.found)
      /\ \A k \in DOMAIN agent.found : agent.found[k].agent = part + 1
  BY <1>2 DEF Sound, Agents
<1>4. /\ Numbered(found) /\ \A c \in cites : InFound(c.chunk, found)
      /\ \A k \in DOMAIN found : found[k].agent \in 1..part
  BY <1>1 DEF Findings, InParts
<1>5. \A i \in DOMAIN found, j \in DOMAIN agent.found : Source(found[i]) # Source(agent.found[j])
  BY <1>2, <1>3, <1>4 DEF Source
<1>6. /\ found \o agent.found \in Seq(Chunk) /\ Numbered(found \o agent.found)
      /\ \A c : InFound(c, found \o agent.found) <=> InFound(c, found) \/ InFound(c, agent.found)
      /\ \A k \in DOMAIN (found \o agent.found) :
           \/ \E i \in DOMAIN found : (found \o agent.found)[k] = found[i]
           \/ \E j \in DOMAIN agent.found : (found \o agent.found)[k] = agent.found[j]
  BY <1>2, <1>3, <1>4, <1>5, FoundMore
<1> HIDE DEF agent
<1>7. PathTypes'
  <2>1. /\ 0 \in Path!Tasks /\ part' \in Nat /\ part' <= wanted
        /\ cites' \subseteq [chunk : Chunk, bare : BOOLEAN] /\ found' \in Seq(Chunk)
    <3>1. 0 \in Path!Tasks
      BY PathNumbers
    <3>2. part' \in Nat /\ part' <= wanted
      BY <1>1, <1>2
    <3>3. cites' \subseteq [chunk : Chunk, bare : BOOLEAN]
      BY <1>1, <1>2, <1>3
    <3>4. found' \in Seq(Chunk)
      BY <1>1, <1>2, <1>6
    <3> QED
      BY <3>1, <3>2, <3>3, <3>4
  <2>2. /\ DOMAIN agents' = Path!Tasks /\ agents' = [i \in Path!Tasks |-> agents'[i]]
        /\ agents'[0] = agents[0]
        /\ \A i \in Path!Tasks \ {0} : agents'[i] = None \/ agents'[i] = agents[i]
    BY <1>1, <1>2, <2>1
  <2> QED
    BY <1>1, <2>1, <2>2 DEF PathTypes, InParts, Broken
<1>8. Places'
  BY <1>1, <1>2 DEF Places, NoAnswer, Nobody, Choosing, InParts, Answering, Saving, Broken
<1>9. Findings'
  <2>1. CASE stage' = "raised" /\ UNCHANGED <<part, cites, found>>
    BY <1>4, <2>1 DEF Findings, InParts
  <2>2. CASE /\ stage' = "ask" /\ part' = part + 1
             /\ cites' = cites \union agent.cites /\ found' = found \o agent.found
    <3>1. \A k \in DOMAIN found' : found'[k].agent \in 1..part'
      BY <1>2, <1>3, <1>4, <1>6, <2>2
    <3>2. \A c \in cites' : InFound(c.chunk, found')
      BY <1>3, <1>4, <1>6, <2>2
    <3> QED
      BY <1>6, <2>2, <3>1, <3>2 DEF Findings
  <2> QED
    BY <1>1, <2>1, <2>2
<1> QED
  BY <1>7, <1>8, <1>9

(* The answers of the parts become one, and it is shown. *)
LEMMA JoinKeeps ==
  ASSUME PathInv, Path!Join
  PROVE  PathInv'
<1> USE DEF PathInv
<1>1. /\ stage = "joining" /\ stage' = "show" /\ agents' = [agents EXCEPT ![0] = None]
      /\ text' = agents[0].text /\ cites' = agents[0].cites
      /\ UNCHANGED <<way, buffer, wanted, part, shown, found, pathCited, saved, reader>>
  BY DEF Path!Join, Path!At, Path!Go
<1>2. /\ agents[0] \in Agents /\ agents[0].cites \subseteq cites /\ way = "multi"
      /\ NoAnswer /\ 0 \in Path!Tasks
  BY <1>1, PathNumbers DEF Places, InParts
<1>3. text' \in Path!Texts /\ Len(text') \in Nat /\ Len(<<>>) = 0
  BY <1>1, <1>2, TextsAreSequences DEF Agents
<1>4. PathTypes'
  BY <1>1, <1>2, <1>3 DEF PathTypes
<1>5. Places'
  BY <1>1, <1>2, <1>3
  DEF Places, NoAnswer, Nobody, Choosing, InParts, Answering, Saving, Broken
<1>6. Findings'
  BY <1>1, <1>2 DEF Findings, InParts
<1> QED
  BY <1>4, <1>5, <1>6

LEMMA ShowKeeps ==
  ASSUME PathInv, Path!Show
  PROVE  PathInv'
<1> USE DEF PathInv
<1>1. /\ stage = "show" /\ reader' = "holding"
      /\ UNCHANGED <<way, agents, buffer, wanted, part, text, cites, found, pathCited, saved>>
  BY DEF Path!Show, Path!At, Path!Yield, Path!taskVars, Path!answerVars
<1>2. /\ way \in {"metadata", "clarify", "multi"} /\ Len(shown) <= Len(text)
      /\ \A i \in 1..Len(shown) : shown[i] = text[i]
      /\ buffer = <<>> /\ shown \in Seq(Nat) /\ text \in Seq(Nat)
      /\ Len(shown) \in Nat /\ Len(text) \in Nat
  BY <1>1, TextsAreSequences DEF Places, PathTypes
<1>3. CASE Len(shown) < Len(text)
  <2>1. shown' = Append(shown, text[Len(shown) + 1]) /\ stage' = "show"
    BY <1>3 DEF Path!Show, Path!Yield
  <2>2. text[Len(shown) + 1] \in Nat
    BY <1>2, <1>3
  <2>3. /\ shown' \in Seq(Nat) /\ Len(shown') = Len(shown) + 1
        /\ \A i \in 1..Len(shown') : shown'[i] = text[i]
    BY <1>2, <2>1, <2>2
  <2>4. PathTypes'
    BY <1>1, <2>1, <2>3 DEF PathTypes
  <2>5. Places'
    BY <1>1, <1>2, <1>3, <2>1, <2>3
    DEF Places, NoAnswer, Nobody, Choosing, InParts, Answering, Saving, Broken
  <2>6. Findings'
    BY <1>1, <2>1 DEF Findings, InParts
  <2> QED
    BY <2>4, <2>5, <2>6
<1>4. CASE ~(Len(shown) < Len(text))
  <2>1. shown' = shown /\ stage' = "persist"
    BY <1>4 DEF Path!Show, Path!Yield
  <2>2. shown = text
    BY <1>2, <1>4, SeqEqual
  <2>3. EndsWith(shown, text)
    BY <1>2, <2>2 DEF EndsWith
  <2>4. PathTypes'
    BY <1>1, <2>1 DEF PathTypes, Saving
  <2>5. Places'
    BY <1>1, <1>2, <2>1, <2>2, <2>3
    DEF Places, NoAnswer, Nobody, Choosing, InParts, Answering, Saving, Broken
  <2>6. Findings'
    BY <1>1, <2>1 DEF Findings, InParts
  <2> QED
    BY <2>4, <2>5, <2>6
<1> QED
  BY <1>3, <1>4

(* An answer by one model. *)
LEMMA AnswerKeeps ==
  ASSUME PathInv, Path!Retrieve \/ Path!Generate
  PROVE  PathInv'
<1> USE DEF PathInv
<1>1. /\ stage \in Answering /\ way = "single" /\ shown = text /\ cites = {}
      /\ buffer = <<>> /\ text \in Path!Texts /\ found \in Seq(Chunk)
      /\ reader' \in {reader, "holding"}
      /\ UNCHANGED <<way, agents, buffer, wanted, part, pathCited, saved>>
  BY DEF Path!Retrieve, Path!Generate, Path!At, Path!Go, Path!Yield, Path!taskVars,
     Answering, Places, PathTypes
<1>2. CASE Path!Retrieve
  <2>1. /\ stage = "retrieve" /\ text = <<>> /\ UNCHANGED <<shown, text, cites>>
        /\ \/ \E n \in Hits : found' = Path!Chunks(0, 1, n) /\ stage' = "generate"
           \/ stage' = "raised" /\ UNCHANGED found
    BY <1>2 DEF Path!Retrieve, Path!At, Path!Go, Path!Yield, Places
  <2>2. found' \in Seq(Chunk) /\ Numbered(found')
    <3>1. \A n \in Hits : /\ Path!Chunks(0, 1, n) \in Seq(Chunk)
                          /\ Numbered(Path!Chunks(0, 1, n))
      BY PathNumbers, ChunksAreNumbered
    <3> QED
      BY <1>1, <2>1, <3>1 DEF Findings
  <2>3. PathTypes'
    BY <1>1, <2>1, <2>2 DEF PathTypes, Answering, Broken
  <2>4. Places'
    BY <1>1, <2>1
    DEF Places, NoAnswer, Nobody, Choosing, InParts, Answering, Saving, Broken
  <2>5. Findings'
    BY <1>1, <2>1, <2>2 DEF Findings, InParts
  <2> QED
    BY <2>3, <2>4, <2>5
<1>3. CASE Path!Generate
  <2>1. stage = "generate" /\ UNCHANGED found
    BY <1>3 DEF Path!Generate, Path!At
  <2>2. CASE /\ Len(text) < MaxPieces /\ stage' = "generate"
             /\ text' = Append(text, Len(text) + 1) /\ shown' = text' /\ UNCHANGED cites
    <3>1. text' \in Path!Texts /\ shown' \in Seq(Nat)
      BY <1>1, <2>2, TextsAreSequences
    <3>2. PathTypes'
      BY <1>1, <2>1, <2>2, <3>1 DEF PathTypes
    <3>3. Places'
      BY <1>1, <2>1, <2>2
      DEF Places, NoAnswer, Nobody, Choosing, InParts, Answering, Saving, Broken
    <3>4. Findings'
      BY <1>1, <2>1, <2>2 DEF Findings, InParts
    <3> QED
      BY <3>2, <3>3, <3>4
  <2>3. CASE /\ stage' = "persist" /\ UNCHANGED <<text, shown>>
             /\ cites' \in IF text = <<>> THEN {{}}
                           ELSE Path!Few([chunk : Path!Range(found), bare : BOOLEAN])
    <3>1. cites' \subseteq [chunk : Path!Range(found), bare : BOOLEAN]
      BY <2>3 DEF Path!Few
    <3>2. \A c \in cites' : c.chunk \in Path!Range(found) /\ c \in [chunk : Chunk, bare : BOOLEAN]
      BY <1>1, <3>1 DEF Path!Range
    <3>3. \A c \in cites' : InFound(c.chunk, found)
      BY <3>2 DEF Path!Range, InFound
    <3>4. EndsWith(text, text)
      BY <1>1, TextsAreSequences DEF EndsWith
    <3>5. PathTypes'
      BY <1>1, <2>1, <2>3, <3>2 DEF PathTypes, Saving
    <3>6. Places'
      BY <1>1, <2>1, <2>3, <3>4
      DEF Places, NoAnswer, Nobody, Choosing, InParts, Answering, Saving, Broken
    <3>7. Findings'
      BY <1>1, <2>1, <2>3, <3>3 DEF Findings, InParts
    <3> QED
      BY <3>5, <3>6, <3>7
  <2>4. CASE stage' = "failed" /\ UNCHANGED <<text, shown, cites>>
    <3>1. PathTypes'
      BY <1>1, <2>1, <2>4 DEF PathTypes, Broken
    <3>2. Places'
      BY <1>1, <2>1, <2>4
      DEF Places, NoAnswer, Nobody, Choosing, InParts, Answering, Saving, Broken
    <3>3. Findings'
      BY <1>1, <2>1, <2>4 DEF Findings, InParts
    <3> QED
      BY <3>1, <3>2, <3>3
  <2> QED
    BY <1>3, <2>2, <2>3, <2>4 DEF Path!Generate, Path!Go, Path!Yield
<1> QED
  BY <1>2, <1>3

(* An answer by one agent, whose words are shown as they come. *)
LEMMA StreamKeeps ==
  ASSUME PathInv, Path!Push \/ Path!Finish
  PROVE  PathInv'
<1> USE DEF PathInv
<1>1. /\ stage = "stream" /\ way = "react" /\ Sound(1, agents[1])
      /\ \A i \in Path!Tasks \ {1} : agents[i] = None
      /\ agents[1].at = "answered" => EndsWith(shown \o buffer, agents[1].text)
      /\ found = <<>> /\ cites = {} /\ shown \in Seq(Nat) /\ buffer \in Seq(Nat)
      /\ 1 \in Path!Tasks /\ 0 \in Path!Tasks /\ DOMAIN agents = Path!Tasks
      /\ reader' \in {reader, "holding"}
      /\ UNCHANGED <<way, wanted, part, pathCited, saved>>
  <2>1. /\ stage = "stream" /\ reader' \in {reader, "holding"}
        /\ UNCHANGED <<way, wanted, part, pathCited, saved>>
    BY DEF Path!Push, Path!Finish, Path!At, Path!Go, Path!Yield, Path!answerVars
  <2>2. 1 \in Path!Tasks /\ 0 \in Path!Tasks
    BY PathNumbers
  <2> QED
    BY <2>1, <2>2 DEF Places, PathTypes
<1>2. CASE Path!Push
  <2>1. /\ buffer # <<>> /\ shown' = Append(shown, Head(buffer)) /\ buffer' = Tail(buffer)
        /\ UNCHANGED <<stage, agents, text, cites, found>>
    BY <1>1, <1>2 DEF Path!Push, Path!Yield, Path!answerVars
  <2>2. shown' \in Seq(Nat) /\ buffer' \in Seq(Nat) /\ shown' \o buffer' = shown \o buffer
    BY <1>1, <2>1, PushKeepsStream
  <2>3. PathTypes'
    BY <1>1, <2>1, <2>2 DEF PathTypes
  <2>4. Places'
    BY <1>1, <2>1, <2>2
    DEF Places, NoAnswer, Nobody, Choosing, InParts, Answering, Saving, Broken
  <2>5. Findings'
    BY <1>1, <2>1 DEF Findings, InParts
  <2> QED
    BY <2>3, <2>4, <2>5
<1>3. CASE Path!Finish
  <2>1. /\ buffer = <<>> /\ ~Path!Task(1) /\ agents' = [agents EXCEPT ![1] = None]
        /\ UNCHANGED <<buffer, shown>>
    BY <1>3 DEF Path!Finish
  <2>2. \A i \in Path!Tasks : agents'[i] = None
    BY <1>1, <2>1
  <2>3. DOMAIN agents' = Path!Tasks /\ agents' = [i \in Path!Tasks |-> agents'[i]]
    BY <1>1, <2>1
  <2>4. CASE stage' \in Broken /\ UNCHANGED <<text, cites, found>>
    <3>1. PathTypes'
      BY <1>1, <2>1, <2>2, <2>3, <2>4 DEF PathTypes, Broken
    <3>2. Places'
      BY <1>1, <2>1, <2>4
      DEF Places, NoAnswer, Nobody, Choosing, InParts, Answering, Saving, Broken
    <3>3. Findings'
      BY <1>1, <2>4 DEF Findings, InParts, Broken
    <3> QED
      BY <3>1, <3>2, <3>3
  <2>5. CASE /\ agents[1].at \notin {"raised", "empty"} /\ stage' = "persist"
             /\ text' = agents[1].text /\ cites' = agents[1].cites
             /\ found' = agents[1].found
    <3>1. /\ agents[1] \in Agents /\ Numbered(found')
          /\ \A c \in cites' : InFound(c.chunk, found')
      BY <1>1, <2>5 DEF Sound
    <3>2. /\ text' \in Path!Texts /\ cites' \subseteq [chunk : Chunk, bare : BOOLEAN]
          /\ found' \in Seq(Chunk)
      BY <2>5, <3>1 DEF Agents
    <3>3. EndsWith(shown', text')
      <4>1. CASE agents[1].at = "answered"
        <5>1. shown \o buffer = shown
          BY <1>1, <2>1, ConcatEmptySeq
        <5> QED
          BY <1>1, <2>1, <2>5, <4>1, <5>1
      <4>2. CASE agents[1].at # "answered"
        <5>1. text' = <<>> /\ shown' \in Seq(Nat)
          BY <1>1, <2>1, <2>5, <4>2 DEF Sound
        <5> QED
          BY <5>1 DEF EndsWith
      <4> QED
        BY <4>1, <4>2
    <3>4. PathTypes'
      BY <1>1, <2>1, <2>2, <2>3, <2>5, <3>2 DEF PathTypes, Saving
    <3>5. Places'
      BY <1>1, <2>1, <2>2, <2>5, <3>3
      DEF Places, NoAnswer, Nobody, Choosing, InParts, Answering, Saving, Broken
    <3>6. Findings'
      BY <2>5, <3>1 DEF Findings, InParts
    <3> QED
      BY <3>4, <3>5, <3>6
  <2> QED
    BY <1>3, <2>4, <2>5 DEF Path!Finish, Path!Go, Path!Yield, Path!answerVars, Broken
<1> QED
  BY <1>2, <1>3

(* The answer is saved with its citations, and the reader is told. *)
LEMMA PersistKeeps ==
  ASSUME PathInv, Path!Persist \/ Path!Done \/ Path!Read
  PROVE  PathInv'
<1> USE DEF PathInv
<1>1. /\ reader' \in {"waiting", "holding", "gone"}
      /\ UNCHANGED <<way, agents, buffer, wanted, part, shown, text, cites, found>>
      /\ \/ /\ stage = "persist" /\ stage' = "cite" /\ saved' = saved + 1
            /\ pathCited' = Path!Resolve
         \/ stage = "persist" /\ stage' = "raised" /\ UNCHANGED <<saved, pathCited>>
         \/ stage = "cite" /\ stage' = "end" /\ UNCHANGED <<saved, pathCited>>
         \/ UNCHANGED <<stage, saved, pathCited>>
  BY DEF Path!Persist, Path!Done, Path!Read, Path!At, Path!Go, Path!Yield,
     Path!taskVars, Path!answerVars, PathTypes
<1>2. Path!Resolve' = Path!Resolve
  BY <1>1 DEF Path!Resolve
<1>3. PathTypes'
  BY <1>1 DEF PathTypes, Saving, Broken
<1>4. Places'
  BY <1>1, <1>2
  DEF Places, NoAnswer, Nobody, Choosing, InParts, Answering, Saving, Broken
<1>5. Findings'
  BY <1>1 DEF Findings, InParts
<1> QED
  BY <1>3, <1>4, <1>5

(* The searches of an agent are counted. *)
LEMMA SearchesAreNumbers ==
  ASSUME NEW f \in Seq(Chunk)
  PROVE  \A j \in DOMAIN f : f[j].search \in Nat
<1>1. \A j \in DOMAIN f : f[j] \in Chunk
  OBVIOUS
<1> QED
  BY <1>1 DEF Chunk

(* The tasks *)
LEMMA WorkKeeps ==
  ASSUME PathInv, NEW i \in Path!Tasks, Path!Work(i)
  PROVE  PathInv'
<1> USE DEF PathInv
<1>1. /\ UNCHANGED <<stage, reader, way, wanted, part, shown, text, cites, found,
                     pathCited, saved>>
      /\ Path!Task(i) /\ DOMAIN agents = Path!Tasks
      /\ Path!Task(i) => agents[i] # None /\ agents[i].at = "running"
  BY DEF Path!Work, Path!controlVars, Path!answerVars, Path!Search, Path!Conclude,
     Path!GiveUp, Path!Synthesize, PathTypes, Path!Task
<1>2. Path!Resolve' = Path!Resolve
  BY <1>1 DEF Path!Resolve
<1>3. ASSUME i # 0, NEW a, Sound(i, a), agents' = [agents EXCEPT ![i] = a],
             NEW tokens \in Seq(Nat), Path!Stream(tokens),
             a.at = "answered" => a.text = tokens
      PROVE  PathInv'
  <2>1. buffer \in Seq(Nat) /\ shown \in Seq(Nat) /\ agents[i] # None
    BY <1>1 DEF PathTypes
  <2>2. buffer' \in Seq(Nat) /\ (way # "react" => buffer' = buffer)
    BY <1>1, <1>3, <2>1 DEF Path!Stream
  <2>3. /\ DOMAIN agents' = Path!Tasks /\ agents' = [j \in Path!Tasks |-> agents'[j]]
        /\ agents'[i] = a /\ \A j \in Path!Tasks \ {i} : agents'[j] = agents[j]
    BY <1>1, <1>3
  <2>4. PathTypes'
    <3>1. 0 \in Path!Tasks
      BY PathNumbers
    <3> QED
      BY <1>1, <1>3, <2>2, <2>3, <3>1 DEF PathTypes
  <2>5. ~Nobody
    BY <2>1 DEF Nobody
  <2>6. stage = "stream" =>
          /\ i = 1
          /\ a.at = "answered" => EndsWith(shown \o buffer', a.text)
    <3> SUFFICES ASSUME stage = "stream"
                 PROVE  i = 1 /\ (a.at = "answered" => EndsWith(shown \o buffer', a.text))
      OBVIOUS
    <3>1. i = 1 /\ way = "react"
      BY <2>1 DEF Places
    <3>2. buffer' = buffer \o tokens
      BY <1>3, <3>1 DEF Path!Stream
    <3>3. shown \o buffer' = (shown \o buffer) \o tokens /\ shown \o buffer \in Seq(Nat)
      <4>1. tokens \in Seq(Nat) /\ shown \o buffer \in Seq(Nat)
        BY <1>3, <2>1
      <4>2. (shown \o buffer) \o tokens = shown \o (buffer \o tokens)
        BY <2>1, <4>1, ConcatAssociative
      <4> QED
        BY <3>2, <4>1, <4>2
    <3>4. EndsWith(shown \o buffer', tokens)
      BY <1>3, <3>3, EndOfMore
    <3> QED
      BY <1>3, <3>1, <3>4
  <2>7. Places'
    <3>1. agents'[0] = agents[0] /\ 0 \in Path!Tasks
      BY <1>3, <2>3, PathNumbers
    <3>2. stage = "wait" => Sound(part + 1, agents'[part + 1])
      <4> SUFFICES ASSUME stage = "wait" PROVE Sound(part + 1, agents'[part + 1])
        OBVIOUS
      <4>1. part + 1 \in Path!Tasks /\ Sound(part + 1, agents[part + 1])
        BY PathNumbers DEF Places, PathTypes
      <4> QED
        BY <1>3, <2>3, <4>1
    <3>3. stage \notin Choosing \union {"start_agent"} /\ stage # "stream" => way # "react" \/ stage \in Broken
      BY <2>5 DEF Places, PathTypes, InParts, Answering, Saving
    <3>4. stage \notin Choosing \union {"start_agent"}
      BY <2>5 DEF Places
    <3>5. stage \notin {"stream"} \union Broken => buffer' = buffer
      BY <2>2, <3>3, <3>4
    <3>6. stage = "stream" => Sound(1, agents'[1]) /\ \A j \in Path!Tasks \ {1} : agents'[j] = None
      BY <1>3, <2>3, <2>6 DEF Places
    <3>7. stage = "stream" /\ agents'[1].at = "answered" => EndsWith(shown \o buffer', agents'[1].text)
      BY <2>3, <2>6
    <3>8. stage \in Saving => way # "react"
      BY <2>5 DEF Places
    <3> QED
      BY <1>1, <1>2, <3>1, <3>2, <3>4, <3>5, <3>6, <3>7, <3>8
      DEF Places, NoAnswer, Choosing, InParts, Answering, Saving, Broken
  <2>8. Findings'
    BY <1>1 DEF Findings, InParts
  <2> QED
    BY <2>4, <2>7, <2>8
<1>4. ASSUME i # 0
      PROVE  /\ agents[i] \in Agents /\ Numbered(agents[i].found) /\ agents[i].text = <<>>
             /\ \A c \in agents[i].cites : InFound(c.chunk, agents[i].found)
             /\ \A k \in DOMAIN agents[i].found :
                  agents[i].found[k].agent = i /\ agents[i].found[k].search <= agents[i].turns
  BY <1>1, <1>4 DEF PathTypes, Sound
<1>5. \A aside \in {<<>>, <<0>>} : aside \in Seq(Nat)
  <2>1. <<>> \in Seq(Nat) /\ <<0>> \in Seq(Nat)
    OBVIOUS
  <2> QED
    BY <2>1
<1>6. CASE Path!Search(i)
  <2> DEFINE turn == agents[i].turns + 1
  <2>1. /\ i # 0
        /\ \E n \in Hits : agents' = [agents EXCEPT ![i].turns = @ + 1,
                              ![i].found = @ \o Path!Chunks(i, agents[i].turns + 1, n)]
        /\ \E aside \in {<<>>, <<0>>} : Path!Stream(aside)
    BY <1>6 DEF Path!Search
  <2>2. PICK n \in Hits : agents' = [agents EXCEPT ![i].turns = @ + 1,
                              ![i].found = @ \o Path!Chunks(i, turn, n)]
    BY <2>1
  <2>3. PICK aside \in {<<>>, <<0>>} : Path!Stream(aside)
    BY <2>1
  <2> DEFINE more == Path!Chunks(i, turn, n)
             a == [agents[i] EXCEPT !.turns = turn, !.found = @ \o more]
  <2>4. agents' = [agents EXCEPT ![i] = a]
    BY <1>1, <2>2
  <2>5. turn \in Nat /\ i \in Nat /\ n \in Nat /\ agents[i].found \in Seq(Chunk)
    BY <1>4, <2>1, PathNumbers DEF Agents
  <2>6. /\ more \in Seq(Chunk) /\ Numbered(more)
        /\ \A k \in DOMAIN more : more[k].agent = i /\ more[k].search = turn
    BY <2>5, ChunksAreNumbered
  <2> HIDE DEF more
  <2>7. \A j \in DOMAIN agents[i].found, k \in DOMAIN more :
          Source(agents[i].found[j]) # Source(more[k])
    <3>1. \A j \in DOMAIN agents[i].found : agents[i].found[j].search <= agents[i].turns
      BY <1>4, <2>1
    <3>2. \A j \in DOMAIN agents[i].found : agents[i].found[j].search \in Nat
      BY <2>5, SearchesAreNumbers
    <3>3. agents[i].turns \in Nat
      BY <1>4, <2>1 DEF Agents
    <3> QED
      BY <2>6, <3>1, <3>2, <3>3 DEF Source
  <2>8. /\ agents[i].found \o more \in Seq(Chunk) /\ Numbered(agents[i].found \o more)
        /\ \A c : InFound(c, agents[i].found \o more)
                    <=> InFound(c, agents[i].found) \/ InFound(c, more)
        /\ \A k \in DOMAIN (agents[i].found \o more) :
             \/ \E j \in DOMAIN agents[i].found : (agents[i].found \o more)[k] = agents[i].found[j]
             \/ \E j \in DOMAIN more : (agents[i].found \o more)[k] = more[j]
    BY <1>4, <2>1, <2>5, <2>6, <2>7, FoundMore
  <2>9. /\ a \in Agents /\ a.at = agents[i].at /\ a.text = <<>> /\ a.cites = agents[i].cites
        /\ a.turns = turn /\ a.found = agents[i].found \o more
    BY <1>4, <2>1, <2>5, <2>8 DEF Agents
  <2> HIDE DEF a
  <2>10. \A k \in DOMAIN a.found : a.found[k].agent = i /\ a.found[k].search <= a.turns
    <3>1. \A j \in DOMAIN agents[i].found :
            agents[i].found[j].agent = i /\ agents[i].found[j].search <= turn
      <4>1. \A j \in DOMAIN agents[i].found : agents[i].found[j].search \in Nat
        BY <2>5, SearchesAreNumbers
      <4>2. agents[i].turns \in Nat
        BY <1>4, <2>1 DEF Agents
      <4> QED
        BY <1>4, <2>1, <4>1, <4>2
    <3> HIDE DEF turn
    <3> QED
      BY <2>5, <2>6, <2>8, <2>9, <3>1
  <2>11. Sound(i, a)
    BY <1>4, <2>1, <2>8, <2>9, <2>10 DEF Sound
  <2> QED
    BY <1>1, <1>3, <1>5, <2>1, <2>3, <2>4, <2>9, <2>11
<1>7. CASE Path!Conclude(i)
  <2>1. /\ i # 0
        /\ \E spoken \in Path!Said,
              cs \in Path!Few([chunk : Path!Range(agents[i].found), bare : {TRUE}]) :
             /\ agents' = [agents EXCEPT ![i].at = "answered", ![i].text = spoken,
                                         ![i].cites = cs]
             /\ Path!Stream(spoken)
    BY <1>7 DEF Path!Conclude
  <2>2. PICK spoken \in Path!Said,
             cs \in Path!Few([chunk : Path!Range(agents[i].found), bare : {TRUE}]) :
             /\ agents' = [agents EXCEPT ![i].at = "answered", ![i].text = spoken,
                                         ![i].cites = cs]
             /\ Path!Stream(spoken)
    BY <2>1
  <2> DEFINE a == [agents[i] EXCEPT !.at = "answered", !.text = spoken, !.cites = cs]
  <2>3. agents' = [agents EXCEPT ![i] = a]
    BY <1>1, <2>2
  <2>4. spoken \in Path!Texts /\ spoken \in Seq(Nat)
    BY TextsAreSequences DEF Path!Said
  <2>5. cs \subseteq [chunk : Path!Range(agents[i].found), bare : {TRUE}]
    BY DEF Path!Few
  <2>6. /\ \A c \in cs : InFound(c.chunk, agents[i].found)
        /\ cs \subseteq [chunk : Chunk, bare : BOOLEAN]
    <3>1. agents[i].found \in Seq(Chunk)
      BY <1>4, <2>1 DEF Agents
    <3>2. \A x \in Path!Range(agents[i].found) : x \in Chunk /\ InFound(x, agents[i].found)
      BY <3>1 DEF Path!Range, InFound
    <3> QED
      BY <2>5, <3>2
  <2>7. /\ a \in Agents /\ a.at = "answered" /\ a.text = spoken /\ a.cites = cs
        /\ a.turns = agents[i].turns /\ a.found = agents[i].found
    BY <1>4, <2>1, <2>4, <2>6 DEF Agents
  <2> HIDE DEF a
  <2>8. Sound(i, a)
    BY <1>4, <2>1, <2>6, <2>7 DEF Sound
  <2> QED
    BY <1>3, <2>1, <2>2, <2>3, <2>4, <2>7, <2>8
<1>8. CASE Path!GiveUp(i)
  <2>1. /\ i # 0
        /\ \E end \in {"empty", "raised"} : agents' = [agents EXCEPT ![i].at = end]
        /\ \E aside \in {<<>>, <<0>>} : Path!Stream(aside)
    BY <1>8 DEF Path!GiveUp
  <2>2. PICK end \in {"empty", "raised"} : agents' = [agents EXCEPT ![i].at = end]
    BY <2>1
  <2>3. PICK aside \in {<<>>, <<0>>} : Path!Stream(aside)
    BY <2>1
  <2> DEFINE a == [agents[i] EXCEPT !.at = end]
  <2>4. agents' = [agents EXCEPT ![i] = a]
    BY <1>1, <2>2
  <2>5. /\ a \in Agents /\ a.at = end /\ a.text = <<>> /\ a.cites = agents[i].cites
        /\ a.turns = agents[i].turns /\ a.found = agents[i].found
    BY <1>4, <2>1 DEF Agents
  <2> HIDE DEF a
  <2>6. Sound(i, a)
    BY <1>4, <2>1, <2>5 DEF Sound
  <2> QED
    BY <1>3, <1>5, <2>1, <2>3, <2>4, <2>5, <2>6
<1>9. CASE i = 0 /\ Path!Synthesize
  <2>1. PICK spoken \in Path!Texts, cs \in SUBSET cites :
          agents' = [agents EXCEPT ![0].at = "answered", ![0].text = spoken, ![0].cites = cs]
    BY <1>9 DEF Path!Synthesize
  <2>2. buffer' = buffer /\ 0 \in Path!Tasks
    BY <1>9, PathNumbers DEF Path!Synthesize
  <2> DEFINE a == [agents[0] EXCEPT !.at = "answered", !.text = spoken, !.cites = cs]
  <2>3. agents' = [agents EXCEPT ![0] = a]
    BY <1>1, <2>1
  <2>4. agents[0] \in Agents /\ agents[0] # None /\ cites \subseteq [chunk : Chunk, bare : BOOLEAN]
    BY <1>1, <1>9 DEF PathTypes
  <2>5. a \in Agents /\ a.cites \subseteq cites
    BY <2>4 DEF Agents
  <2> HIDE DEF a
  <2>6. /\ DOMAIN agents' = Path!Tasks /\ agents' = [j \in Path!Tasks |-> agents'[j]]
        /\ agents'[0] = a /\ \A j \in Path!Tasks \ {0} : agents'[j] = agents[j]
    BY <1>1, <2>2, <2>3
  <2>7. PathTypes'
    BY <1>1, <2>2, <2>5, <2>6 DEF PathTypes
  <2>8. Places'
    <3>1. ~Nobody
      BY <2>2, <2>4 DEF Nobody
    <3>2. stage # "stream"
      BY <2>2, <2>4 DEF Places
    <3>3. stage = "wait" => Sound(part + 1, agents'[part + 1])
      <4> SUFFICES ASSUME stage = "wait" PROVE Sound(part + 1, agents'[part + 1])
        OBVIOUS
      <4>1. part + 1 \in Path!Tasks \ {0} /\ Sound(part + 1, agents[part + 1])
        BY PathNumbers DEF Places, PathTypes
      <4> QED
        BY <2>6, <4>1
    <3>4. stage \in Saving => way # "react"
      BY <3>1 DEF Places
    <3> QED
      BY <1>1, <1>2, <2>2, <2>5, <2>6, <3>1, <3>2, <3>3, <3>4
      DEF Places, NoAnswer, Choosing, InParts, Answering, Saving, Broken
  <2>9. Findings'
    BY <1>1 DEF Findings, InParts
  <2> QED
    BY <2>7, <2>8, <2>9
<1> QED
  BY <1>6, <1>7, <1>8, <1>9 DEF Path!Work

(* Every step of an answer keeps PathInv. *)
LEMMA PathInvStep ==
  ASSUME PathInv, [Path!PathNext]_pathVars
  PROVE  PathInv'
<1>1. CASE UNCHANGED pathVars
  <2>1. Path!Resolve' = Path!Resolve
    BY <1>1 DEF pathVars, Path!Resolve
  <2>2. PathTypes'
    BY <1>1 DEF pathVars, PathInv, PathTypes
  <2>3. Places'
    BY <1>1, <2>1 DEF pathVars, PathInv, Places, NoAnswer, Nobody
  <2>4. Findings'
    BY <1>1 DEF pathVars, PathInv, Findings
  <2> QED
    BY <2>2, <2>3, <2>4 DEF PathInv
<1>2. CASE Path!Proceed
  BY <1>2, ChooseKeeps, SayKeeps, SpawnKeeps, CollectKeeps, JoinKeeps, ShowKeeps,
     AnswerKeeps, StreamKeeps, PersistKeeps DEF Path!Proceed
<1> QED
  BY <1>1, <1>2, PersistKeeps, WorkKeeps DEF Path!PathNext

LEMMA PathInvInit ==
  ASSUME Path!PathInit
  PROVE  PathInv
<1> USE DEF Path!PathInit
<1>1. 0 \in Path!Tasks /\ agents = [i \in Path!Tasks |-> None]
  BY PathNumbers
<1>2. PathTypes
  BY <1>1, PathNumbers, TextsAreSequences, NothingFound DEF PathTypes, Choosing
<1>3. Places
  BY <1>1
  DEF Places, NoAnswer, Nobody, Choosing, InParts, Answering, Saving, Broken
<1>4. Findings
  BY NothingFound DEF Findings
<1> QED
  BY <1>2, <1>3, <1>4 DEF PathInv

-----------------------------------------------------------------------------
(* The conversation of the agent, the streams of the questions and the     *)
(* answers of the paths.                                                   *)
LEMMA TalksInvariant == Spec => [](TalkInv /\ QaInv /\ QaBounds /\ PathInv)
<1>1. Init => TalkInv /\ QaInv /\ QaBounds /\ PathInv
  BY TalkInit, QaInvInit, QaBoundsInit, PathInvInit DEF Init
<1>2. TalkInv /\ QaInv /\ QaBounds /\ PathInv /\ [Next]_vars
        => (TalkInv /\ QaInv /\ QaBounds /\ PathInv)'
  <2> SUFFICES ASSUME TalkInv, QaInv, QaBounds, PathInv, [Next]_vars
               PROVE  TalkInv' /\ QaInv' /\ QaBounds' /\ PathInv'
    OBVIOUS
  <2> QED
    BY StepOfEach, TalkStep, QaInvStep, QaBoundsStep, PathInvStep
<1> QED
  BY <1>1, <1>2, PTL DEF Spec

(* The talk of an agent has an answer to every call of a tool, also after a *)
(* checkpoint; a stream ends once, after all it was to say and with what   *)
(* was saved; and what one search found is cited by its numbers: whatever  *)
(* fails, dies, is stopped or is deleted meanwhile.                        *)
THEOREM ConversationsAreWhole == Spec => []ConversationIsWhole
<1>1. CallsInv /\ TracesInv /\ TalkInv /\ QaInv /\ QaBounds /\ PathInv => ConversationIsWhole
  BY TalkShows, StreamsShow, PathShows DEF ConversationIsWhole
<1> QED
  BY <1>1, CallsInvariant, TalksInvariant, PTL

(* Every variable of the seven services stays in its type: retries, deaths *)
(* and cancelled steps stay within their bounds, and no more rows of an    *)
(* answer are counted than questions were asked.                           *)
THEOREM ServicesAreTyped == Spec => []TypeOK
<1>1. CallsInv /\ TracesInv /\ ProfileInv /\ ImportInv /\ Eval!EvalTypeOK
        /\ TalkInv /\ QaInv /\ QaBounds /\ PathInv => TypeOK
  <2> SUFFICES ASSUME CallsInv, TracesInv, ProfileInv, ImportInv, Eval!EvalTypeOK,
                      TalkInv, QaInv, QaBounds, PathInv
               PROVE  TypeOK
    OBVIOUS
  <2>1. Agent!AgentTypeOK /\ Tool!ToolTypeOK
    BY TalkShows, TracesShow
  <2>2. Qa!QaTypeOK /\ Path!PathTypeOK
    BY QaShowsTypes, PathShows
  <2>3. Card!CardTypeOK /\ Prefs!PrefsTypeOK
    BY DEF ProfileInv, ImportInv
  <2> QED
    BY <2>1, <2>2, <2>3 DEF TypeOK
<1> QED
  BY <1>1, CallsInvariant, ProfileInvariant, ImportInvariant, EvaluationsAreTyped,
     TalksInvariant, PTL
=============================================================================
