---------------------------- MODULE ToolRuntime ----------------------------
(***************************************************************************)
(* Tools called through a skill: SkillRuntime.execute and what it enters,  *)
(* ToolRuntime.execute.  Calls of one execution come one after the other;  *)
(* between two commits of a call the user may cancel and the process die.  *)
(***************************************************************************)
EXTENDS Naturals, Sequences, FiniteSets

CONSTANTS
  Tools,       \* registered tools
  Effect,      \* [Tools -> {"read", "write", "network", "destructive"}]
  Confirmable, \* tools that want a confirmation
  Allowed,     \* the skill's allowed_tools
  Permissions, \* what the skill declares, a subset of {"network", "destructive"}
  MaxToolCalls, MaxToolDeaths

ToolAssumption ==
  /\ Effect \in [Tools -> {"read", "write", "network", "destructive"}]
  /\ Confirmable \subseteq Tools
  /\ Permissions \subseteq {"network", "destructive"}
  /\ MaxToolCalls \in Nat /\ MaxToolDeaths \in Nat

VARIABLES
  toolCount,  \* execution.tool_call_count
  traces,     \* status of each ToolCall row
  call,       \* the call in hand: none, or what it is about
  cancel,     \* the control key says cancel
  effects,    \* tools whose handler has begun, in order
  toolDeaths

toolVars == <<toolCount, traces, call, cancel, effects, toolDeaths>>

NoCall == [at |-> "idle", tool |-> "", context |-> "", valid |-> FALSE,
           confirmed |-> FALSE]

ToolInit ==
  /\ toolCount = 0 /\ traces = <<>> /\ call = NoCall /\ cancel = FALSE
  /\ effects = <<>> /\ toolDeaths = 0

(* SkillRuntime.load: every tool the skill allows is registered and its    *)
(* network and destructive effects are declared; writes need no            *)
(* declaration.                                                            *)
Loads ==
  /\ Allowed \subseteq Tools
  /\ \A t \in Allowed :
       Effect[t] \in {"network", "destructive"} => Effect[t] \in Permissions

(* SkillRuntime.execute refuses without a trace: a skill that does not     *)
(* load, a tool of another skill, a budget that is used up.                *)
Enter(t) ==
  /\ call.at = "idle" /\ Loads /\ t \in Allowed
  /\ toolCount < MaxToolCalls
  /\ \E context \in {"own", "foreign", "otherTask"},
        valid \in BOOLEAN, confirmed \in BOOLEAN :
       call' = [at |-> "check", tool |-> t, context |-> context,
                valid |-> valid, confirmed |-> confirmed]
  /\ UNCHANGED <<toolCount, traces, cancel, effects, toolDeaths>>

Leave == call' = NoCall

(* ToolRuntime.execute before it asks: an execution of another user leaves *)
(* no trace.                                                               *)
Forbid ==
  /\ call.at = "check" /\ call.context = "foreign"
  /\ Leave
  /\ UNCHANGED <<toolCount, traces, cancel, effects, toolDeaths>>

Refused ==
  \/ call.context = "otherTask"
  \/ call.tool \in Confirmable /\ ~call.confirmed
  \/ cancel
  \/ ~call.valid

(* A refusal is a failed trace and counts. *)
Reject ==
  /\ call.at = "check" /\ call.context # "foreign" /\ Refused
  /\ traces' = Append(traces, "failed") /\ toolCount' = toolCount + 1
  /\ Leave
  /\ UNCHANGED <<cancel, effects, toolDeaths>>

(* The trace is committed before the handler begins. *)
Begin ==
  /\ call.at = "check" /\ call.context = "own" /\ ~Refused
  /\ traces' = Append(traces, "running") /\ toolCount' = toolCount + 1
  /\ call' = [call EXCEPT !.at = "run"]
  /\ UNCHANGED <<cancel, effects, toolDeaths>>

Handle ==
  /\ call.at = "run"
  /\ effects' = Append(effects, call.tool)
  /\ call' = [call EXCEPT !.at = "ran"]
  /\ UNCHANGED <<toolCount, traces, cancel, toolDeaths>>

(* A result, a timeout or an exception: the trace has it. *)
Return ==
  /\ call.at = "ran"
  /\ \E status \in {"completed", "failed"} :
       traces' = [traces EXCEPT ![Len(traces)] = status]
  /\ Leave
  /\ UNCHANGED <<toolCount, cancel, effects, toolDeaths>>

Cancel ==
  /\ ~cancel /\ cancel' = TRUE
  /\ UNCHANGED <<toolCount, traces, call, effects, toolDeaths>>

ToolDies ==
  /\ toolDeaths < MaxToolDeaths /\ call # NoCall
  /\ toolDeaths' = toolDeaths + 1
  /\ Leave
  /\ UNCHANGED <<toolCount, traces, cancel, effects>>

ToolNext ==
  \/ \E t \in Tools : Enter(t)
  \/ Forbid \/ Reject \/ Begin \/ Handle \/ Return
  \/ Cancel \/ ToolDies

-----------------------------------------------------------------------------
(* Every variable has its type. *)
ToolTypeOK ==
  /\ toolCount \in Nat /\ toolDeaths \in 0..MaxToolDeaths
  /\ traces \in Seq({"running", "completed", "failed"})
  /\ call.at \in {"idle", "check", "run", "ran"}
  /\ cancel \in BOOLEAN /\ effects \in Seq(Tools)

(* Nothing happens that the traces do not show, also when the process dies *)
(* in the middle: there are as many rows as calls were counted, at least   *)
(* one for every handler that began, one that says "running" only for a    *)
(* call in hand or one a death cut off; and the skill's budget holds.      *)
EffectsAreTraced ==
  /\ Len(traces) = toolCount /\ toolCount <= MaxToolCalls
  /\ Len(effects) <= Len(traces)
  /\ Cardinality({i \in 1..Len(traces) : traces[i] = "running"})
       <= toolDeaths + (IF call.at \in {"run", "ran"} THEN 1 ELSE 0)
=============================================================================
