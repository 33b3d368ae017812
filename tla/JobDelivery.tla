---------------------------- MODULE JobDelivery -----------------------------
(***************************************************************************)
(* What the job queue promises about each job, whatever lists and workers  *)
(* it is made of: an enqueued job is delivered, one delivery at a time,    *)
(* until one succeeds or MaxRetry + 1 of them have failed.  A delivery     *)
(* that is cut short (the worker dies) is repeated and costs no retry, and *)
(* a success whose ack was lost is delivered again.                        *)
(***************************************************************************)
EXTENDS Naturals

CONSTANTS Jobs, MaxRetry

VARIABLES state, tries

vars == <<state, tries>>

Init ==
  /\ state = [j \in Jobs |-> "new"]
  /\ tries = [j \in Jobs |-> 0]

Move(j, from, to) ==
  /\ state[j] = from
  /\ state' = [state EXCEPT ![j] = to]

Submit(j)  == Move(j, "new", "pending") /\ UNCHANGED tries
Deliver(j) == Move(j, "pending", "active") /\ UNCHANGED tries
Settle(j)  == Move(j, "active", "done") /\ tries' = [tries EXCEPT ![j] = 0]
Abort(j)   == Move(j, "active", "pending") /\ UNCHANGED tries

Fail(j) ==
  /\ tries' = [tries EXCEPT ![j] = @ + 1]
  /\ \/ tries[j] < MaxRetry /\ Move(j, "active", "pending")
     \/ tries[j] = MaxRetry /\ Move(j, "active", "dead")

Next == \E j \in Jobs :
          Submit(j) \/ Deliver(j) \/ Settle(j) \/ Abort(j) \/ Fail(j)

Spec == Init /\ [][Next]_vars
=============================================================================
