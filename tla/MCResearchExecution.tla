------------------------ MODULE MCResearchExecution -------------------------
(***************************************************************************)
(* Instances of ResearchExecution for TLC.                                 *)
(***************************************************************************)
EXTENDS ResearchExecution

CONSTANTS t1, t2, w1, w2, c1

(* WRITE_SECTION: t2 uses what t1 produced; DISCOVER_AND_IMPORT has the    *)
(* same shape, its second task waiting for a selection.                    *)
Chain == [t \in Tasks |-> IF t = t2 THEN {t1} ELSE {}]

(* READ_PAPERS: independent tasks. *)
Independent == [t \in Tasks |-> {}]

AllResults == {Completed, Blocked, WaitUser, PartImport, Transient, Permanent}
GoodOrBad == {Completed, WaitUser, Transient, Permanent}
OnlyGood == {Completed, WaitUser}

(* The steps from the read of the rows to the last commit that relies on   *)
(* the read.  A request that had to initialize the execution first relies  *)
(* on its read until it has done what it was sent for.                     *)
InTransaction(p) ==
  \/ pc[p] \in {"init", "control", "loaded", "interrupted", "completing", "advance"}
  \/ pc[p] = "publish" /\ then[p] = "control"

(* No two processes overlap their transactions. *)
NoOverlap == \A p, q \in Procs : InTransaction(p) /\ InTransaction(q) => p = q
=============================================================================
