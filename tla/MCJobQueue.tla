----------------------------- MODULE MCJobQueue -----------------------------
(***************************************************************************)
(* Instances of JobQueue for TLC.                                          *)
(***************************************************************************)
EXTENDS JobQueue

(* Every place of the loop except the two windows in which Redis holds no  *)
(* copy of the job in hand.                                                *)
OutsideWindows == Places \ {"down", "drainPush", "failPush"}
Anywhere == Places \ {"down"}

(* Recovery that races with another worker can repeat a delivery for ever. *)
FewDeliveries == \A j \in Jobs : deliveries[j] <= 2

JobSymmetry == Permutations(Jobs)
=============================================================================
