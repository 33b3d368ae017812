-------------------------- MODULE MCPaperPipeline --------------------------
(***************************************************************************)
(* Instances of PaperPipeline for TLC.                                     *)
(***************************************************************************)
EXTENDS PaperPipeline, TLC

CONSTANTS c1, c2

Symmetric == Permutations({c1, c2})

(* No failure that leaves the text of a paper out of the knowledge base    *)
(* unnoticed.                                                              *)
Noticed == FaultPlaces \ {"index", "purge", "raise"}

(* No retry that puts back the status it read before the job ended.        *)
Queued == FaultPlaces \ {"enqueue"}

(* Nor an exception in the recovery coroutine, which nobody would notice.  *)
Caught == FaultPlaces \ {"enqueue", "raise"}
============================================================================
