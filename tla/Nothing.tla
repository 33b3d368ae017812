------------------------------- MODULE Nothing -------------------------------
(***************************************************************************)
(* The value of what is not there: one for all modules that are composed.  *)
(***************************************************************************)
CONSTANTS None
=============================================================================
