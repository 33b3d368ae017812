---------------------------- MODULE MCChatAnswer ----------------------------
(***************************************************************************)
(* Instances of ChatAnswer for TLC.                                        *)
(***************************************************************************)
EXTENDS ChatAnswer

CONSTANTS c1, c2

(* A stop, a death, an unsaved failure or a delivery that fails after the  *)
(* commit, not two of them.                                                *)
FewTroubles == stops + deaths + unsaved + again <= 1
=============================================================================
