----------------------------- MODULE MCLotTasks -----------------------------
(***************************************************************************)
(* LotTasks for TLC.                                                       *)
(***************************************************************************)
EXTENDS LotTasks

CONSTANTS w1, w2, m1, m2
=============================================================================
