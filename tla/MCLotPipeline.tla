---------------------------- MODULE MCLotPipeline ----------------------------
(***************************************************************************)
(* LotPipeline for TLC.                                                    *)
(***************************************************************************)
EXTENDS LotPipeline

CONSTANTS r1, r2, s1, s2, s3

=============================================================================
