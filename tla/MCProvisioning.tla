--------------------------- MODULE MCProvisioning ---------------------------
(***************************************************************************)
(* Instances of Provisioning for TLC.                                      *)
(***************************************************************************)
EXTENDS Provisioning, TLC

CONSTANTS score, stage

ScoreAndStage == <<score, stage>>
Interchangeable == Permutations(WebRequests) \cup Permutations(Workers)
=============================================================================
