--------------------------- MODULE MCHostedAgent ---------------------------
(* Small instances of HostedAgent for TLC.  Jobs are told apart by the     *)
(* liveness and refinement properties, so no symmetry is declared.         *)
EXTENDS HostedAgent
=============================================================================
