---------------------------- MODULE MCDashboard ----------------------------
(***************************************************************************)
(* Instances of Dashboard for TLC.                                         *)
(***************************************************************************)
EXTENDS Dashboard, TLC

Threads == Permutations(Handlers)
=============================================================================
