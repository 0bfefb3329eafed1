-------------------------- MODULE MCDocumentStages --------------------------
(* Small instances of DocumentStages for TLC.  Texts are plainly clean (10) *)
(* or plainly garbage (90).                                                 *)
EXTENDS DocumentStages, TLC

\* Runs are interchangeable; used where no liveness is checked.
RunnerSymmetry == Permutations(Runners)
=============================================================================
