---------------------------- MODULE MCRunRecords ----------------------------
(***************************************************************************)
(* Instances of RunRecords for TLC.                                        *)
(***************************************************************************)
EXTENDS RunRecords, TLC

Symmetry == Permutations(Docs) \cup Permutations(Sweepers)
=============================================================================
