---------------------------- MODULE MCPagedBatch ----------------------------
(***************************************************************************)
(* Instances of PagedBatch for TLC.                                        *)
(***************************************************************************)
EXTENDS PagedBatch

CONSTANTS d1, d2, d3, d4

ThreeOfFour == <<d1, d2, d3>>
=============================================================================
