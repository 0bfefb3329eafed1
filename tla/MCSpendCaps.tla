---------------------------- MODULE MCSpendCaps ----------------------------
(***************************************************************************)
(* Instances of SpendCaps for TLC.                                         *)
(***************************************************************************)
EXTENDS SpendCaps, TLC

CONSTANTS a, b, w1, w2

TwoAndOne == a :> {w1, w2} @@ b :> {w1}
=============================================================================
