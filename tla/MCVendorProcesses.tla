------------------------- MODULE MCVendorProcesses -------------------------
(***************************************************************************)
(* Instances of VendorProcesses for TLC.                                   *)
(***************************************************************************)
EXTENDS VendorProcesses, TLC

\* Whether a host is allowed is decided before the registry is touched: no list.
SomeLists == {{}}

Alike == Permutations(Operators) \cup Permutations(ServerThreads)
=============================================================================
