----------------------------- MODULE MCReports -----------------------------
(***************************************************************************)
(* Instances of Reports for TLC.                                           *)
(***************************************************************************)
EXTENDS Reports, TLC

CONSTANTS o1, o2

\* Orders are alike, and every property is about all of them.
Alike == Permutations(Orders)
=============================================================================
