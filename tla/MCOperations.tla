---------------------------- MODULE MCOperations ----------------------------
(***************************************************************************)
(* A small instance of Deployment: two replicas desired and one to surge,  *)
(* one crash or failure of the database.                                   *)
(***************************************************************************)
EXTENDS Deployment, TLC

CONSTANTS p1, p2, p3

ThreePods == {p1, p2, p3}
AllRunners == ThreePods \union {Job}
=============================================================================
