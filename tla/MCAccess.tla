------------------------------ MODULE MCAccess ------------------------------
(***************************************************************************)
(* A small instance of Access: two replicas, one document, one admin who   *)
(* edits clients.  BOUND: while secrets and replicas change, one client is  *)
(* registered at most and one request in flight; and both secrets do not   *)
(* take their last value in one behaviour.                                 *)
(***************************************************************************)
EXTENDS Access, TLC

CONSTANTS w1, w2

OneEditor == {w1}

Alike == Permutations(Pods) \union Permutations(Clients)

Quiet ==
  /\ Cardinality({w \in Workers : req[w].step # "idle"}) < 2
  /\ Cardinality({c \in Clients : clients[c].row # "absent"}) < 2

Settled == env = [jwt |-> 1, webhook |-> 0] /\ lambda = 1 /\ \A p \in Pods : pod[p].up

MCSpec ==
  /\ AccessInit
  /\ [][/\ AccessNext
        /\ Quiet' \/ Settled'
        /\ env'.jwt + env'.webhook < 2 * MaxSecret]_<<vars, avars>>
=============================================================================
