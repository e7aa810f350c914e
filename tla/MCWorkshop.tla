----------------------------- MODULE MCWorkshop -----------------------------
(***************************************************************************)
(* A small instance of Workshop with two requests in flight.  BOUND: a     *)
(* behaviour starts with an order waiting for the decision of b1 and no    *)
(* other is opened, nor an order or a part deleted; or it starts with      *)
(* nothing open, an order is opened, quoted, refused, moved and deleted,   *)
(* and its history is shorter.                                             *)
(***************************************************************************)
EXTENDS Workshop, TLC

CONSTANTS o1, o2, b1, p1

ConcurrentDemands == {p1 :> 1}
ConcurrentStock == p1 :> 1
ConcurrentOpened == o1 :> b1
ConcurrentOps == {"create", "quote", "approve", "refuse", "changeStatus", "editOrder",
                  "adjustStock", "editPart", "removeOrder", "removeBudget", "removePart",
                  "interrupt"}

NothingOpen ==
  /\ orders = [o \in Orders |-> AbsentOrder]
  /\ budgets = [b \in Budgets |-> AbsentBudget]
  /\ parts = [p \in Parts |-> [row |-> "live", stock |-> InitialStock[p]]]
  /\ req = [w \in Workers |-> Idle]

MCSpec == (Init \/ NothingOpen) /\ [][Next]_vars

\* The first order is there from the start or never.
Deciding == orders[o1].row # "absent"

OpeningOps == {"none", "create", "quote", "refuse", "changeStatus"}

InScope ==
  IF Deciding
  THEN /\ \A w \in Workers : req'[w].op # "create"
       /\ orders'[o1].row = "live" /\ parts'[p1].row = "live"
  ELSE /\ \A w \in Workers : req'[w].op \in OpeningOps /\ req'[w].oid # o1
       /\ Len(orders'[o2].history) < MaxHistory

InOrOut == {1, -1}

Interchangeable == Permutations(Workers)
=============================================================================
