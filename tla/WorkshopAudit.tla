---------------------------- MODULE WorkshopAudit ----------------------------
(***************************************************************************)
(* Workshop with the books an auditor would keep beside the tables: how    *)
(* many units of each part were brought in, how many an interrupted        *)
(* approval had already taken, how often a decision of a budget was saved. *)
(* The three variables record the steps and let Workshop take no others.   *)
(* One step is refused because of them: an adjustment of stock that would  *)
(* bring in more than MaxSupply, a bound of the model and not of the code. *)
(***************************************************************************)
EXTENDS Workshop, FiniteSetsExt

CONSTANTS MaxSupply   \* bound: units of a part ever brought in

ASSUME SupplyAssumption == MaxSupply \in Nat

VARIABLES
  supply,     \* units of each part brought in, less those an admin took out
  spilled,    \* units an interrupted approval had already taken
  decisions   \* how many times a decision of each budget was saved

books == <<supply, spilled, decisions>>

AuditInit ==
  /\ Init
  /\ supply = InitialStock
  /\ spilled = Nothing
  /\ decisions = [b \in Budgets |-> 0]

\* What an approval has taken from part p and not yet accounted for.
TakenBy(r, p) ==
  IF r.op = "approve" /\ r.step \in {"saveParts", "saveBudget"} /\ p \notin r.toSave
  THEN r.demand[p] ELSE 0

Account(w) ==
  /\ supply' = IF req[w].op = "adjustStock" /\ req[w].step = "saveParts"
               THEN [p \in Parts |-> supply[p] - req[w].demand[p]] ELSE supply
  /\ decisions' = IF req[w].step = "saveBudget"
                  THEN [decisions EXCEPT ![req[w].bid] = @ + 1] ELSE decisions
  /\ UNCHANGED spilled

Spill(w) ==
  /\ spilled' = [p \in Parts |-> spilled[p] + TakenBy(req[w], p)]
  /\ UNCHANGED <<supply, decisions>>

AuditNext ==
  \/ \E w \in Workers :
       /\ Arrival(w)
       /\ req'[w].op = "adjustStock" =>
            \A p \in Parts : supply[p] - req'[w].demand[p] <= MaxSupply
       /\ UNCHANGED books
  \/ \E w \in Workers : RequestStep(w) /\ Account(w)
  \/ \E w \in Workers : Interrupt(w) /\ Spill(w)
  \/ Removal /\ UNCHANGED books

AuditSpec == AuditInit /\ [][AuditNext]_<<vars, books>>

\* A budget is decided at most once: "only a PENDENTE budget takes a decision".
DecidedOnce == \A b \in Budgets : decisions[b] <= 1

Approved(p) ==
  MapThenSumSet(LAMBDA b : budgets[b].demand[p],
                {b \in Budgets : budgets[b].status = "APROVADO"})

\* The APROVADO budgets never ask for more units of a part than were ever
\* brought in: insufficient stock blocks an approval.
ApprovedIsCovered == \A p \in Parts : Approved(p) <= supply[p]

InFlight(p) == MapThenSumSet(LAMBDA w : TakenBy(req[w], p), Workers)

\* Every unit brought in is in stock, taken by an APROVADO budget, held by an
\* approval in flight, or was spilled by one that was interrupted.
StockBalances ==
  \A p \in Parts :
    supply[p] = parts[p].stock + Approved(p) + InFlight(p) + spilled[p]

Stage(o) == IF orders[o].row = "absent" THEN "absent" ELSE orders[o].status

Requested(h) == {i \in DOMAIN h : h[i].to = "AGUARDANDO_APROVACAO" /\ h[i].by = "system"}

Lifecycle == INSTANCE OrderLifecycle WITH
  Matrix <- ALLOWED_TRANSITIONS,
  stage <- [o \in Orders |-> Stage(o)],
  asked <- [o \in Orders |-> Cardinality(Requested(orders[o].history))],
  linked <- [o \in Orders |-> orders[o].budgetId],
  owner <- [b \in Budgets |-> budgets[b].order],
  verdict <- [b \in Budgets |-> budgets[b].status]

\* The tables change only as OrderLifecycle allows: every save of an order is a
\* legal move, execution starts on an approved budget, decisions are final, and
\* a new quote of an order in execution unlinks its budget in the same write.
ImplementsLifecycle == Lifecycle!LifecycleSpec
=============================================================================
