------------------------------ MODULE Workshop ------------------------------
(***************************************************************************)
(* The service-order, budget and stock use cases as requests that run      *)
(* concurrently over three PostgreSQL tables.  There is no transaction and *)
(* no lock around a use case: every repository call is a statement of its  *)
(* own, so a request is a small program whose awaits are the steps below,  *)
(* working on the entities it has in memory.  A request may stop for good  *)
(* at any await (a statement fails, the pod dies): Interrupt.              *)
(*                                                                         *)
(* TypeORM's save of a loaded entity is a SELECT of the row, a comparison  *)
(* column by column, and an UPDATE of the columns that differ.  For orders *)
(* those are two steps (SaveOrder, UpdateOrder).  A budget or a part has a *)
(* single column that changes here (status, stock_quantity); its save has  *)
(* the effect of one atomic write, because if the comparison finds no      *)
(* difference the write may be placed at the SELECT, else at the UPDATE.   *)
(***************************************************************************)
EXTENDS ServiceOrder, Integers

CONSTANTS
  Workers,       \* requests that can be in flight at the same time
  Orders,        \* service order ids
  Budgets,       \* budget ids
  Parts,         \* part ids
  NoOrder,       \* an order id no order has
  Demands,       \* the quantity of each part a list of budget lines can ask for
  Adjustments,   \* quantities PATCH /parts/:id/stock is called with
  InitialStock,  \* [Parts -> Nat], the stock the parts were registered with
  Opened,        \* orders already open at the start, each with its PENDENTE budget
  Ops,           \* the operations clients call
  MaxHistory,    \* bound: no status change is asked of an order with this long a history
  MaxStock       \* bound: no stock entry is asked for that would exceed it

ASSUME NoneAssumption == NoOrder \notin Orders /\ NoBudget \notin Budgets
ASSUME DemandAssumption == Demands \subseteq [Parts -> Nat]
ASSUME StockAssumption == InitialStock \in [Parts -> Nat]
ASSUME AdjustAssumption == Adjustments \subseteq Int \ {0}
ASSUME OpenedAssumption ==
  /\ DOMAIN Opened \subseteq Orders
  /\ \A o \in DOMAIN Opened : Opened[o] \in Budgets
  /\ \A o1, o2 \in DOMAIN Opened : Opened[o1] = Opened[o2] => o1 = o2
ASSUME BoundAssumption == MaxHistory \in Nat /\ MaxStock \in Nat

VARIABLES
  orders,     \* table service_orders
  budgets,    \* table budgets
  parts,      \* table parts
  req         \* what each in-flight request keeps in memory

tables == <<orders, budgets, parts>>
vars == <<orders, budgets, parts, req>>

-----------------------------------------------------------------------------
(* Rows and requests.  A row is absent, live, or soft-deleted.             *)

Presence == {"absent", "live", "deleted"}
BudgetStatus == {"PENDENTE", "APROVADO", "RECUSADO"}
OrderColumn == {"status", "budgetId", "history"}

OrderRow ==
  [row : Presence, status : ServiceOrderStatus,
   budgetId : Budgets \union {NoBudget}, history : Seq(StatusHistoryEntry)]

BudgetRow ==
  [row : Presence, order : Orders \union {NoOrder}, version : Nat,
   demand : [Parts -> Nat], status : BudgetStatus]

PartRow == [row : Presence, stock : Int]

Op == {"none", "create", "quote", "approve", "refuse", "changeStatus",
       "editOrder", "adjustStock", "editPart"}

Step == {"idle", "insertOrder", "resolve", "findLatest", "insertBudget",
         "readParts", "saveParts", "saveBudget", "findOrder", "saveOrder",
         "updateOrder"}

(***************************************************************************)
(* A request: the operation, the await it stands at, the ids it works on,  *)
(* the order entity it holds, what it asks of each part (an adjustment     *)
(* that brings stock in asks a negative quantity), the version it will     *)
(* give a new budget, the stock of the part entities it holds, the parts   *)
(* still to read and to save, and the order columns its UPDATE will write  *)
(* (the history is one of them as soon as an entry is recorded: its time   *)
(* is new, whatever the row holds).                                        *)
(***************************************************************************)
Request ==
  [op : Op, step : Step, oid : Orders \union {NoOrder},
   bid : Budgets \union {NoBudget}, entity : OrderRow,
   demand : [Parts -> Int], version : Nat, stock : [Parts -> Int],
   toRead : SUBSET Parts, toSave : SUBSET Parts, dirty : SUBSET OrderColumn]

Nothing == [p \in Parts |-> 0]

Idle ==
  [op |-> "none", step |-> "idle", oid |-> NoOrder, bid |-> NoBudget,
   entity |-> NewServiceOrder, demand |-> Nothing, version |-> 0,
   stock |-> Nothing, toRead |-> {}, toSave |-> {}, dirty |-> {}]

AbsentOrder == [NewServiceOrder EXCEPT !.row = "absent"]

AbsentBudget ==
  [row |-> "absent", order |-> NoOrder, version |-> 0, demand |-> Nothing,
   status |-> "PENDENTE"]

\* new Budget(...): every budget is born PENDENTE.
NewBudget(o, v, d) ==
  [row |-> "live", order |-> o, version |-> v, demand |-> d,
   status |-> "PENDENTE"]

Init ==
  /\ orders = [o \in Orders |-> IF o \in DOMAIN Opened
                                THEN AdvanceToAwaitingApproval(NewServiceOrder)
                                ELSE AbsentOrder]
  /\ \E d \in [DOMAIN Opened -> Demands] :
       budgets = [b \in Budgets |->
         IF \E o \in DOMAIN Opened : Opened[o] = b
         THEN LET o == CHOOSE o \in DOMAIN Opened : Opened[o] = b
              IN  NewBudget(o, 1, d[o])
         ELSE AbsentBudget]
  /\ parts = [p \in Parts |-> [row |-> "live", stock |-> InitialStock[p]]]
  /\ req = [w \in Workers |-> Idle]

-----------------------------------------------------------------------------
(* What the steps of the use cases share.                                  *)

\* A request arrives: a worker becomes busy with the first step of op.
Arrive(w, op, r) ==
  /\ op \in Ops
  /\ req[w].step = "idle"
  /\ req' = [req EXCEPT ![w] = r]

GoTo(w, s) == req' = [req EXCEPT ![w].step = s]

Finish(w) == req' = [req EXCEPT ![w] = Idle]

\* Ids are random UUIDs: no row and no request in flight has this one.
FreshOrder(o) ==
  orders[o].row = "absent" /\ \A w \in Workers : req[w].oid # o

\* Fault: a new version reuses the id of the budget it replaces.
ReusedBudget(b) == \A w \in Workers : req[w].bid # b

FreshBudget(b) ==
  budgets[b].row = "absent" /\ \A w \in Workers : req[w].bid # b

Asked(d) == {p \in Parts : d[p] > 0}

\* The catalogue lookup of BudgetLineResolver for every PART line.
Resolvable(d) == \A p \in Asked(d) : parts[p].row = "live"

LiveBudgetsOf(o) == {b \in Budgets : budgets[b].row = "live" /\ budgets[b].order = o}

-----------------------------------------------------------------------------
(* POST /service-orders and POST /budgets.                                 *)

(***************************************************************************)
(* CreateServiceOrderUseCase up to its first write: the client and vehicle *)
(* checks end the request with nothing written, and the catalogue is read  *)
(* before anything is.                                                     *)
(***************************************************************************)
StartCreate(w, o) ==
  /\ FreshOrder(o)
  /\ Arrive(w, "create", [Idle EXCEPT !.op = "create", !.step = "insertOrder",
                          !.oid = o])
  /\ UNCHANGED tables

StartCreateWithItems(w, o, b, d) ==
  /\ FreshOrder(o) /\ FreshBudget(b) /\ Resolvable(d)
  /\ Arrive(w, "create", [Idle EXCEPT !.op = "create", !.step = "insertOrder",
                          !.oid = o, !.bid = b, !.demand = d, !.version = 1])
  /\ UNCHANGED tables

\* Fault: a new order is sent to approval before its budget is saved.
InsertWaitingOrder(w) ==
  /\ req[w].step = "insertOrder"
  /\ orders' = [orders EXCEPT
       ![req[w].oid] = IF req[w].bid = NoBudget THEN NewServiceOrder
                       ELSE AdvanceToAwaitingApproval(NewServiceOrder)]
  /\ IF req[w].bid = NoBudget THEN Finish(w) ELSE GoTo(w, "insertBudget")
  /\ UNCHANGED <<budgets, parts>>

InsertOrder(w) ==
  /\ req[w].step = "insertOrder"
  /\ orders' = [orders EXCEPT ![req[w].oid] = NewServiceOrder]
  /\ IF req[w].bid = NoBudget THEN Finish(w) ELSE GoTo(w, "insertBudget")
  /\ UNCHANGED <<budgets, parts>>

\* CreateBudgetUseCase: the order is read first, and kept until the last write.
StartQuote(w, o, b, d) ==
  /\ orders[o].row = "live"
  /\ Len(orders[o].history) < MaxHistory
  /\ FreshBudget(b)
  /\ Arrive(w, "quote", [Idle EXCEPT !.op = "quote", !.step = "resolve",
                         !.oid = o, !.bid = b, !.entity = orders[o], !.demand = d])
  /\ UNCHANGED tables

ResolveLines(w) ==
  /\ req[w].step = "resolve"
  /\ IF Resolvable(req[w].demand) THEN GoTo(w, "findLatest") ELSE Finish(w)
  /\ UNCHANGED tables

LatestBudgetsOf(o) ==
  {b \in LiveBudgetsOf(o) :
     \A c \in LiveBudgetsOf(o) : budgets[c].version <= budgets[b].version}

\* Fault: createNewVersion keeps the number of the version it replaces.
SameVersions(o) ==
  IF LiveBudgetsOf(o) = {} THEN {1}
  ELSE {budgets[b].version : b \in LatestBudgetsOf(o)}

\* createNewVersion of the latest live budget, or the first version.
NextVersions(o) ==
  IF LiveBudgetsOf(o) = {} THEN {1}
  ELSE {budgets[b].version + 1 : b \in LatestBudgetsOf(o)}

\* findLatestByServiceOrderId: ORDER BY version DESC, the first row.
FindLatest(w) ==
  /\ req[w].step = "findLatest"
  /\ \E v \in NextVersions(req[w].oid) :
       req' = [req EXCEPT ![w].version = v, ![w].step = "insertBudget"]
  /\ UNCHANGED tables

\* budgetRepository.save of the new budget; the entity then advances in memory.
InsertBudget(w) ==
  /\ req[w].step = "insertBudget"
  /\ budgets' = [budgets EXCEPT
       ![req[w].bid] = NewBudget(req[w].oid, req[w].version, req[w].demand)]
  /\ LET so == req[w].entity
         advanced == AdvanceToAwaitingApproval(so)
     IN  req' = [req EXCEPT ![w].step = "saveOrder", ![w].entity = advanced,
                            ![w].dirty = IF advanced = so THEN {} ELSE {"history"}]
  /\ UNCHANGED <<orders, parts>>

-----------------------------------------------------------------------------
(* PATCH /budgets/:id/approve and /refuse, and the two webhook routes.     *)

\* Fault: a budget that was decided already is approved again.
StartApproveAny(w, b) ==
  /\ budgets[b].row = "live"
  /\ LET d == budgets[b].demand
     IN  Arrive(w, "approve",
           [Idle EXCEPT !.op = "approve", !.bid = b, !.oid = budgets[b].order,
                        !.demand = d, !.toRead = Asked(d),
                        !.step = IF Asked(d) = {} THEN "saveBudget" ELSE "readParts"])
  /\ UNCHANGED tables

(***************************************************************************)
(* ApproveBudgetUseCase reads the budget, then the parts, and only then    *)
(* calls budget.approve(), which throws unless the budget it read is       *)
(* PENDENTE.  Nothing is written before, so a request that will throw is   *)
(* left out here.                                                          *)
(***************************************************************************)
StartApprove(w, b) ==
  /\ budgets[b].row = "live" /\ budgets[b].status = "PENDENTE"
  /\ LET d == budgets[b].demand
     IN  Arrive(w, "approve",
           [Idle EXCEPT !.op = "approve", !.bid = b, !.oid = budgets[b].order,
                        !.demand = d, !.toRead = Asked(d),
                        !.step = IF Asked(d) = {} THEN "saveBudget" ELSE "readParts"])
  /\ UNCHANGED tables

\* RefuseBudgetUseCase: the same guard, no stock.
StartRefuse(w, b) ==
  /\ budgets[b].row = "live" /\ budgets[b].status = "PENDENTE"
  /\ Arrive(w, "refuse", [Idle EXCEPT !.op = "refuse", !.step = "saveBudget",
                          !.bid = b, !.oid = budgets[b].order])
  /\ UNCHANGED tables

AfterReading(toRead) == IF toRead = {} THEN "saveParts" ELSE "readParts"

(***************************************************************************)
(* partRepository.findById and the availability check of an approval, one  *)
(* part at a time: the reads run in parallel (Promise.all), so they happen *)
(* in any order.  Any failure ends the request with nothing written.       *)
(***************************************************************************)
ReadPart(w, p) ==
  /\ req[w].step = "readParts" /\ p \in req[w].toRead
  /\ IF parts[p].row = "live" /\ parts[p].stock >= req[w].demand[p]
     THEN req' = [req EXCEPT ![w].stock[p] = parts[p].stock,
                             ![w].toRead = @ \ {p}, ![w].toSave = @ \union {p},
                             ![w].step = AfterReading(req[w].toRead \ {p})]
     ELSE Finish(w)
  /\ UNCHANGED tables

\* Fault: an approval saves the part as it read it.
SavePartUntouched(w, p) ==
  LET r == req[w]
      left == r.toSave \ {p}
  IN  /\ r.step = "saveParts" /\ p \in r.toSave
      /\ parts' = [parts EXCEPT ![p].stock =
           IF r.op = "approve" THEN r.stock[p] ELSE r.stock[p] - r.demand[p]]
      /\ IF left # {}
         THEN req' = [req EXCEPT ![w].toSave = left]
         ELSE IF r.op = "approve"
              THEN req' = [req EXCEPT ![w].toSave = left, ![w].step = "saveBudget"]
              ELSE Finish(w)
      /\ UNCHANGED <<orders, budgets>>

(***************************************************************************)
(* decrementStock (or incrementStock) on the entity, and its save: what is *)
(* written is the stock that was READ less what is asked, whatever the row *)
(* holds by now.  An approval saves its parts one after the other.         *)
(***************************************************************************)
SavePart(w, p) ==
  LET r == req[w]
      left == r.toSave \ {p}
  IN  /\ r.step = "saveParts" /\ p \in r.toSave
      /\ parts' = [parts EXCEPT ![p].stock = r.stock[p] - r.demand[p]]
      /\ IF left # {}
         THEN req' = [req EXCEPT ![w].toSave = left]
         ELSE IF r.op = "approve"
              THEN req' = [req EXCEPT ![w].toSave = left, ![w].step = "saveBudget"]
              ELSE Finish(w)
      /\ UNCHANGED <<orders, budgets>>

Verdict(op) == IF op = "approve" THEN "APROVADO" ELSE "RECUSADO"

\* Fault: the order is linked before the decision is saved.
SaveBudgetSkipped(w) ==
  /\ req[w].step = "saveBudget"
  /\ GoTo(w, "findOrder")
  /\ UNCHANGED tables

\* budgetRepository.save of the decided budget.
SaveBudget(w) ==
  LET b == req[w].bid
  IN  /\ req[w].step = "saveBudget"
      /\ budgets' = [budgets EXCEPT ![b].status = Verdict(req[w].op)]
      /\ GoTo(w, "findOrder")
      /\ UNCHANGED <<orders, parts>>

(***************************************************************************)
(* The order of the decided budget, read after the decision was saved.  An *)
(* approval links the budget; a refusal closes the order if it is still    *)
(* waiting; a deleted order is left alone.                                 *)
(***************************************************************************)
FindOrder(w) ==
  LET so == orders[req[w].oid]
      decided == IF req[w].op = "approve" THEN SetBudget(so, req[w].bid)
                 ELSE ChangeStatus(so, "ENCERRADA_SEM_EXECUCAO", "system")
  IN  /\ req[w].step = "findOrder"
      /\ IF so.row = "live" /\ (req[w].op = "refuse" => so.status = "AGUARDANDO_APROVACAO")
         THEN req' = [req EXCEPT ![w].entity = decided, ![w].step = "saveOrder",
                                 ![w].dirty = IF req[w].op = "refuse" THEN {"history"} ELSE {}]
         ELSE Finish(w)
      /\ UNCHANGED tables

-----------------------------------------------------------------------------
(* PATCH /service-orders/:id/status, PUT /service-orders/:id, parts.       *)

StartChangeStatus(w, o, to) ==
  /\ orders[o].row = "live"
  /\ Len(orders[o].history) < MaxHistory
  /\ CanChangeStatus(orders[o], to)
  /\ Arrive(w, "changeStatus",
       [Idle EXCEPT !.op = "changeStatus", !.step = "saveOrder", !.oid = o,
                    !.entity = ChangeStatus(orders[o], to, "staff"),
                    !.dirty = {"history"}])
  /\ UNCHANGED tables

\* updateDescription: the description itself is not modelled, the save of the
\* whole entity that follows it is.
StartEditOrder(w, o) ==
  /\ orders[o].row = "live"
  /\ Arrive(w, "editOrder", [Idle EXCEPT !.op = "editOrder", !.step = "saveOrder",
                             !.oid = o, !.entity = orders[o]])
  /\ UNCHANGED tables

\* Fault: decrementStock does not compare with the stock it has.
StartAdjustUnchecked(w, p, q) ==
  /\ parts[p].row = "live"
  /\ q > 0 => parts[p].stock + q <= MaxStock
  /\ Arrive(w, "adjustStock",
       [Idle EXCEPT !.op = "adjustStock", !.step = "saveParts", !.toSave = {p},
                    !.stock = [Nothing EXCEPT ![p] = parts[p].stock],
                    !.demand = [Nothing EXCEPT ![p] = -q]])
  /\ UNCHANGED tables

\* AdjustStockUseCase; q < 0 takes units out, which decrementStock refuses
\* when the part read has too few.
StartAdjustStock(w, p, q) ==
  /\ parts[p].row = "live"
  /\ q < 0 => parts[p].stock + q >= 0
  /\ q > 0 => parts[p].stock + q <= MaxStock
  /\ Arrive(w, "adjustStock",
       [Idle EXCEPT !.op = "adjustStock", !.step = "saveParts", !.toSave = {p},
                    !.stock = [Nothing EXCEPT ![p] = parts[p].stock],
                    !.demand = [Nothing EXCEPT ![p] = -q]])
  /\ UNCHANGED tables

\* PUT /parts/:id: name and price are not modelled, the save of the entity is.
StartEditPart(w, p) ==
  /\ parts[p].row = "live"
  /\ Arrive(w, "editPart",
       [Idle EXCEPT !.op = "editPart", !.step = "saveParts", !.toSave = {p},
                    !.stock = [Nothing EXCEPT ![p] = parts[p].stock]])
  /\ UNCHANGED tables

Differing(row, so) == {c \in OrderColumn : row[c] # so[c]}

\* serviceOrderRepository.save, first statement: which columns differ.
SaveOrder(w) ==
  /\ req[w].step = "saveOrder"
  /\ req' = [req EXCEPT
       ![w].dirty = @ \union Differing(orders[req[w].oid], req[w].entity),
       ![w].step = "updateOrder"]
  /\ UNCHANGED tables

Overwrite(row, so, dirty) ==
  [row EXCEPT !.status = IF "status" \in dirty THEN so.status ELSE @,
              !.budgetId = IF "budgetId" \in dirty THEN so.budgetId ELSE @,
              !.history = IF "history" \in dirty THEN so.history ELSE @]

\* Second statement: the differing columns, and only those, are written.
UpdateOrder(w) ==
  /\ req[w].step = "updateOrder"
  /\ orders' = [orders EXCEPT
       ![req[w].oid] = Overwrite(@, req[w].entity, req[w].dirty)]
  /\ Finish(w)
  /\ UNCHANGED <<budgets, parts>>

-----------------------------------------------------------------------------
(***************************************************************************)
(* DELETE: a find and a soft delete.  One step, because a row never comes  *)
(* back to life: if it was deleted in between, the second delete changes   *)
(* nothing.                                                                *)
(***************************************************************************)
RemoveOrder(o) ==
  /\ "removeOrder" \in Ops /\ orders[o].row = "live"
  /\ orders' = [orders EXCEPT ![o].row = "deleted"]
  /\ UNCHANGED <<budgets, parts, req>>

RemoveBudget(b) ==
  /\ "removeBudget" \in Ops /\ budgets[b].row = "live"
  /\ budgets' = [budgets EXCEPT ![b].row = "deleted"]
  /\ UNCHANGED <<orders, parts, req>>

RemovePart(p) ==
  /\ "removePart" \in Ops /\ parts[p].row = "live"
  /\ parts' = [parts EXCEPT ![p].row = "deleted"]
  /\ UNCHANGED <<orders, budgets, req>>

\* A statement fails or the pod dies: the request ends where it stands, and
\* nothing undoes what it wrote.
Interrupt(w) ==
  /\ "interrupt" \in Ops
  /\ req[w].step # "idle"
  /\ Finish(w)
  /\ UNCHANGED tables

RequestStep(w) ==
  \/ InsertOrder(w) \/ ResolveLines(w) \/ FindLatest(w) \/ InsertBudget(w)
  \/ SaveBudget(w) \/ FindOrder(w) \/ SaveOrder(w) \/ UpdateOrder(w)
  \/ \E p \in Parts : ReadPart(w, p) \/ SavePart(w, p)

Arrival(w) ==
  \/ \E o \in Orders : StartCreate(w, o)
  \/ \E o \in Orders, b \in Budgets, d \in Demands :
       StartCreateWithItems(w, o, b, d) \/ StartQuote(w, o, b, d)
  \/ \E b \in Budgets : StartApprove(w, b) \/ StartRefuse(w, b)
  \/ \E o \in Orders, to \in ServiceOrderStatus : StartChangeStatus(w, o, to)
  \/ \E o \in Orders : StartEditOrder(w, o)
  \/ \E p \in Parts, q \in Adjustments : StartAdjustStock(w, p, q)
  \/ \E p \in Parts : StartEditPart(w, p)

Removal ==
  \/ \E o \in Orders : RemoveOrder(o)
  \/ \E b \in Budgets : RemoveBudget(b)
  \/ \E p \in Parts : RemovePart(p)

Next ==
  \/ \E w \in Workers : Arrival(w) \/ RequestStep(w) \/ Interrupt(w)
  \/ Removal

Spec == Init /\ [][Next]_vars

-----------------------------------------------------------------------------
(* What holds however requests interleave.                                 *)

\* Every variable stays in its type; of a stock it says no more than integer.
TypeOK ==
  /\ orders \in [Orders -> OrderRow]
  /\ budgets \in [Budgets -> BudgetRow]
  /\ parts \in [Parts -> PartRow]
  /\ req \in [Workers -> Request]

\* No stock_quantity is ever negative, although it is written from values read
\* earlier: the promise of Part and of ApproveBudgetUseCase.
StockNeverNegative == \A p \in Parts : parts[p].stock >= 0

\* b is a budget of o whose decision has been saved.
DecidedBudgetOf(o, b) ==
  /\ b \in Budgets
  /\ budgets[b].row # "absent" /\ budgets[b].order = o
  /\ budgets[b].status # "PENDENTE"

\* An order only ever points to a budget of its own that was already decided
\* when the link was written: ApproveBudgetUseCase saves the budget first.
LinkedBudgetWasDecided ==
  \A o \in Orders :
    orders[o].budgetId # NoBudget => DecidedBudgetOf(o, orders[o].budgetId)

LegalEntry(e) ==
  \/ <<e.from, e.to>> \in ALLOWED_TRANSITIONS
  \/ e = Entry("none", "RECEBIDA", "system")

\* Every transition an order's history records is one of the matrix, also when
\* the history was built from a stale copy and saved over another.
HistoryIsLegal ==
  \A o \in Orders : \A i \in DOMAIN orders[o].history : LegalEntry(orders[o].history[i])

SentToApproval(h) ==
  \E i \in DOMAIN h : h[i].to = "AGUARDANDO_APROVACAO" /\ h[i].by = "system"

HasBudget(o) == \E b \in Budgets : budgets[b].row # "absent" /\ budgets[b].order = o

\* An order the program itself sent to approval has a budget: whatever fails
\* between the writes of CreateServiceOrderUseCase or CreateBudgetUseCase, no
\* order waits for the approval of a budget that was never saved.
AwaitingMeansQuoted ==
  \A o \in Orders : SentToApproval(orders[o].history) => HasBudget(o)

\* A saved decision is never taken back to PENDENTE, by any save of any request.
NeverUndecided ==
  [][\A b \in Budgets :
       budgets[b].status # "PENDENTE" => budgets'[b].status # "PENDENTE"]_vars

-----------------------------------------------------------------------------
(* What holds when requests are served one at a time, failures included.   *)

InExecution == {"EM_EXECUCAO", "PAUSADO", "FINALIZADA", "ENTREGUE"}

\* An order in execution, or past it, is linked to an APROVADO budget of its own.
ExecutionIsApproved ==
  \A o \in Orders :
    orders[o].row # "absent" /\ orders[o].status \in InExecution =>
      /\ DecidedBudgetOf(o, orders[o].budgetId)
      /\ budgets[orders[o].budgetId].status = "APROVADO"

\* A history starts at null, each entry continues the one before it, and the
\* last one tells the status of the row.
HistoryTellsStatus ==
  \A o \in Orders :
    LET h == orders[o].history
    IN  /\ h[1].from = "none" /\ h[Len(h)].to = orders[o].status
        /\ \A i \in 2..Len(h) : h[i].from = h[i - 1].to

\* Live budgets of one order carry different versions.
VersionsAreUnique ==
  \A o \in Orders : \A a, b \in LiveBudgetsOf(o) :
    budgets[a].version = budgets[b].version => a = b
=============================================================================
