------------------------ MODULE WorkshopSerialProofs ------------------------
(***************************************************************************)
(* What holds of Workshop when requests are served one at a time, for any  *)
(* number of orders, budgets and parts, with failures and deletions at any *)
(* await: order and budget agree, every unit of stock is accounted for,    *)
(* and WorkshopAudit implements OrderLifecycle.  The runs race_execution   *)
(* and race_stock show that two requests in flight break these properties, *)
(* so the hypothesis OneAtATime is needed.                                 *)
(***************************************************************************)
EXTENDS WorkshopAudit, WorkshopProofs, SumTheorems

\* The hypothesis of this part: at most one request is in flight.
OneAtATime == \A v, w \in Workers : v = w

\* Two orders agree in every column a save writes.
SameColumns(a, b) ==
  a.status = b.status /\ a.budgetId = b.budgetId /\ a.history = b.history

\* The history of an order is a chain from null to its status.
Told(so) ==
  LET h == so.history
  IN  /\ Len(h) > 0 /\ h[1].from = "none" /\ h[Len(h)].to = so.status
      /\ \A i \in 2..Len(h) : h[i].from = h[i - 1].to

\* An order past its approval keeps a budget.
Budgeted(so) == so.status \in InExecution => so.budgetId # NoBudget

\* What the entity of a request changes of its row.
LinksOnly(r, row) ==
  r.op = "approve" /\ SameColumns(r.entity, SetBudget(row, r.bid))

MovesOnly(r, row) ==
  \E to \in ServiceOrderStatus, by \in {"system", "staff"} :
    /\ CanChangeStatus(row, to) /\ (to = "AGUARDANDO_APROVACAO" => by = "staff")
    /\ SameColumns(r.entity, ChangeStatus(row, to, by))

AdvancesOnly(r, row) ==
  r.op \in {"create", "quote"} /\ SameColumns(r.entity, AdvanceToAwaitingApproval(row))

\* The row a request holds is as it read it, so that its save is one change.
OneChange(r, row) ==
  \/ SameColumns(r.entity, row)
  \/ LinksOnly(r, row) \/ MovesOnly(r, row) \/ AdvancesOnly(r, row)

\* What the UPDATE leaves out is in the row already.
DirtyCovers(r, row) ==
  /\ "status" \notin r.dirty => row.status = r.entity.status
  /\ "budgetId" \notin r.dirty => row.budgetId = r.entity.budgetId
  /\ "history" \notin r.dirty => row.history = r.entity.history

QuoteInHand(r) ==
  /\ r.step = "insertOrder" => orders[r.oid].row = "absent" /\ r.entity = NewServiceOrder
  /\ r.step \in {"resolve", "findLatest", "insertBudget"} =>
       orders[r.oid].row # "absent" /\ SameColumns(r.entity, orders[r.oid])
  /\ r.step = "insertBudget" =>
       \A b \in LiveBudgetsOf(r.oid) : budgets[b].version < r.version

DecisionInHand(r) ==
  r.op \in {"approve", "refuse"} =>
    budgets[r.bid].status = IF r.step \in {"findOrder", "saveOrder", "updateOrder"}
                            THEN Verdict(r.op) ELSE "PENDENTE"

OrderInHand(r) ==
  r.step \in {"saveOrder", "updateOrder"} =>
    /\ orders[r.oid].row # "absent" /\ OneChange(r, orders[r.oid])
    /\ r.op \in {"create", "quote"} => HasBudget(r.oid)
    /\ r.step = "updateOrder" => DirtyCovers(r, orders[r.oid])

InHand ==
  \A w \in Workers : QuoteInHand(req[w]) /\ DecisionInHand(req[w]) /\ OrderInHand(req[w])

AbsentIsBlank ==
  /\ \A o \in Orders : orders[o].row = "absent" => orders[o] = AbsentOrder
  /\ \A b \in Budgets : budgets[b].row = "absent" => budgets[b].order = NoOrder

BudgetsHaveOrders ==
  \A b \in Budgets : budgets[b].row # "absent" => orders[budgets[b].order].row # "absent"

LinkedIsApproved ==
  \A o \in Orders : orders[o].budgetId # NoBudget =>
    budgets[orders[o].budgetId].status = "APROVADO"

OrdersConsistent == \A o \in Orders : Told(orders[o]) /\ Budgeted(orders[o])

SerialTables ==
  /\ AbsentIsBlank /\ BudgetsHaveOrders /\ LinkedIsApproved
  /\ OrdersConsistent /\ VersionsAreUnique

SerialInv == LinkInv /\ SerialTables /\ InHand

-----------------------------------------------------------------------------
(* The entity operators keep a history in one piece, and its budget.       *)

LEMMA SameColumnsKeep ==
  ASSUME NEW a, NEW b, SameColumns(a, b), Told(b), Budgeted(b)
  PROVE  Told(a) /\ Budgeted(a)
  BY DEF SameColumns, Told, Budgeted

LEMMA NewServiceOrderTold == Told(NewServiceOrder) /\ Budgeted(NewServiceOrder)
  BY DEF Told, Budgeted, NewServiceOrder, Entry, InExecution

LEMMA ChangeStatusTold ==
  ASSUME NEW so \in OrderRow, NEW to, NEW by, Told(so)
  PROVE  Told(ChangeStatus(so, to, by)) /\ ChangeStatus(so, to, by).status = to
<1> DEFINE old == so.history
           h == ChangeStatus(so, to, by).history
<1>1. ChangeStatus(so, to, by).status = to
  BY DEF ChangeStatus, OrderRow
<1>2. /\ Len(h) = Len(old) + 1 /\ h[Len(h)] = Entry(so.status, to, by)
      /\ \A i \in 1..Len(old) : h[i] = old[i]
      /\ Len(old) \in Nat /\ Len(old) > 0
  BY ChangeStatusHistory DEF Told
<1>3. h[Len(h)].from = so.status /\ h[Len(h)].to = to
  BY <1>2 DEF Entry
<1> HIDE DEF h
<1>4. h[1].from = "none"
  <2>1. h[1] = old[1]
    BY <1>2
  <2>. QED
    BY <2>1 DEF Told
<1>5. ASSUME NEW i \in 2..Len(h)  PROVE  h[i].from = h[i - 1].to
  <2>1. CASE i = Len(h)
    <3>1. h[i - 1] = old[Len(old)]
      BY <1>2, <2>1
    <3>. QED
      BY <1>3, <2>1, <3>1 DEF Told
  <2>2. CASE i # Len(h)
    <3>1. i \in 2..Len(old) /\ h[i] = old[i] /\ h[i - 1] = old[i - 1]
      BY <1>2, <2>2
    <3>. QED
      BY <3>1 DEF Told
  <2>. QED
    BY <2>1, <2>2
<1>. QED
  BY <1>1, <1>2, <1>3, <1>4, <1>5 DEF Told, h

LEMMA ChangeStatusBudgeted ==
  ASSUME NEW so \in OrderRow, NEW to, NEW by, Budgeted(so), CanChangeStatus(so, to)
  PROVE  Budgeted(ChangeStatus(so, to, by))
<1>1. /\ ChangeStatus(so, to, by).status = to
      /\ ChangeStatus(so, to, by).budgetId = so.budgetId
  BY DEF ChangeStatus, OrderRow
<1>. QED
  BY <1>1 DEF Budgeted, CanChangeStatus, ALLOWED_TRANSITIONS, InExecution

\* What advanceToAwaitingApproval does to the other columns.
LEMMA AdvanceColumns ==
  ASSUME NEW so \in OrderRow
  PROVE  LET to == AdvanceToAwaitingApproval(so)
         IN  \/ to = so
             \/ /\ to.status = "AGUARDANDO_APROVACAO"
                /\ so.status \in {"RECEBIDA", "EM_DIAGNOSTICO", "EM_EXECUCAO"}
                /\ to.budgetId = IF so.status = "EM_EXECUCAO" THEN NoBudget
                                 ELSE so.budgetId
  BY DEF AdvanceToAwaitingApproval, ChangeStatus, ClearBudget, OrderRow

LEMMA AdvanceRespects ==
  ASSUME NEW a \in OrderRow, NEW b \in OrderRow, SameColumns(a, b)
  PROVE  SameColumns(AdvanceToAwaitingApproval(a), AdvanceToAwaitingApproval(b))
  BY DEF SameColumns, AdvanceToAwaitingApproval, ChangeStatus, ClearBudget, OrderRow

LEMMA AdvanceTold ==
  ASSUME NEW so \in OrderRow, Told(so)
  PROVE  Told(AdvanceToAwaitingApproval(so))
<1>1. Told(ChangeStatus(so, "AGUARDANDO_APROVACAO", "system"))
  BY ChangeStatusTold
<1>2. Told(ChangeStatus(ClearBudget(so), "AGUARDANDO_APROVACAO", "system"))
  <2>1. ClearBudget(so) \in OrderRow
    BY LinkType
  <2>2. Told(ClearBudget(so))
    BY DEF Told, ClearBudget, OrderRow
  <2>. QED
    BY <2>1, <2>2, ChangeStatusTold
<1>3. Told(ChangeStatus(ChangeStatus(so, "EM_DIAGNOSTICO", "system"),
                        "AGUARDANDO_APROVACAO", "system"))
  <2>1. ChangeStatus(so, "EM_DIAGNOSTICO", "system") \in OrderRow
    BY ChangeStatusType DEF ServiceOrderStatus
  <2>. QED
    BY <2>1, ChangeStatusTold
<1>. QED
  BY <1>1, <1>2, <1>3 DEF AdvanceToAwaitingApproval

LEMMA AdvanceBudgeted ==
  ASSUME NEW so \in OrderRow, Budgeted(so)
  PROVE  Budgeted(AdvanceToAwaitingApproval(so))
  BY AdvanceColumns DEF Budgeted, InExecution
\* What a request intends does not depend on whether its row was deleted.
LEMMA OneChangeRespects ==
  ASSUME NEW r, NEW a \in OrderRow, NEW b \in OrderRow, SameColumns(b, a),
         OneChange(r, a)
  PROVE  OneChange(r, b)
<1>1. /\ \A bid : SameColumns(SetBudget(b, bid), SetBudget(a, bid))
      /\ \A to, by : SameColumns(ChangeStatus(b, to, by), ChangeStatus(a, to, by))
      /\ \A to : CanChangeStatus(a, to) => CanChangeStatus(b, to)
  BY DEF SameColumns, SetBudget, ChangeStatus, CanChangeStatus, OrderRow
<1>2. SameColumns(AdvanceToAwaitingApproval(b), AdvanceToAwaitingApproval(a))
  BY AdvanceRespects
<1>3. \A x, y, z : SameColumns(x, y) /\ SameColumns(z, y) => SameColumns(x, z)
  BY DEF SameColumns
<1>4. CASE SameColumns(r.entity, a)
  BY <1>3, <1>4 DEF OneChange
<1>5. CASE LinksOnly(r, a)
  BY <1>1, <1>3, <1>5 DEF OneChange, LinksOnly
<1>6. CASE MovesOnly(r, a)
  BY <1>1, <1>3, <1>6 DEF OneChange, MovesOnly
<1>7. CASE AdvancesOnly(r, a)
  BY <1>2, <1>3, <1>7 DEF OneChange, AdvancesOnly
<1>. QED
  BY <1>4, <1>5, <1>6, <1>7 DEF OneChange

-----------------------------------------------------------------------------
(* The steps, one by one.  The only request in flight is the one that steps. *)

LEMMA InHandStep ==
  ASSUME OneAtATime, NEW w \in Workers,
         QuoteInHand(req[w])', DecisionInHand(req[w])', OrderInHand(req[w])'
  PROVE  InHand'
  BY DEF InHand, OneAtATime

LEMMA FinishInHand ==
  ASSUME Typed, OneAtATime, NEW w \in Workers, Finish(w)
  PROVE  InHand'
<1>1. req'[w].step = "idle" /\ req'[w].op = "none"
  BY DEF Finish, Typed, Idle
<1>2. QuoteInHand(req[w])' /\ DecisionInHand(req[w])' /\ OrderInHand(req[w])'
  BY <1>1 DEF QuoteInHand, DecisionInHand, OrderInHand
<1>. QED
  BY <1>2, InHandStep

LEMMA TablesStay ==
  ASSUME SerialTables, UNCHANGED <<orders, budgets>>
  PROVE  SerialTables'
  BY DEF SerialTables, AbsentIsBlank, BudgetsHaveOrders, LinkedIsApproved,
         OrdersConsistent, VersionsAreUnique, LiveBudgetsOf

LEMMA SerialTypes ==
  ASSUME LinkInv, NEW w \in Workers
  PROVE  /\ req \in [Workers -> Request] /\ req[w] \in SoundRequest /\ req[w] \in Request
         /\ req[w].entity \in OrderRow /\ req[w].dirty \in SUBSET OrderColumn
         /\ orders \in [Orders -> OrderRow] /\ budgets \in [Budgets -> BudgetRow]
  BY DEF LinkInv, Typed, TypeOK, SoundRequest, Request

\* What a new request has in hand.
LEMMA ArrivalSerial ==
  ASSUME SerialInv, OneAtATime, NEW w \in Workers, Arrival(w)
  PROVE  SerialTables' /\ InHand'
<1>1. req \in [Workers -> Request] /\ orders \in [Orders -> OrderRow]
  BY SerialTypes DEF SerialInv
<1>2. UNCHANGED tables
  BY DEF Arrival, StartCreate, StartCreateWithItems, StartQuote, StartApprove,
         StartRefuse, StartChangeStatus, StartEditOrder, StartAdjustStock, StartEditPart
<1>3. SUFFICES QuoteInHand(req[w])' /\ DecisionInHand(req[w])' /\ OrderInHand(req[w])'
  BY <1>2, InHandStep, TablesStay DEF SerialInv, tables
<1>4. ASSUME NEW o \in Orders, StartCreate(w, o)
      PROVE  /\ req'[w].step = "insertOrder" /\ req'[w].op = "create"
             /\ orders'[req'[w].oid].row = "absent" /\ req'[w].entity = NewServiceOrder
  BY <1>1, <1>2, <1>4 DEF StartCreate, Arrive, Idle, FreshOrder, tables
<1>5. ASSUME NEW o \in Orders, NEW b \in Budgets, NEW d \in Demands,
             StartCreateWithItems(w, o, b, d)
      PROVE  /\ req'[w].step = "insertOrder" /\ req'[w].op = "create"
             /\ orders'[req'[w].oid].row = "absent" /\ req'[w].entity = NewServiceOrder
  BY <1>1, <1>2, <1>5 DEF StartCreateWithItems, Arrive, Idle, FreshOrder, tables
<1>6. ASSUME NEW o \in Orders, NEW b \in Budgets, NEW d \in Demands,
             StartQuote(w, o, b, d)
      PROVE  /\ req'[w].step = "resolve" /\ req'[w].op = "quote"
             /\ orders'[req'[w].oid].row # "absent"
             /\ req'[w].entity = orders'[req'[w].oid]
  <2>1. req'[w].step = "resolve" /\ req'[w].op = "quote" /\ req'[w].oid = o
        /\ req'[w].entity = orders[o]
    BY <1>1, <1>6 DEF StartQuote, Arrive, Idle
  <2>. QED
    BY <1>2, <1>6, <2>1 DEF StartQuote, tables
<1>7. ASSUME NEW b \in Budgets, StartApprove(w, b)
      PROVE  /\ req'[w].step \in {"readParts", "saveBudget"} /\ req'[w].op = "approve"
             /\ budgets'[req'[w].bid].status = "PENDENTE"
  <2> DEFINE first == IF Asked(budgets[b].demand) = {} THEN "saveBudget" ELSE "readParts"
  <2>1. req'[w].step = first /\ req'[w].op = "approve" /\ req'[w].bid = b
    <3> HIDE DEF first
    <3>. QED  BY <1>1, <1>7 DEF first, StartApprove, Arrive, Idle
  <2>. QED
    BY <1>2, <1>7, <2>1 DEF StartApprove, tables
<1>8. ASSUME NEW b \in Budgets, StartRefuse(w, b)
      PROVE  /\ req'[w].step = "saveBudget" /\ req'[w].op = "refuse"
             /\ budgets'[req'[w].bid].status = "PENDENTE"
  BY <1>1, <1>2, <1>8 DEF StartRefuse, Arrive, Idle, tables
<1>9. ASSUME NEW o \in Orders, NEW to \in ServiceOrderStatus, StartChangeStatus(w, o, to)
      PROVE  /\ req'[w].step = "saveOrder" /\ req'[w].op = "changeStatus"
             /\ orders'[req'[w].oid].row # "absent"
             /\ CanChangeStatus(orders[req'[w].oid], to)
             /\ req'[w].entity = ChangeStatus(orders[req'[w].oid], to, "staff")
  <2>1. req'[w].step = "saveOrder" /\ req'[w].op = "changeStatus" /\ req'[w].oid = o
        /\ req'[w].entity = ChangeStatus(orders[o], to, "staff")
    BY <1>1, <1>9, ZenonT(60) DEF StartChangeStatus, Arrive, Idle
  <2>. QED
    BY <1>2, <1>9, <2>1 DEF StartChangeStatus, tables
<1>10. ASSUME NEW o \in Orders, StartEditOrder(w, o)
       PROVE  /\ req'[w].step = "saveOrder" /\ req'[w].op = "editOrder"
              /\ orders'[req'[w].oid].row # "absent"
              /\ req'[w].entity = orders[req'[w].oid]
  <2>1. req'[w].step = "saveOrder" /\ req'[w].op = "editOrder" /\ req'[w].oid = o
        /\ req'[w].entity = orders[o]
    BY <1>1, <1>10 DEF StartEditOrder, Arrive, Idle
  <2>. QED
    BY <1>2, <1>10, <2>1 DEF StartEditOrder, tables
<1>11. ASSUME NEW p \in Parts, NEW q \in Adjustments, StartAdjustStock(w, p, q)
       PROVE  req'[w].step = "saveParts" /\ req'[w].op = "adjustStock"
  BY <1>1, <1>11, ZenonT(60) DEF StartAdjustStock, Arrive, Idle
<1>12. ASSUME NEW p \in Parts, StartEditPart(w, p)
       PROVE  req'[w].step = "saveParts" /\ req'[w].op = "editPart"
  BY <1>1, <1>12, ZenonT(60) DEF StartEditPart, Arrive, Idle
<1>13. QuoteInHand(req[w])'
  BY <1>4, <1>5, <1>6, <1>7, <1>8, <1>9, <1>10, <1>11, <1>12
  DEF Arrival, QuoteInHand, SameColumns
<1>14. DecisionInHand(req[w])'
  BY <1>4, <1>5, <1>6, <1>7, <1>8, <1>9, <1>10, <1>11, <1>12 DEF Arrival, DecisionInHand
<1>15. OrderInHand(req[w])'
  <2>1. SUFFICES ASSUME req'[w].step \in {"saveOrder", "updateOrder"}
                 PROVE  /\ req'[w].step = "saveOrder"
                        /\ req'[w].op \in {"changeStatus", "editOrder"}
                        /\ orders'[req'[w].oid].row # "absent"
                        /\ OneChange(req[w], orders[req[w].oid])'
    BY DEF OrderInHand
  <2>2. ASSUME NEW o \in Orders, StartEditOrder(w, o)
        PROVE  OneChange(req[w], orders[req[w].oid])'
    BY <1>2, <1>10, <2>2 DEF OneChange, SameColumns, tables
  <2>3. ASSUME NEW o \in Orders, NEW to \in ServiceOrderStatus, StartChangeStatus(w, o, to)
        PROVE  OneChange(req[w], orders[req[w].oid])'
    BY <1>2, <1>9, <2>3 DEF OneChange, MovesOnly, SameColumns, tables
  <2>. QED
    BY <2>1, <1>4, <1>5, <1>6, <1>7, <1>8, <1>9, <1>10, <1>11, <1>12, <2>2, <2>3
    DEF Arrival
<1>. QED
  BY <1>13, <1>14, <1>15

\* Steps that only move a request on: resolve, read and save parts, compare.
LEMMA MovingOnSerial ==
  ASSUME SerialInv, OneAtATime, NEW w \in Workers,
         ResolveLines(w) \/ \E p \in Parts : ReadPart(w, p) \/ SavePart(w, p)
  PROVE  SerialTables' /\ InHand'
<1>1. req \in [Workers -> Request] /\ req[w] \in SoundRequest
  BY SerialTypes DEF SerialInv
<1>2. UNCHANGED <<orders, budgets>>
  BY DEF ResolveLines, ReadPart, SavePart, tables
<1>3. SerialTables'
  BY <1>2, TablesStay DEF SerialInv
<1>4. CASE Finish(w)
  BY <1>3, <1>4, FinishInHand DEF SerialInv, LinkInv
<1>5. CASE ResolveLines(w) /\ ~Finish(w)
  <2>1. /\ req[w].step = "resolve" /\ req'[w].step = "findLatest" /\ req'[w].op = req[w].op
        /\ req'[w].oid = req[w].oid /\ req'[w].entity = req[w].entity
        /\ req[w].op = "quote"
    BY <1>1, <1>5 DEF ResolveLines, GoTo, Request, SoundRequest, RequestShape, Op
  <2>2. orders'[req'[w].oid].row # "absent"
        /\ SameColumns(req'[w].entity, orders'[req'[w].oid])
    BY <1>2, <2>1 DEF SerialInv, InHand, QuoteInHand
  <2>3. QuoteInHand(req[w])' /\ DecisionInHand(req[w])' /\ OrderInHand(req[w])'
    BY <2>1, <2>2 DEF QuoteInHand, DecisionInHand, OrderInHand, SameColumns
  <2>. QED
    BY <1>3, <2>3, InHandStep
<1>6. ASSUME NEW p \in Parts, ReadPart(w, p) \/ SavePart(w, p), ~Finish(w)
      PROVE  InHand'
  <2>1. /\ req[w].step \in {"readParts", "saveParts"}
        /\ req'[w].step \in {"readParts", "saveParts", "saveBudget"}
        /\ req'[w].op = req[w].op /\ req'[w].bid = req[w].bid
    <3>1. CASE ReadPart(w, p)
      <4>1. PICK s \in {"saveParts", "readParts"} : AfterReading(req[w].toRead \ {p}) = s
        BY DEF AfterReading
      <4> DEFINE r == [req[w] EXCEPT !.stock[p] = parts[p].stock,
                         !.toRead = @ \ {p}, !.toSave = @ \union {p}, !.step = s]
      <4>2. req' = [req EXCEPT ![w] = r] /\ req[w].step = "readParts"
        BY <1>6, <3>1, <4>1 DEF ReadPart
      <4>3. r.step = s /\ r.op = req[w].op /\ r.bid = req[w].bid
        BY <1>1 DEF Request
      <4> HIDE DEF r
      <4>. QED
        BY <1>1, <4>2, <4>3
    <3>2. CASE SavePart(w, p)
      BY <1>1, <1>6, <3>2 DEF SavePart, Request
    <3>. QED
      BY <1>6, <3>1, <3>2
  <2>2. QuoteInHand(req[w])' /\ DecisionInHand(req[w])' /\ OrderInHand(req[w])'
    BY <1>2, <2>1 DEF QuoteInHand, DecisionInHand, OrderInHand, SerialInv, InHand
  <2>. QED
    BY <2>2, InHandStep
<1>. QED
  BY <1>3, <1>4, <1>5, <1>6

LEMMA InsertOrderSerial ==
  ASSUME SerialInv, OneAtATime, NEW w \in Workers, InsertOrder(w)
  PROVE  SerialTables' /\ InHand'
<1> DEFINE o == req[w].oid
<1>1. /\ req \in [Workers -> Request] /\ req[w] \in SoundRequest
      /\ orders \in [Orders -> OrderRow] /\ budgets \in [Budgets -> BudgetRow]
  BY SerialTypes DEF SerialInv
<1>2. req[w].step = "insertOrder" /\ req[w].op = "create" /\ o \in Orders
      /\ orders[o].row = "absent" /\ budgets' = budgets
  BY <1>1 DEF InsertOrder, SoundRequest, RequestShape, Request, Op, SerialInv, InHand,
              QuoteInHand
<1>3. /\ orders'[o] = NewServiceOrder /\ orders'[o].row = "live"
      /\ orders'[o].budgetId = NoBudget
      /\ \A c \in Orders \ {o} : orders'[c] = orders[c]
      /\ \A c \in Orders : orders[c].row # "absent" => orders'[c] = orders[c]
  BY <1>1, <1>2 DEF InsertOrder, NewServiceOrder
<1>4. SerialTables'
  <2>1. AbsentIsBlank'
    BY <1>2, <1>3 DEF SerialInv, SerialTables, AbsentIsBlank
  <2>2. BudgetsHaveOrders'
    <3>1. \A b \in Budgets : budgets[b].row # "absent" => budgets[b].order \in Orders
      BY DEF SerialInv, LinkInv, Typed, Owned
    <3>. QED
      BY <1>2, <1>3, <3>1 DEF SerialInv, SerialTables, BudgetsHaveOrders
  <2>3. LinkedIsApproved'
    BY <1>2, <1>3 DEF SerialInv, SerialTables, LinkedIsApproved
  <2>4. OrdersConsistent'
    BY <1>3, NewServiceOrderTold DEF SerialInv, SerialTables, OrdersConsistent
  <2>5. VersionsAreUnique'
    BY <1>2 DEF SerialInv, SerialTables, VersionsAreUnique, LiveBudgetsOf
  <2>. QED
    BY <2>1, <2>2, <2>3, <2>4, <2>5 DEF SerialTables
<1>5. CASE Finish(w)
  BY <1>4, <1>5, FinishInHand DEF SerialInv, LinkInv
<1>6. CASE GoTo(w, "insertBudget")
  <2>1. /\ req'[w].step = "insertBudget" /\ req'[w].op = "create" /\ req'[w].oid = o
        /\ req'[w].entity = req[w].entity
    BY <1>1, <1>2, <1>6 DEF GoTo, Request
  <2>2. req[w].entity = NewServiceOrder
    BY <1>2 DEF SerialInv, InHand, QuoteInHand
  <2>3. LiveBudgetsOf(o) = {}
    BY <1>1, <1>2 DEF SerialInv, SerialTables, BudgetsHaveOrders, LiveBudgetsOf
  <2>4. \A b \in Budgets : ~(budgets'[b].row = "live" /\ budgets'[b].order = req'[w].oid)
    BY <1>2, <2>1, <2>3 DEF LiveBudgetsOf
  <2>5. QuoteInHand(req[w])' /\ DecisionInHand(req[w])' /\ OrderInHand(req[w])'
    BY <1>3, <2>1, <2>2, <2>4
    DEF QuoteInHand, DecisionInHand, OrderInHand, SameColumns, LiveBudgetsOf
  <2>. QED
    BY <1>4, <2>5, InHandStep
<1>. QED
  BY <1>4, <1>5, <1>6 DEF InsertOrder

LEMMA FindLatestSerial ==
  ASSUME SerialInv, OneAtATime, NEW w \in Workers, FindLatest(w)
  PROVE  SerialTables' /\ InHand'
<1>1. /\ req \in [Workers -> Request] /\ req[w] \in SoundRequest
      /\ budgets \in [Budgets -> BudgetRow]
  BY SerialTypes DEF SerialInv
<1>2. req[w].step = "findLatest" /\ req[w].op = "quote" /\ UNCHANGED <<orders, budgets>>
  BY <1>1 DEF FindLatest, SoundRequest, RequestShape, Request, Op, tables
<1>3. PICK v \in NextVersions(req[w].oid) :
        req' = [req EXCEPT ![w].version = v, ![w].step = "insertBudget"]
  BY DEF FindLatest
<1>4. \A b \in LiveBudgetsOf(req[w].oid) : budgets[b].version < v
  <2>1. \A b \in LiveBudgetsOf(req[w].oid) : budgets[b].version \in Nat
    BY <1>1 DEF LiveBudgetsOf, BudgetRow
  <2>2. CASE LiveBudgetsOf(req[w].oid) # {}
    <3>1. PICK latest \in LatestBudgetsOf(req[w].oid) : v = budgets[latest].version + 1
      BY <1>3, <2>2 DEF NextVersions
    <3>. QED
      BY <2>1, <3>1 DEF LatestBudgetsOf
  <2>. QED
    BY <2>2
<1>5. /\ req'[w].step = "insertBudget" /\ req'[w].version = v /\ req'[w].op = req[w].op
      /\ req'[w].oid = req[w].oid /\ req'[w].entity = req[w].entity
  <2> DEFINE r == [req[w] EXCEPT !.version = v, !.step = "insertBudget"]
  <2>1. req' = [req EXCEPT ![w] = r]
    BY <1>3
  <2>2. /\ r.step = "insertBudget" /\ r.version = v /\ r.op = req[w].op
        /\ r.oid = req[w].oid /\ r.entity = req[w].entity
    BY <1>1 DEF Request
  <2> HIDE DEF r
  <2>. QED
    BY <1>1, <2>1, <2>2
<1>6. orders[req[w].oid].row # "absent" /\ SameColumns(req[w].entity, orders[req[w].oid])
  BY <1>2 DEF SerialInv, InHand, QuoteInHand
<1>7. QuoteInHand(req[w])' /\ DecisionInHand(req[w])' /\ OrderInHand(req[w])'
  BY <1>2, <1>4, <1>5, <1>6
  DEF QuoteInHand, DecisionInHand, OrderInHand, SameColumns, LiveBudgetsOf
<1>. QED
  BY <1>2, <1>7, TablesStay, InHandStep DEF SerialInv

LEMMA InsertBudgetSerial ==
  ASSUME SerialInv, OneAtATime, NEW w \in Workers, InsertBudget(w)
  PROVE  SerialTables' /\ InHand'
<1> DEFINE b == req[w].bid
           o == req[w].oid
<1>1. /\ req \in [Workers -> Request] /\ req[w] \in SoundRequest
      /\ req[w].entity \in OrderRow /\ budgets \in [Budgets -> BudgetRow]
  BY SerialTypes DEF SerialInv
<1>2. /\ req[w].step = "insertBudget" /\ req[w].op \in {"create", "quote"}
      /\ o \in Orders /\ b \in Budgets /\ orders' = orders
  BY <1>1 DEF InsertBudget, SoundRequest, RequestShape, Request, Op
<1>3. budgets[b].row = "absent" /\ budgets[b].status = "PENDENTE"
  BY <1>2, NoneAssumption
  DEF SerialInv, LinkInv, QuotesAreFresh, AbsentIsUndecided, Quoting
<1>4. /\ budgets'[b].row = "live" /\ budgets'[b].order = o
      /\ budgets'[b].version = req[w].version /\ budgets'[b].status = "PENDENTE"
      /\ \A c \in Budgets \ {b} : budgets'[c] = budgets[c]
  BY <1>1, <1>2 DEF InsertBudget, NewBudget
<1>5. /\ orders[o].row # "absent" /\ SameColumns(req[w].entity, orders[o])
      /\ \A c \in LiveBudgetsOf(o) : budgets[c].version < req[w].version
  BY <1>2 DEF SerialInv, InHand, QuoteInHand
<1>6. SerialTables'
  <2>1. AbsentIsBlank' /\ BudgetsHaveOrders' /\ OrdersConsistent'
    BY <1>2, <1>4, <1>5
    DEF SerialInv, SerialTables, AbsentIsBlank, BudgetsHaveOrders, OrdersConsistent
  <2>2. LinkedIsApproved'
    <3>1. \A c \in Orders : orders[c].budgetId # NoBudget =>
            orders[c].budgetId \in Budgets /\ orders[c].budgetId # b
      BY <1>3 DEF SerialInv, LinkInv, LinkedBudgetWasDecided, DecidedBudgetOf
    <3>. QED
      BY <1>2, <1>4, <3>1 DEF SerialInv, SerialTables, LinkedIsApproved
  <2>3. VersionsAreUnique'
    <3>1. SUFFICES ASSUME NEW c \in Orders, NEW x \in Budgets, NEW y \in Budgets,
                          budgets'[x].row = "live", budgets'[x].order = c,
                          budgets'[y].row = "live", budgets'[y].order = c,
                          budgets'[x].version = budgets'[y].version, x # y
                   PROVE  FALSE
      BY DEF VersionsAreUnique, LiveBudgetsOf
    <3>2. \A z \in Budgets : budgets[z].version \in Nat
      BY <1>1 DEF BudgetRow
    <3>3. req[w].version \in Nat
      BY <1>1 DEF Request
    <3>4. CASE x # b /\ y # b
      BY <1>4, <3>1, <3>4 DEF SerialInv, SerialTables, VersionsAreUnique, LiveBudgetsOf
    <3>5. CASE x = b
      BY <1>4, <1>5, <3>1, <3>2, <3>3, <3>5 DEF LiveBudgetsOf
    <3>6. CASE y = b
      BY <1>4, <1>5, <3>1, <3>2, <3>3, <3>6 DEF LiveBudgetsOf
    <3>. QED
      BY <3>4, <3>5, <3>6
  <2>. QED
    BY <2>1, <2>2, <2>3 DEF SerialTables
<1>7. /\ req'[w].step = "saveOrder" /\ req'[w].op = req[w].op /\ req'[w].oid = o
      /\ req'[w].entity = AdvanceToAwaitingApproval(req[w].entity)
  BY <1>1 DEF InsertBudget, Request
<1>8. SameColumns(AdvanceToAwaitingApproval(req[w].entity),
                  AdvanceToAwaitingApproval(orders[o]))
  <2>1. orders[o] \in OrderRow
    BY <1>2, SerialTypes DEF SerialInv
  <2>. QED
    BY <1>1, <1>5, <2>1, AdvanceRespects
<1>9. OrderInHand(req[w])'
  <2>1. HasBudget(req[w].oid)'
    BY <1>2, <1>4, <1>7 DEF HasBudget
  <2>. QED
    BY <1>2, <1>5, <1>7, <1>8, <2>1 DEF OrderInHand, OneChange, AdvancesOnly, SameColumns
<1>10. QuoteInHand(req[w])' /\ DecisionInHand(req[w])'
  BY <1>2, <1>7 DEF QuoteInHand, DecisionInHand
<1>. QED
  BY <1>6, <1>9, <1>10, InHandStep

\* Nobody else decides meanwhile: the decision that is saved is the first.
LEMMA SavesFirstDecision ==
  ASSUME SerialInv, NEW w \in Workers, SaveBudget(w)
  PROVE  /\ req[w].op \in {"approve", "refuse"} /\ req[w].bid \in Budgets
         /\ budgets[req[w].bid].status = "PENDENTE"
         /\ budgets[req[w].bid].row # "absent"
         /\ budgets[req[w].bid].order = req[w].oid
<1>1. req[w] \in SoundRequest /\ req[w].step = "saveBudget"
  BY SerialTypes DEF SerialInv, SaveBudget
<1>2. req[w].op \in {"approve", "refuse"} /\ req[w].bid \in Budgets
  BY <1>1 DEF SoundRequest, RequestShape, Request, Op
<1>. QED
  BY <1>1, <1>2 DEF SerialInv, InHand, DecisionInHand, LinkInv, DecisionsAreSaved

LEMMA SaveBudgetSerial ==
  ASSUME SerialInv, OneAtATime, NEW w \in Workers, SaveBudget(w)
  PROVE  SerialTables' /\ InHand'
<1> DEFINE b == req[w].bid
<1>1. /\ req \in [Workers -> Request] /\ budgets \in [Budgets -> BudgetRow]
  BY SerialTypes DEF SerialInv
<1>2. /\ req[w].op \in {"approve", "refuse"} /\ b \in Budgets
      /\ budgets[b].status = "PENDENTE" /\ req[w].step = "saveBudget"
  BY SavesFirstDecision DEF SaveBudget
<1>3. /\ orders' = orders
      /\ budgets'[b].status = Verdict(req[w].op)
      /\ \A c \in Budgets \ {b} : budgets'[c] = budgets[c]
      /\ \A c \in Budgets : /\ budgets'[c].row = budgets[c].row
                            /\ budgets'[c].order = budgets[c].order
                            /\ budgets'[c].version = budgets[c].version
  BY <1>1, <1>2 DEF SaveBudget, BudgetRow
<1>4. SerialTables'
  <2>1. AbsentIsBlank' /\ BudgetsHaveOrders' /\ OrdersConsistent'
    BY <1>3
    DEF SerialInv, SerialTables, AbsentIsBlank, BudgetsHaveOrders, OrdersConsistent
  <2>2. VersionsAreUnique'
    BY <1>3 DEF SerialInv, SerialTables, VersionsAreUnique, LiveBudgetsOf
  <2>3. LinkedIsApproved'
    <3>1. \A o \in Orders : orders[o].budgetId # NoBudget =>
            orders[o].budgetId \in Budgets /\ orders[o].budgetId # b
      BY <1>2 DEF SerialInv, LinkInv, LinkedBudgetWasDecided, DecidedBudgetOf
    <3>. QED
      BY <1>3, <3>1 DEF SerialInv, SerialTables, LinkedIsApproved
  <2>. QED
    BY <2>1, <2>2, <2>3 DEF SerialTables
<1>5. /\ req'[w].step = "findOrder" /\ req'[w].op = req[w].op /\ req'[w].bid = b
  BY <1>1 DEF SaveBudget, GoTo, Request
<1>6. QuoteInHand(req[w])' /\ DecisionInHand(req[w])' /\ OrderInHand(req[w])'
  BY <1>3, <1>5 DEF QuoteInHand, DecisionInHand, OrderInHand
<1>. QED
  BY <1>4, <1>6, InHandStep

LEMMA FindOrderSerial ==
  ASSUME SerialInv, OneAtATime, NEW w \in Workers, FindOrder(w)
  PROVE  SerialTables' /\ InHand'
<1> DEFINE o == req[w].oid
<1>1. /\ req \in [Workers -> Request] /\ req[w] \in SoundRequest
  BY SerialTypes DEF SerialInv
<1>2. /\ req[w].step = "findOrder" /\ UNCHANGED <<orders, budgets>>
      /\ req[w].op \in {"approve", "refuse"}
  BY <1>1 DEF FindOrder, tables, SoundRequest, RequestShape, Request, Op
<1>3. SerialTables'
  BY <1>2, TablesStay DEF SerialInv
<1>4. CASE Finish(w)
  BY <1>3, <1>4, FinishInHand DEF SerialInv, LinkInv
<1>5. CASE ~Finish(w)
  <2>1. /\ req'[w].step = "saveOrder" /\ req'[w].op = req[w].op /\ req'[w].bid = req[w].bid
        /\ req'[w].oid = o /\ orders[o].row = "live"
        /\ req[w].op = "refuse" => orders[o].status = "AGUARDANDO_APROVACAO"
    BY <1>1, <1>5 DEF FindOrder, Request
  <2>2. req'[w].entity = IF req[w].op = "approve" THEN SetBudget(orders[o], req[w].bid)
                         ELSE ChangeStatus(orders[o], "ENCERRADA_SEM_EXECUCAO", "system")
    BY <1>1, <1>5 DEF FindOrder, Request
  <2>3. DecisionInHand(req[w])'
    BY <1>2, <2>1 DEF SerialInv, InHand, DecisionInHand
  <2>4. OneChange(req[w], orders[req[w].oid])'
    <3>1. CASE req[w].op = "approve"
      BY <1>2, <2>1, <2>2, <3>1 DEF OneChange, LinksOnly, SameColumns
    <3>2. CASE req[w].op = "refuse"
      <4>1. /\ CanChangeStatus(orders[o], "ENCERRADA_SEM_EXECUCAO")
            /\ "ENCERRADA_SEM_EXECUCAO" \in ServiceOrderStatus
        BY <2>1, <3>2 DEF CanChangeStatus, ALLOWED_TRANSITIONS, ServiceOrderStatus
      <4>. QED
        BY <1>2, <2>1, <2>2, <3>2, <4>1 DEF OneChange, MovesOnly, SameColumns
    <3>. QED
      BY <1>2, <3>1, <3>2
  <2>5. QuoteInHand(req[w])' /\ OrderInHand(req[w])'
    BY <1>2, <2>1, <2>4 DEF QuoteInHand, OrderInHand
  <2>. QED
    BY <1>3, <2>3, <2>5, InHandStep
<1>. QED
  BY <1>4, <1>5

LEMMA SaveOrderSerial ==
  ASSUME SerialInv, OneAtATime, NEW w \in Workers, SaveOrder(w)
  PROVE  SerialTables' /\ InHand'
<1> DEFINE o == req[w].oid
<1>1. /\ req \in [Workers -> Request]
  BY SerialTypes DEF SerialInv
<1>2. req[w].step = "saveOrder" /\ UNCHANGED <<orders, budgets>>
  BY DEF SaveOrder, tables
<1>3. /\ req'[w].step = "updateOrder" /\ req'[w].op = req[w].op /\ req'[w].bid = req[w].bid
      /\ req'[w].oid = o /\ req'[w].entity = req[w].entity
      /\ Differing(orders[o], req[w].entity) \subseteq req'[w].dirty
  BY <1>1 DEF SaveOrder, Request
<1>4. DirtyCovers(req[w], orders[req[w].oid])'
  BY <1>2, <1>3 DEF DirtyCovers, Differing, OrderColumn
<1>5. DecisionInHand(req[w])'
  BY <1>2, <1>3 DEF SerialInv, InHand, DecisionInHand
<1>6. OneChange(req[w], orders[req[w].oid])'
  BY <1>2, <1>3 DEF SerialInv, InHand, OrderInHand, OneChange, LinksOnly, MovesOnly,
                    AdvancesOnly
<1>7. HasBudget(req[w].oid) => HasBudget(req[w].oid)'
  BY <1>2, <1>3 DEF HasBudget
<1>8. QuoteInHand(req[w])' /\ OrderInHand(req[w])'
  BY <1>2, <1>3, <1>4, <1>6, <1>7 DEF QuoteInHand, OrderInHand, SerialInv, InHand
<1>. QED
  BY <1>2, <1>5, <1>8, TablesStay, InHandStep DEF SerialInv

\* The UPDATE brings the row to what the request holds, which is one change of it.
LEMMA SaveIsOneChange ==
  ASSUME SerialInv, NEW w \in Workers, UpdateOrder(w)
  PROVE  /\ req[w].oid \in Orders /\ orders[req[w].oid].row # "absent"
         /\ orders'[req[w].oid].row = orders[req[w].oid].row
         /\ SameColumns(orders'[req[w].oid], req[w].entity)
         /\ OneChange(req[w], orders[req[w].oid])
         /\ \A c \in Orders \ {req[w].oid} : orders'[c] = orders[c]
<1> DEFINE o == req[w].oid
           row == orders[o]
<1>1. /\ req[w] \in SoundRequest /\ orders \in [Orders -> OrderRow]
      /\ req[w].step = "updateOrder"
  BY SerialTypes DEF SerialInv, UpdateOrder
<1>2. o \in Orders
  BY <1>1 DEF SoundRequest, RequestShape, Request, Op
<1>3. row.row # "absent" /\ OneChange(req[w], row) /\ DirtyCovers(req[w], row)
  BY <1>1 DEF SerialInv, InHand, OrderInHand
<1>4. orders'[o] = Overwrite(row, req[w].entity, req[w].dirty)
  BY <1>1, <1>2 DEF UpdateOrder
<1>5. row \in OrderRow
  BY <1>1, <1>2
<1>6. SameColumns(orders'[o], req[w].entity) /\ orders'[o].row = row.row
  BY <1>3, <1>4, <1>5 DEF Overwrite, SameColumns, DirtyCovers, OrderRow
<1>7. \A c \in Orders \ {o} : orders'[c] = orders[c]
  BY <1>1 DEF UpdateOrder
<1>. QED
  BY <1>2, <1>3, <1>6, <1>7

\* One change of a consistent order is a consistent order.
LEMMA OneChangeKeeps ==
  ASSUME NEW row \in OrderRow, Told(row), Budgeted(row), NEW r \in Request,
         OneChange(r, row), r.op = "approve" => r.bid # NoBudget
  PROVE  /\ Told(r.entity) /\ Budgeted(r.entity)
         /\ \/ r.entity.budgetId \in {row.budgetId, NoBudget}
            \/ r.op = "approve" /\ r.entity.budgetId = r.bid
<1>1. CASE SameColumns(r.entity, row)
  BY <1>1, SameColumnsKeep DEF SameColumns
<1>2. CASE LinksOnly(r, row)
  BY <1>2 DEF LinksOnly, SameColumns, SetBudget, OrderRow, Told, Budgeted
<1>3. CASE MovesOnly(r, row)
  <2>1. PICK to \in ServiceOrderStatus, by \in {"system", "staff"} :
          /\ CanChangeStatus(row, to)
          /\ SameColumns(r.entity, ChangeStatus(row, to, by))
    BY <1>3 DEF MovesOnly
  <2>2. /\ Told(ChangeStatus(row, to, by)) /\ Budgeted(ChangeStatus(row, to, by))
    BY <2>1, ChangeStatusTold, ChangeStatusBudgeted
  <2>3. ChangeStatus(row, to, by).budgetId = row.budgetId
    BY DEF ChangeStatus, OrderRow
  <2>. QED
    BY <2>1, <2>2, <2>3, SameColumnsKeep DEF SameColumns
<1>4. CASE AdvancesOnly(r, row)
  <2>1. SameColumns(r.entity, AdvanceToAwaitingApproval(row))
    BY <1>4 DEF AdvancesOnly
  <2>2. AdvanceToAwaitingApproval(row).budgetId \in {row.budgetId, NoBudget}
    BY AdvanceColumns
  <2>. QED
    BY <2>1, <2>2, AdvanceTold, AdvanceBudgeted, SameColumnsKeep DEF SameColumns
<1>. QED
  BY <1>1, <1>2, <1>3, <1>4 DEF OneChange

LEMMA UpdateOrderSerial ==
  ASSUME SerialInv, OneAtATime, NEW w \in Workers, UpdateOrder(w)
  PROVE  SerialTables' /\ InHand'
<1> DEFINE o == req[w].oid
<1>1. /\ o \in Orders /\ orders[o].row # "absent" /\ orders'[o].row = orders[o].row
      /\ SameColumns(orders'[o], req[w].entity) /\ OneChange(req[w], orders[o])
      /\ \A c \in Orders \ {o} : orders'[c] = orders[c]
  BY SaveIsOneChange
<1>2. req[w] \in SoundRequest /\ req[w] \in Request /\ orders[o] \in OrderRow
  BY <1>1, SerialTypes DEF SerialInv
<1>3. req[w].op = "approve" =>
        /\ req[w].bid \in Budgets /\ req[w].bid # NoBudget
        /\ budgets[req[w].bid].status = "APROVADO"
  BY <1>2, NoneAssumption
  DEF UpdateOrder, SoundRequest, RequestShape, SerialInv, InHand, DecisionInHand, Verdict
<1>4. Told(orders[o]) /\ Budgeted(orders[o])
  BY <1>1 DEF SerialInv, SerialTables, OrdersConsistent
<1>5. /\ Told(orders'[o]) /\ Budgeted(orders'[o])
      /\ \/ orders'[o].budgetId \in {orders[o].budgetId, NoBudget}
         \/ req[w].op = "approve" /\ orders'[o].budgetId = req[w].bid
  BY <1>1, <1>2, <1>3, <1>4, OneChangeKeeps, SameColumnsKeep DEF SameColumns
<1>6. budgets' = budgets
  BY DEF UpdateOrder
<1>7. SerialTables'
  <2>1. AbsentIsBlank'
    BY <1>1, <1>6 DEF SerialInv, SerialTables, AbsentIsBlank
  <2>2. BudgetsHaveOrders'
    <3>1. \A b \in Budgets : budgets[b].row # "absent" => budgets[b].order \in Orders
      BY DEF SerialInv, LinkInv, Typed, Owned
    <3>. QED
      BY <1>1, <1>6, <3>1 DEF SerialInv, SerialTables, BudgetsHaveOrders
  <2>3. LinkedIsApproved'
    BY <1>1, <1>3, <1>5, <1>6 DEF SerialInv, SerialTables, LinkedIsApproved
  <2>4. OrdersConsistent'
    BY <1>1, <1>5 DEF SerialInv, SerialTables, OrdersConsistent
  <2>5. VersionsAreUnique'
    BY <1>6 DEF SerialInv, SerialTables, VersionsAreUnique, LiveBudgetsOf
  <2>. QED
    BY <2>1, <2>2, <2>3, <2>4, <2>5 DEF SerialTables
<1>. QED
  BY <1>7, FinishInHand DEF UpdateOrder, SerialInv, LinkInv

\* A deletion between two awaits of the request in flight.
LEMMA RemovalSerial ==
  ASSUME SerialInv, Removal
  PROVE  SerialTables' /\ InHand'
<1>1. /\ orders \in [Orders -> OrderRow] /\ budgets \in [Budgets -> BudgetRow]
      /\ req \in [Workers -> SoundRequest]
  BY DEF SerialInv, LinkInv, Typed, TypeOK
<1>2. req' = req
  BY DEF Removal, RemoveOrder, RemoveBudget, RemovePart
<1>3. \A o \in Orders :
        /\ orders'[o].row = "absent" <=> orders[o].row = "absent"
        /\ orders[o].row = "absent" => orders'[o] = orders[o]
        /\ SameColumns(orders'[o], orders[o])
  BY <1>1 DEF Removal, RemoveOrder, RemoveBudget, RemovePart, SameColumns, OrderRow
<1>4. \A b \in Budgets :
        /\ budgets'[b].row = "absent" <=> budgets[b].row = "absent"
        /\ budgets'[b].row = "live" => budgets[b].row = "live"
        /\ budgets'[b].order = budgets[b].order /\ budgets'[b].status = budgets[b].status
        /\ budgets'[b].version = budgets[b].version
  BY <1>1 DEF Removal, RemoveOrder, RemoveBudget, RemovePart, BudgetRow
<1>5. SerialTables'
  <2>1. AbsentIsBlank'
    BY <1>3, <1>4 DEF SerialInv, SerialTables, AbsentIsBlank
  <2>2. BudgetsHaveOrders'
    <3>1. \A b \in Budgets : budgets[b].row # "absent" => budgets[b].order \in Orders
      BY DEF SerialInv, LinkInv, Typed, Owned
    <3>. QED
      BY <1>3, <1>4, <3>1 DEF SerialInv, SerialTables, BudgetsHaveOrders
  <2>3. LinkedIsApproved'
    <3>1. \A o \in Orders : orders[o].budgetId # NoBudget => orders[o].budgetId \in Budgets
      BY DEF SerialInv, LinkInv, LinkedBudgetWasDecided, DecidedBudgetOf
    <3>. QED
      BY <1>3, <1>4, <3>1 DEF SerialInv, SerialTables, LinkedIsApproved, SameColumns
  <2>4. OrdersConsistent'
    BY <1>3, SameColumnsKeep DEF SerialInv, SerialTables, OrdersConsistent
  <2>5. VersionsAreUnique'
    BY <1>4 DEF SerialInv, SerialTables, VersionsAreUnique, LiveBudgetsOf
  <2>. QED
    BY <2>1, <2>2, <2>3, <2>4, <2>5 DEF SerialTables
<1>6. ASSUME NEW w \in Workers
      PROVE  QuoteInHand(req[w])' /\ DecisionInHand(req[w])' /\ OrderInHand(req[w])'
  <2> DEFINE r == req[w]
             o == r.oid
  <2>1. QuoteInHand(r) /\ DecisionInHand(r) /\ OrderInHand(r) /\ r \in SoundRequest
    BY <1>1 DEF SerialInv, InHand
  <2>2. /\ r.step \in Quoting \union {"saveOrder", "updateOrder"} => o \in Orders
        /\ r.op \in {"approve", "refuse"} => r.bid \in Budgets
    BY <2>1 DEF SoundRequest, RequestShape, Request, Op, Quoting
  <2>3. QuoteInHand(r)'
    BY <1>2, <1>3, <1>4, <2>1, <2>2
    DEF QuoteInHand, Quoting, SameColumns, LiveBudgetsOf
  <2>4. DecisionInHand(r)'
    BY <1>2, <1>4, <2>1, <2>2 DEF DecisionInHand
  <2>5. ASSUME r.step \in {"saveOrder", "updateOrder"}
        PROVE  OneChange(r, orders[o])'
    <3>1. /\ orders[o] \in OrderRow /\ orders'[o] \in OrderRow
          /\ SameColumns(orders'[o], orders[o])
      BY <1>1, <1>3, <2>2, <2>5, RemovalType DEF SerialInv, LinkInv, Typed, TypeOK
    <3>. QED
      BY <1>2, <2>1, <2>5, <3>1, OneChangeRespects DEF OrderInHand
  <2>6. HasBudget(o) => HasBudget(o)'
    BY <1>2, <1>4 DEF HasBudget
  <2>7. OrderInHand(r)'
    BY <1>2, <1>3, <2>1, <2>2, <2>5, <2>6 DEF OrderInHand, DirtyCovers, SameColumns
  <2>. QED
    BY <2>3, <2>4, <2>7
<1>. QED
  BY <1>5, <1>6 DEF InHand

LEMMA SerialInit == Init => SerialTables /\ InHand
<1> SUFFICES ASSUME Init PROVE SerialTables /\ InHand
  OBVIOUS
<1>1. PICK d \in [DOMAIN Opened -> Demands] :
        budgets = [b \in Budgets |->
          IF \E o \in DOMAIN Opened : Opened[o] = b
          THEN LET o == CHOOSE o \in DOMAIN Opened : Opened[o] = b
               IN  NewBudget(o, 1, d[o])
          ELSE AbsentBudget]
  BY DEF Init
<1>2. \A b \in Budgets :
        \/ budgets[b] = AbsentBudget
        \/ \E o \in DOMAIN Opened : Opened[o] = b /\ budgets[b] = NewBudget(o, 1, d[o])
  BY <1>1
<1>3. \A b \in Budgets :
        \/ budgets[b].row = "absent" /\ budgets[b].order = NoOrder
        \/ /\ budgets[b].row = "live" /\ budgets[b].order \in DOMAIN Opened
           /\ Opened[budgets[b].order] = b
  <2>1. SUFFICES ASSUME NEW b \in Budgets
                 PROVE  \/ budgets[b].row = "absent" /\ budgets[b].order = NoOrder
                        \/ /\ budgets[b].row = "live" /\ budgets[b].order \in DOMAIN Opened
                           /\ Opened[budgets[b].order] = b
    OBVIOUS
  <2>2. CASE budgets[b] = AbsentBudget
    BY <2>2 DEF AbsentBudget
  <2>3. ASSUME NEW o \in DOMAIN Opened, Opened[o] = b, budgets[b] = NewBudget(o, 1, d[o])
        PROVE  budgets[b].row = "live" /\ budgets[b].order = o
    BY <2>3 DEF NewBudget
  <2>. QED
    BY <1>2, <2>2, <2>3
<1>4. /\ NewServiceOrder \in OrderRow
      /\ Told(AdvanceToAwaitingApproval(NewServiceOrder))
      /\ Budgeted(AdvanceToAwaitingApproval(NewServiceOrder))
  BY NewServiceOrderType, NewServiceOrderTold, AdvanceTold, AdvanceBudgeted
<1>5. /\ AdvanceToAwaitingApproval(NewServiceOrder).budgetId = NoBudget
      /\ AdvanceToAwaitingApproval(NewServiceOrder).row = "live"
  BY DEF AdvanceToAwaitingApproval, ChangeStatus, NewServiceOrder
<1>6. /\ AbsentOrder.budgetId = NoBudget /\ AbsentOrder.row = "absent"
      /\ SameColumns(AbsentOrder, NewServiceOrder)
  BY DEF AbsentOrder, NewServiceOrder, SameColumns
<1>7. Told(AbsentOrder) /\ Budgeted(AbsentOrder)
  BY <1>6, SameColumnsKeep, NewServiceOrderTold
<1>8. AbsentIsBlank
  BY <1>3, <1>5 DEF Init, AbsentIsBlank
<1>9. BudgetsHaveOrders
  BY <1>3, <1>5, OpenedAssumption DEF Init, BudgetsHaveOrders
<1>10. LinkedIsApproved /\ OrdersConsistent
  BY <1>4, <1>5, <1>6, <1>7 DEF Init, LinkedIsApproved, OrdersConsistent
<1>11. VersionsAreUnique
  BY <1>3 DEF VersionsAreUnique, LiveBudgetsOf
<1>12. InHand
  BY DEF Init, InHand, QuoteInHand, DecisionInHand, OrderInHand, Idle
<1>. QED
  BY <1>8, <1>9, <1>10, <1>11, <1>12 DEF SerialTables

LEMMA SerialStep ==
  ASSUME OneAtATime
  PROVE  SerialInv /\ [Next]_vars => SerialInv'
<1> SUFFICES ASSUME SerialInv, [Next]_vars PROVE SerialInv'
  OBVIOUS
<1>1. LinkInv'
  BY LinkStep DEF SerialInv
<1>2. ASSUME NEW w \in Workers, Arrival(w)  PROVE  SerialTables' /\ InHand'
  BY <1>2, ArrivalSerial
<1>3. ASSUME NEW w \in Workers, RequestStep(w)  PROVE  SerialTables' /\ InHand'
  BY <1>3, InsertOrderSerial, MovingOnSerial, FindLatestSerial, InsertBudgetSerial,
     SaveBudgetSerial, FindOrderSerial, SaveOrderSerial, UpdateOrderSerial
  DEF RequestStep
<1>4. ASSUME NEW w \in Workers, Interrupt(w)  PROVE  SerialTables' /\ InHand'
  BY <1>4, FinishInHand, TablesStay DEF Interrupt, SerialInv, LinkInv, tables
<1>5. CASE UNCHANGED vars
  <2>1. InHand'
    BY <1>5 DEF vars, SerialInv, InHand, QuoteInHand, DecisionInHand, OrderInHand,
                LiveBudgetsOf, HasBudget
  <2>2. UNCHANGED <<orders, budgets>>
    BY <1>5 DEF vars
  <2>. QED
    BY <1>1, <2>1, <2>2, TablesStay DEF SerialInv
<1>. QED
  BY <1>1, <1>2, <1>3, <1>4, <1>5, RemovalSerial DEF Next, SerialInv

LEMMA AlwaysSerial ==
  ASSUME OneAtATime
  PROVE  Spec => []SerialInv
<1>1. Init => SerialInv
  BY SerialInit, LinkInit DEF SerialInv
<1>2. SerialInv /\ [Next]_vars => SerialInv'
  BY SerialStep
<1>. QED
  BY <1>1, <1>2, PTL DEF Spec

\* An order in execution or past it is linked to an approved budget of its own,
\* when requests are served one at a time: neither a deletion nor a request
\* that stops at any await breaks it.
THEOREM ExecutionSafe ==
  ASSUME OneAtATime
  PROVE  Spec => []ExecutionIsApproved
<1>1. SerialInv => ExecutionIsApproved
  BY DEF SerialInv, SerialTables, OrdersConsistent, Budgeted, LinkedIsApproved, LinkInv,
         LinkedBudgetWasDecided, ExecutionIsApproved
<1>. QED
  BY <1>1, AlwaysSerial, PTL

\* The history of every order is a chain of transitions from null to the status
\* of its row, when requests are served one at a time.
THEOREM HistoryTells ==
  ASSUME OneAtATime
  PROVE  Spec => []HistoryTellsStatus
<1>1. SerialInv => HistoryTellsStatus
  BY DEF SerialInv, SerialTables, OrdersConsistent, Told, HistoryTellsStatus
<1>. QED
  BY <1>1, AlwaysSerial, PTL

\* No two live budgets of an order carry the same version, when requests are
\* served one at a time: createNewVersion reads the latest and nobody else does.
THEOREM VersionsUnique ==
  ASSUME OneAtATime
  PROVE  Spec => []VersionsAreUnique
<1>1. SerialInv => VersionsAreUnique
  BY DEF SerialInv, SerialTables
<1>. QED
  BY <1>1, AlwaysSerial, PTL

-----------------------------------------------------------------------------
(* The steps of WorkshopAudit are steps of Workshop, so that its invariants  *)
(* can be used here.  (Not the converse: MaxSupply refuses some arrivals.)   *)

LEMMA AuditStepIsStep == [AuditNext]_<<vars, books>> => [Next]_vars
<1>1. AuditNext => Next
  BY DEF AuditNext, Next
<1>. QED
  BY <1>1

LEMMA AuditIsWorkshop == AuditSpec => Spec
<1>1. AuditInit => Init
  BY DEF AuditInit
<1>. QED
  BY <1>1, AuditStepIsStep, PTL DEF AuditSpec, Spec

\* A decision was counted iff the budget has one.
CountsDecisions ==
  /\ decisions \in [Budgets -> Nat]
  /\ \A b \in Budgets :
       decisions[b] <= 1 /\ (budgets[b].status = "PENDENTE" => decisions[b] = 0)

LEMMA CountsStep ==
  ASSUME OneAtATime, SerialInv, CountsDecisions, [AuditNext]_<<vars, books>>
  PROVE  CountsDecisions'
<1>1. SerialInv' /\ [Next]_vars
  BY SerialStep, AuditStepIsStep
<1>2. budgets \in [Budgets -> BudgetRow]
  BY DEF SerialInv, LinkInv, Typed, TypeOK
<1>3. ASSUME NEW w \in Workers, SaveBudget(w), Account(w)
      PROVE  CountsDecisions'
  <2>1. /\ req[w].bid \in Budgets /\ budgets[req[w].bid].status = "PENDENTE"
        /\ req[w].op \in {"approve", "refuse"}
    BY <1>3, SavesFirstDecision
  <2>2. decisions' = [decisions EXCEPT ![req[w].bid] = @ + 1]
    BY <1>3 DEF Account, SaveBudget
  <2>3. /\ budgets'[req[w].bid].status # "PENDENTE"
        /\ \A c \in Budgets \ {req[w].bid} : budgets'[c] = budgets[c]
    BY <1>2, <1>3, <2>1 DEF SaveBudget, Verdict, BudgetRow
  <2>4. decisions[req[w].bid] = 0
    BY <2>1 DEF CountsDecisions
  <2>. QED
    BY <2>1, <2>2, <2>3, <2>4 DEF CountsDecisions
<1>4. CASE decisions' = decisions
  BY <1>1, <1>4, BudgetsEndure DEF CountsDecisions, SerialInv
<1>5. ASSUME NEW w \in Workers, RequestStep(w), Account(w), ~SaveBudget(w)
      PROVE  decisions' = decisions
  <2>1. req[w].step # "saveBudget"
    BY <1>5 DEF RequestStep, InsertOrder, ResolveLines, FindLatest, InsertBudget, SaveBudget,
                FindOrder, SaveOrder, UpdateOrder, ReadPart, SavePart
  <2>. QED
    BY <1>5, <2>1 DEF Account
<1>6. CASE UNCHANGED <<vars, books>>
  BY <1>4, <1>6 DEF books
<1>7. CASE AuditNext
  BY <1>3, <1>4, <1>5, <1>7 DEF AuditNext, Spill, books
<1>. QED
  BY <1>6, <1>7

LEMMA CountsInit == AuditInit => CountsDecisions
  BY DEF AuditInit, CountsDecisions

\* A budget takes one decision, when requests are served one at a time.
THEOREM DecidedOnceSafe ==
  ASSUME OneAtATime
  PROVE  AuditSpec => []DecidedOnce
<1>1. SerialInv /\ CountsDecisions /\ [AuditNext]_<<vars, books>> => CountsDecisions'
  BY CountsStep
<1>2. CountsDecisions => DecidedOnce
  BY DEF CountsDecisions, DecidedOnce
<1>. QED
  BY <1>1, <1>2, CountsInit, AlwaysSerial, AuditIsWorkshop, PTL DEF AuditSpec

-----------------------------------------------------------------------------
(* Stock.  What a request holds of the parts is as the table has it, so     *)
(* that every unit that leaves the stock is in one hand.                    *)

\* An admin's request changes one part.
OnePartInHand(r) ==
  r.op \in {"adjustStock", "editPart"} =>
    \E p \in Parts : /\ r.toSave = {p} /\ \A q \in Parts \ {p} : r.demand[q] = 0
                     /\ r.op = "editPart" => r.demand[p] = 0

PartsInHand(r) ==
  /\ \A p \in r.toSave : r.stock[p] = parts[p].stock
  /\ r.op = "approve" /\ r.step \in {"readParts", "saveParts", "saveBudget"} =>
       r.demand = budgets[r.bid].demand
  /\ r.step = "readParts" => r.toRead \union r.toSave = Asked(r.demand)
  /\ r.step = "saveBudget" => r.toSave = {}
  /\ OnePartInHand(r)

BooksTyped == supply \in [Parts -> Int] /\ spilled \in [Parts -> Nat]

StockBooked == BooksTyped /\ StockBalances /\ \A w \in Workers : PartsInHand(req[w])

ApprovedBudgets == {b \in Budgets : budgets[b].status = "APROVADO"}
DemandOf(p) == [b \in Budgets |-> budgets[b].demand[p]]

\* The sums as totals, in a state and in the next one.
LEMMA ApprovedTotal ==
  ASSUME NEW p
  PROVE  /\ Approved(p) = Total(DemandOf(p), ApprovedBudgets)
         /\ Approved(p)' = Total(DemandOf(p)', ApprovedBudgets')
<1>1. Approved(p) = Total(DemandOf(p), ApprovedBudgets)
  BY DEF Approved, ApprovedBudgets, DemandOf, Total, MapThenSumSet, MapThenFoldSet
<1>2. Approved(p)' = Total(DemandOf(p)', ApprovedBudgets')
  BY DEF Approved, ApprovedBudgets, DemandOf, Total, MapThenSumSet, MapThenFoldSet
<1>. QED
  BY <1>1, <1>2

Takings(p) == [w \in Workers |-> TakenBy(req[w], p)]

LEMMA InFlightTotal ==
  ASSUME NEW p
  PROVE  /\ InFlight(p) = Total(Takings(p), Workers)
         /\ InFlight(p)' = Total(Takings(p)', Workers)
  BY DEF InFlight, Takings, Total, MapThenSumSet, MapThenFoldSet

\* The units in flight are those of the one request.
LEMMA OneInFlight ==
  ASSUME OneAtATime, NEW w \in Workers, NEW p,
         TakenBy(req[w], p) \in Int, TakenBy(req[w], p)' \in Int
  PROVE  InFlight(p) = TakenBy(req[w], p) /\ InFlight(p)' = TakenBy(req[w], p)'
<1>1. Workers = {w}
  BY DEF OneAtATime
<1>2. Takings(p)[w] = TakenBy(req[w], p) /\ Takings(p)'[w] = TakenBy(req[w], p)'
  BY DEF Takings
<1>3. /\ Total(Takings(p), {w}) = Takings(p)[w]
      /\ Total(Takings(p)', {w}) = Takings(p)'[w]
  BY <1>2, TotalOfOne
<1>. QED
  BY <1>1, <1>2, <1>3, InFlightTotal

LEMMA RequestAmounts ==
  ASSUME NEW r \in Request, NEW p \in Parts
  PROVE  r.stock[p] \in Int /\ r.demand[p] \in Int /\ TakenBy(r, p) \in Int
  BY DEF Request, TakenBy

LEMMA ApprovedType ==
  ASSUME IsFiniteSet(Budgets), NEW p \in Parts,
         budgets \in [Budgets -> BudgetRow], budgets' \in [Budgets -> BudgetRow]
  PROVE  Approved(p) \in Int /\ Approved(p)' \in Int
<1>1. /\ \A b \in Budgets : DemandOf(p)[b] \in Int
      /\ \A b \in Budgets : DemandOf(p)'[b] \in Int
  BY DEF DemandOf, BudgetRow
<1>2. /\ IsFiniteSet(ApprovedBudgets) /\ ApprovedBudgets \subseteq Budgets
      /\ IsFiniteSet(ApprovedBudgets') /\ ApprovedBudgets' \subseteq Budgets
  BY FS_Subset DEF ApprovedBudgets
<1>3. /\ Total(DemandOf(p), ApprovedBudgets) \in Int
      /\ Total(DemandOf(p)', ApprovedBudgets') \in Int
  BY <1>1, <1>2, TotalStep
<1>. QED
  BY <1>3, ApprovedTotal

\* Writes that leave the decisions and the lines of decided budgets alone.
LEMMA ApprovedStays ==
  ASSUME IsFiniteSet(Budgets), LinkInv,
         \A b \in Budgets :
           /\ budgets'[b].status = "APROVADO" <=> budgets[b].status = "APROVADO"
           /\ budgets[b].status = "APROVADO" => budgets'[b].demand = budgets[b].demand,
         NEW p \in Parts
  PROVE  Approved(p)' = Approved(p)
<1>1. \A b \in Budgets : DemandOf(p)[b] \in Int
  BY DEF DemandOf, LinkInv, Typed, TypeOK, BudgetRow
<1>2. IsFiniteSet(ApprovedBudgets) /\ ApprovedBudgets \subseteq Budgets
  BY FS_Subset DEF ApprovedBudgets
<1>3. ApprovedBudgets' = ApprovedBudgets
  BY DEF ApprovedBudgets
<1>4. \A b \in ApprovedBudgets : DemandOf(p)'[b] = DemandOf(p)[b]
  BY DEF ApprovedBudgets, DemandOf
<1>5. Total(DemandOf(p), ApprovedBudgets) = Total(DemandOf(p)', ApprovedBudgets)
  BY <1>1, <1>2, <1>4, TotalSame
<1>. QED
  BY <1>3, <1>5, ApprovedTotal

\* What one step moves from one hand to another.
LEMMA StockMoves ==
  ASSUME OneAtATime, IsFiniteSet(Budgets), LinkInv, LinkInv', StockBooked, BooksTyped',
         NEW w \in Workers, PartsInHand(req[w])',
         \A p \in Parts :
           supply'[p] - supply[p] =
             (parts'[p].stock - parts[p].stock) + (Approved(p)' - Approved(p))
             + (TakenBy(req[w], p)' - TakenBy(req[w], p)) + (spilled'[p] - spilled[p])
  PROVE  StockBooked'
<1>1. ASSUME NEW p \in Parts
      PROVE  (supply[p] = parts[p].stock + Approved(p) + InFlight(p) + spilled[p])'
  <2>1. /\ req[w] \in Request /\ req'[w] \in Request
        /\ parts \in [Parts -> PartRow] /\ parts' \in [Parts -> PartRow]
        /\ budgets \in [Budgets -> BudgetRow] /\ budgets' \in [Budgets -> BudgetRow]
    BY DEF LinkInv, Typed, TypeOK
  <2>2. /\ supply[p] \in Int /\ supply'[p] \in Int /\ spilled[p] \in Int /\ spilled'[p] \in Int
        /\ parts[p].stock \in Int /\ parts'[p].stock \in Int
    BY <2>1 DEF StockBooked, BooksTyped, PartRow
  <2>5. /\ TakenBy(req[w], p) \in Int /\ TakenBy(req[w], p)' \in Int
        /\ Approved(p) \in Int /\ Approved(p)' \in Int
    BY <2>1, RequestAmounts, ApprovedType
  <2>3. InFlight(p) = TakenBy(req[w], p) /\ InFlight(p)' = TakenBy(req[w], p)'
    BY <2>5, OneInFlight
  <2>4. supply[p] = parts[p].stock + Approved(p) + InFlight(p) + spilled[p]
    BY DEF StockBooked, StockBalances
  <2>. QED
    BY <2>2, <2>3, <2>4, <2>5
<1>. QED
  BY <1>1 DEF StockBooked, StockBalances, OneAtATime

LEMMA ArrivalBooked ==
  ASSUME SerialInv, StockBooked, NEW w \in Workers, Arrival(w)
  PROVE  /\ PartsInHand(req[w])'
         /\ \A p \in Parts : TakenBy(req[w], p) = 0 /\ TakenBy(req[w], p)' = 0
<1>1. req \in [Workers -> Request] /\ UNCHANGED tables /\ req[w].step = "idle"
  BY SerialTypes
  DEF SerialInv, Arrival, Arrive, StartCreate, StartCreateWithItems, StartQuote,
      StartApprove, StartRefuse, StartChangeStatus, StartEditOrder, StartAdjustStock,
      StartEditPart
<1>2. \A p \in Parts : TakenBy(req[w], p) = 0
  BY <1>1 DEF TakenBy
<1>3. ASSUME NEW b \in Budgets, StartApprove(w, b)
      PROVE  /\ PartsInHand(req[w])' /\ \A p \in Parts : TakenBy(req[w], p)' = 0
  <2> DEFINE d == budgets[b].demand
             first == IF Asked(d) = {} THEN "saveBudget" ELSE "readParts"
  <2>1. /\ req'[w].step = first /\ req'[w].op = "approve" /\ req'[w].bid = b
        /\ req'[w].demand = d /\ req'[w].toRead = Asked(d) /\ req'[w].toSave = {}
    <3> HIDE DEF first, d
    <3>. QED  BY <1>1, <1>3 DEF first, d, StartApprove, Arrive, Idle
  <2>2. d = budgets'[b].demand /\ d \in [Parts -> Nat]
    BY <1>1 DEF tables, SerialInv, LinkInv, Typed, TypeOK, BudgetRow
  <2>3. PartsInHand(req[w])'
    BY <2>1, <2>2 DEF PartsInHand, OnePartInHand
  <2>4. ASSUME NEW p \in Parts  PROVE  TakenBy(req[w], p)' = 0
    BY <2>1, <2>2 DEF TakenBy, Asked
  <2>. QED
    BY <2>3, <2>4
<1>4. ASSUME req'[w].toSave = {}, req'[w].step \notin {"readParts"},
             req'[w].op \notin {"approve", "adjustStock", "editPart"}
      PROVE  /\ PartsInHand(req[w])' /\ \A p \in Parts : TakenBy(req[w], p)' = 0
  BY <1>4 DEF PartsInHand, OnePartInHand, TakenBy
<1>5. ASSUME NEW p \in Parts, NEW q \in Adjustments, StartAdjustStock(w, p, q)
      PROVE  /\ PartsInHand(req[w])' /\ \A s \in Parts : TakenBy(req[w], s)' = 0
  <2>1. /\ req'[w].step = "saveParts" /\ req'[w].op = "adjustStock" /\ req'[w].toSave = {p}
        /\ req'[w].stock = [Nothing EXCEPT ![p] = parts[p].stock]
        /\ req'[w].demand = [Nothing EXCEPT ![p] = -q]
    BY <1>1, <1>5, ZenonT(60) DEF StartAdjustStock, Arrive, Idle
  <2>2. req'[w].stock[p] = parts'[p].stock /\ \A s \in Parts \ {p} : req'[w].demand[s] = 0
    BY <1>1, <2>1 DEF Nothing, tables
  <2>. QED
    BY <2>1, <2>2 DEF PartsInHand, OnePartInHand, TakenBy
<1>6. ASSUME NEW p \in Parts, StartEditPart(w, p)
      PROVE  /\ PartsInHand(req[w])' /\ \A s \in Parts : TakenBy(req[w], s)' = 0
  <2>1. /\ req'[w].step = "saveParts" /\ req'[w].op = "editPart" /\ req'[w].toSave = {p}
        /\ req'[w].stock = [Nothing EXCEPT ![p] = parts[p].stock]
        /\ req'[w].demand = Nothing
    BY <1>1, <1>6, ZenonT(60) DEF StartEditPart, Arrive, Idle
  <2>2. req'[w].stock[p] = parts'[p].stock /\ \A s \in Parts : req'[w].demand[s] = 0
    BY <1>1, <2>1 DEF Nothing, tables
  <2>. QED
    BY <2>1, <2>2 DEF PartsInHand, OnePartInHand, TakenBy
<1>7. ASSUME NEW o \in Orders, StartCreate(w, o)
      PROVE  /\ req'[w].toSave = {} /\ req'[w].step \notin {"readParts"}
             /\ req'[w].op \notin {"approve", "adjustStock", "editPart"}
  BY <1>1, <1>7 DEF StartCreate, Arrive, Idle
<1>8. ASSUME NEW o \in Orders, StartEditOrder(w, o)
      PROVE  /\ req'[w].toSave = {} /\ req'[w].step \notin {"readParts"}
             /\ req'[w].op \notin {"approve", "adjustStock", "editPart"}
  BY <1>1, <1>8 DEF StartEditOrder, Arrive, Idle
<1>11. ASSUME NEW o \in Orders, NEW b \in Budgets, NEW d \in Demands,
              StartCreateWithItems(w, o, b, d)
      PROVE  /\ req'[w].toSave = {} /\ req'[w].step \notin {"readParts"}
             /\ req'[w].op \notin {"approve", "adjustStock", "editPart"}
  BY <1>1, <1>11 DEF StartCreateWithItems, Arrive, Idle
<1>12. ASSUME NEW o \in Orders, NEW b \in Budgets, NEW d \in Demands,
              StartQuote(w, o, b, d)
      PROVE  /\ req'[w].toSave = {} /\ req'[w].step \notin {"readParts"}
             /\ req'[w].op \notin {"approve", "adjustStock", "editPart"}
  BY <1>1, <1>12 DEF StartQuote, Arrive, Idle
<1>9. ASSUME NEW b \in Budgets, StartRefuse(w, b)
      PROVE  /\ req'[w].toSave = {} /\ req'[w].step \notin {"readParts"}
             /\ req'[w].op \notin {"approve", "adjustStock", "editPart"}
  BY <1>1, <1>9 DEF StartRefuse, Arrive, Idle
<1>10. ASSUME NEW o \in Orders, NEW to \in ServiceOrderStatus, StartChangeStatus(w, o, to)
       PROVE  /\ req'[w].toSave = {} /\ req'[w].step \notin {"readParts"}
              /\ req'[w].op \notin {"approve", "adjustStock", "editPart"}
  BY <1>1, <1>10, ZenonT(60) DEF StartChangeStatus, Arrive, Idle
<1>. QED
  BY <1>2, <1>3, <1>4, <1>5, <1>6, <1>7, <1>8, <1>9, <1>10, <1>11, <1>12 DEF Arrival

\* A request that ends holds nothing.
LEMMA FinishBooked ==
  ASSUME SerialInv, NEW w \in Workers, Finish(w)
  PROVE  PartsInHand(req[w])' /\ \A p \in Parts : TakenBy(req[w], p)' = 0
<1>1. req'[w] = Idle
  BY SerialTypes DEF SerialInv, Finish
<1>. QED
  BY <1>1 DEF PartsInHand, OnePartInHand, TakenBy, Idle

\* Steps that neither read nor write a part, nor decide a budget.
QuietStep(w) ==
  \/ InsertOrder(w) \/ ResolveLines(w) \/ FindLatest(w) \/ InsertBudget(w)
  \/ FindOrder(w) \/ SaveOrder(w) \/ UpdateOrder(w)

LEMMA QuietBooked ==
  ASSUME SerialInv, StockBooked, NEW w \in Workers, QuietStep(w)
  PROVE  /\ PartsInHand(req[w])' /\ parts' = parts
         /\ \A p \in Parts : TakenBy(req[w], p) = 0 /\ TakenBy(req[w], p)' = 0
         /\ \A b \in Budgets :
              /\ budgets'[b].status = "APROVADO" <=> budgets[b].status = "APROVADO"
              /\ budgets[b].status = "APROVADO" => budgets'[b].demand = budgets[b].demand
<1>1. /\ req \in [Workers -> Request] /\ req[w] \in SoundRequest
      /\ budgets \in [Budgets -> BudgetRow] /\ PartsInHand(req[w])
  BY SerialTypes DEF SerialInv, StockBooked
<1>2. /\ parts' = parts
      /\ req[w].step \in {"insertOrder", "resolve", "findLatest", "insertBudget",
                          "findOrder", "saveOrder", "updateOrder"}
  BY DEF QuietStep, InsertOrder, ResolveLines, FindLatest, InsertBudget, FindOrder, SaveOrder,
         UpdateOrder, tables
<1>3. \A p \in Parts : TakenBy(req[w], p) = 0
  BY <1>2 DEF TakenBy
<1>4. PartsInHand(req[w])' /\ \A p \in Parts : TakenBy(req[w], p)' = 0
  <2>1. CASE Finish(w)
    BY <2>1, FinishBooked
  <2>2. ASSUME /\ req'[w].toSave = req[w].toSave /\ req'[w].stock = req[w].stock
               /\ req'[w].op = req[w].op
               /\ req'[w].step \in {"findLatest", "insertBudget", "saveOrder", "updateOrder"}
        PROVE  PartsInHand(req[w])' /\ \A p \in Parts : TakenBy(req[w], p)' = 0
    <3>1. req[w].op \notin {"adjustStock", "editPart"}
      BY <1>1, <1>2 DEF SoundRequest, RequestShape
    <3>2. \A p \in req[w].toSave : req[w].stock[p] = parts[p].stock
      BY <1>1 DEF PartsInHand
    <3>. QED
      BY <1>2, <2>2, <3>1, <3>2 DEF PartsInHand, OnePartInHand, TakenBy
  <2>3. ASSUME NEW s \in {"findLatest", "insertBudget"}, GoTo(w, s)
        PROVE  PartsInHand(req[w])' /\ \A p \in Parts : TakenBy(req[w], p)' = 0
    BY <1>1, <2>2, <2>3 DEF GoTo, Request
  <2>4. CASE FindLatest(w)
    BY <1>1, <2>2, <2>4 DEF FindLatest, Request
  <2>5. CASE InsertBudget(w)
    BY <1>1, <2>2, <2>5 DEF InsertBudget, Request
  <2>6. CASE FindOrder(w)
    BY <1>1, <2>1, <2>2, <2>6 DEF FindOrder, Request
  <2>7. CASE SaveOrder(w)
    BY <1>1, <2>2, <2>7 DEF SaveOrder, Request
  <2>. QED
    BY <2>1, <2>3, <2>4, <2>5, <2>6, <2>7
    DEF QuietStep, InsertOrder, ResolveLines, UpdateOrder
<1>5. ASSUME NEW b \in Budgets
      PROVE  /\ budgets'[b].status = "APROVADO" <=> budgets[b].status = "APROVADO"
             /\ budgets[b].status = "APROVADO" => budgets'[b].demand = budgets[b].demand
  <2>1. CASE InsertBudget(w)
    <3>1. req[w].bid \in Budgets /\ budgets[req[w].bid].row = "absent"
      BY <1>1, <2>1, NoneAssumption
      DEF InsertBudget, SoundRequest, RequestShape, SerialInv, LinkInv, QuotesAreFresh, Quoting
    <3>2. budgets[req[w].bid].status = "PENDENTE"
      BY <3>1 DEF SerialInv, LinkInv, AbsentIsUndecided
    <3>. QED
      BY <1>1, <2>1, <3>1, <3>2 DEF InsertBudget, NewBudget
  <2>2. CASE ~InsertBudget(w)
    BY <2>2 DEF QuietStep, InsertOrder, ResolveLines, FindLatest, FindOrder, SaveOrder,
                UpdateOrder, tables
  <2>. QED
    BY <2>1, <2>2
<1>. QED
  BY <1>2, <1>3, <1>4, <1>5

LEMMA ReadPartBooked ==
  ASSUME SerialInv, StockBooked, NEW w \in Workers, NEW p \in Parts, ReadPart(w, p)
  PROVE  /\ PartsInHand(req[w])' /\ UNCHANGED <<parts, budgets>>
         /\ \A q \in Parts : TakenBy(req[w], q) = 0 /\ TakenBy(req[w], q)' = 0
<1>1. /\ req \in [Workers -> Request] /\ req[w] \in SoundRequest
      /\ PartsInHand(req[w]) /\ req[w].step = "readParts"
  BY SerialTypes DEF SerialInv, StockBooked, ReadPart
<1>2. UNCHANGED <<parts, budgets>> /\ \A q \in Parts : TakenBy(req[w], q) = 0
  BY <1>1 DEF ReadPart, tables, TakenBy
<1>3. req[w].op = "approve" /\ req[w].bid \in Budgets
  BY <1>1 DEF SoundRequest, RequestShape, Request, Op
<1>4. CASE Finish(w)
  BY <1>2, <1>4, FinishBooked
<1>5. CASE ~Finish(w)
  <2>1. PICK s \in {"saveParts", "readParts"} : AfterReading(req[w].toRead \ {p}) = s
    BY DEF AfterReading
  <2> DEFINE r == [req[w] EXCEPT !.stock[p] = parts[p].stock,
                     !.toRead = @ \ {p}, !.toSave = @ \union {p}, !.step = s]
  <2>2. req' = [req EXCEPT ![w] = r] /\ p \in req[w].toRead
    BY <1>5, <2>1 DEF ReadPart
  <2>3. /\ r.step = s /\ r.op = "approve" /\ r.bid = req[w].bid /\ r.demand = req[w].demand
        /\ r.toRead = req[w].toRead \ {p} /\ r.toSave = req[w].toSave \union {p}
        /\ r.stock = [req[w].stock EXCEPT ![p] = parts[p].stock]
    BY <1>1, <1>3 DEF Request
  <2> HIDE DEF r
  <2>4. req'[w] = r /\ req[w].stock \in [Parts -> Int] /\ req[w].toSave \subseteq Parts
    BY <1>1, <2>2 DEF Request
  <2>5. \A q \in r.toSave : r.stock[q] = parts[q].stock
    BY <1>1, <2>3, <2>4 DEF PartsInHand
  <2>6. r.demand = budgets[r.bid].demand
    BY <1>1, <1>3, <2>3 DEF PartsInHand
  <2>7. r.toRead \union r.toSave = Asked(r.demand)
    BY <1>1, <2>2, <2>3 DEF PartsInHand
  <2>8. PartsInHand(req[w])'
    BY <1>2, <2>3, <2>4, <2>5, <2>6, <2>7 DEF PartsInHand, OnePartInHand
  <2>9. ASSUME NEW q \in Parts  PROVE  TakenBy(req[w], q)' = 0
    <3>1. CASE s = "readParts"
      BY <2>3, <2>4, <3>1 DEF TakenBy
    <3>2. CASE s = "saveParts"
      <4>1. r.toSave = Asked(r.demand)
        BY <2>1, <2>3, <2>7, <3>2 DEF AfterReading
      <4>2. r.demand \in [Parts -> Nat]
        BY <1>3, <2>3, <2>6, SerialTypes DEF SerialInv, BudgetRow
      <4>. QED
        BY <2>4, <4>1, <4>2 DEF TakenBy, Asked
    <3>. QED
      BY <3>1, <3>2
  <2>. QED
    BY <1>2, <2>8, <2>9
<1>. QED
  BY <1>4, <1>5

\* What is saved is the stock in the table less what the request asks.
LEMMA SavePartBooked ==
  ASSUME SerialInv, StockBooked, NEW w \in Workers, NEW p \in Parts, SavePart(w, p), Account(w)
  PROVE  /\ PartsInHand(req[w])' /\ BooksTyped' /\ budgets' = budgets
         /\ \A q \in Parts :
              supply'[q] - supply[q] =
                (parts'[q].stock - parts[q].stock)
                + (TakenBy(req[w], q)' - TakenBy(req[w], q)) + (spilled'[q] - spilled[q])
<1> DEFINE r == req[w]
           left == r.toSave \ {p}
<1>1. /\ req \in [Workers -> Request] /\ r \in SoundRequest /\ r \in Request
      /\ parts \in [Parts -> PartRow]
      /\ PartsInHand(r) /\ r.step = "saveParts" /\ p \in r.toSave
  BY SerialTypes DEF SerialInv, LinkInv, Typed, TypeOK, StockBooked, SavePart
<1>2. /\ r.op \in {"approve", "adjustStock", "editPart"} /\ r.stock[p] = parts[p].stock
      /\ r.demand \in [Parts -> Int] /\ budgets' = budgets
      /\ supply \in [Parts -> Int] /\ spilled \in [Parts -> Nat]
  BY <1>1
  DEF SoundRequest, RequestShape, Request, Op, PartsInHand, StockBooked, BooksTyped, SavePart
<1>3. /\ parts'[p].stock = parts[p].stock - r.demand[p]
      /\ \A q \in Parts \ {p} : parts'[q] = parts[q]
      /\ \A q \in Parts : parts[q].stock \in Int /\ parts'[q].stock \in Int
  BY <1>1, <1>2 DEF SavePart, PartRow
<1>4. /\ spilled' = spilled
      /\ supply' = IF r.op = "adjustStock" THEN [q \in Parts |-> supply[q] - r.demand[q]]
                   ELSE supply
  BY <1>1 DEF Account
<1>5. BooksTyped'
  BY <1>2, <1>4 DEF BooksTyped
<1>6. CASE r.op = "approve"
  <2>1. /\ req'[w].op = "approve" /\ req'[w].toSave = left /\ req'[w].demand = r.demand
        /\ req'[w].bid = r.bid /\ req'[w].stock = r.stock
        /\ req'[w].step = IF left = {} THEN "saveBudget" ELSE "saveParts"
    <3>1. CASE left = {}
      BY <1>1, <1>6, <3>1 DEF SavePart, Request
    <3>2. CASE left # {}
      BY <1>1, <1>6, <3>2 DEF SavePart, Request
    <3>. QED
      BY <3>1, <3>2
  <2>2. PartsInHand(req[w])'
    <3>1. \A q \in left : r.stock[q] = parts'[q].stock
      BY <1>1, <1>3 DEF PartsInHand, Request
    <3>2. r.demand = budgets[r.bid].demand
      BY <1>1, <1>6 DEF PartsInHand
    <3> HIDE DEF r
    <3>. QED
      BY <1>2, <2>1, <3>1, <3>2 DEF PartsInHand, OnePartInHand
  <2>3. ASSUME NEW q \in Parts
        PROVE  /\ TakenBy(req[w], q)' = IF q \in left THEN 0 ELSE r.demand[q]
               /\ TakenBy(req[w], q) = IF q \in r.toSave THEN 0 ELSE r.demand[q]
    BY <1>1, <1>6, <2>1 DEF TakenBy
  <2> HIDE DEF r
  <2>4. ASSUME NEW q \in Parts
        PROVE  supply'[q] - supply[q] =
                (parts'[q].stock - parts[q].stock)
                + (TakenBy(req[w], q)' - TakenBy(req[w], q)) + (spilled'[q] - spilled[q])
    <3>1. supply'[q] = supply[q] /\ spilled'[q] = spilled[q]
          /\ supply[q] \in Int /\ spilled[q] \in Int /\ r.demand[q] \in Int
      BY <1>2, <1>4, <1>6
    <3>2. CASE q = p
      BY <1>1, <1>3, <2>3, <3>1, <3>2
    <3>3. CASE q # p
      <4>1. TakenBy(req[w], q)' = TakenBy(req[w], q) /\ TakenBy(req[w], q) \in Int
        BY <2>3, <3>1, <3>3
      <4>. QED
        BY <1>3, <3>1, <3>3, <4>1
    <3>. QED
      BY <3>2, <3>3
  <2>. QED
    BY <1>2, <1>5, <2>2, <2>4
<1>7. CASE r.op # "approve"
  <2>1. /\ r.toSave = {p} /\ \A q \in Parts \ {p} : r.demand[q] = 0
        /\ r.op = "editPart" => r.demand[p] = 0
    BY <1>1, <1>2, <1>7 DEF PartsInHand, OnePartInHand
  <2>2. Finish(w)
    BY <1>7, <2>1 DEF SavePart
  <2>3. PartsInHand(req[w])' /\ \A q \in Parts : TakenBy(req[w], q)' = 0
    BY <2>2, FinishBooked
  <2>4. \A q \in Parts : TakenBy(req[w], q) = 0
    BY <1>7 DEF TakenBy
  <2> HIDE DEF r
  <2>5. ASSUME NEW q \in Parts
        PROVE  supply'[q] - supply[q] =
                (parts'[q].stock - parts[q].stock)
                + (TakenBy(req[w], q)' - TakenBy(req[w], q)) + (spilled'[q] - spilled[q])
    <3>1. /\ spilled'[q] = spilled[q] /\ supply'[q] = supply[q] - r.demand[q]
          /\ parts'[q].stock = parts[q].stock - r.demand[q]
          /\ supply[q] \in Int /\ spilled[q] \in Int /\ r.demand[q] \in Int
          /\ parts[q].stock \in Int
      BY <1>2, <1>3, <1>4, <1>7, <2>1
    <3>2. TakenBy(req[w], q) = 0 /\ TakenBy(req[w], q)' = 0
      BY <2>3, <2>4
    <3>. QED
      BY <3>1, <3>2
  <2>. QED
    BY <1>2, <1>5, <2>3, <2>5
<1>. QED
  BY <1>6, <1>7

\* The decision turns what the approval took into what an APROVADO budget asks.
LEMMA SaveBudgetBooked ==
  ASSUME IsFiniteSet(Budgets), SerialInv, StockBooked, NEW w \in Workers, SaveBudget(w)
  PROVE  /\ PartsInHand(req[w])' /\ parts' = parts
         /\ \A p \in Parts :
              /\ TakenBy(req[w], p)' = 0 /\ TakenBy(req[w], p) \in Int
              /\ Approved(p) \in Int /\ Approved(p)' = Approved(p) + TakenBy(req[w], p)
<1> DEFINE b == req[w].bid
<1>1. /\ req \in [Workers -> Request] /\ req[w] \in Request
      /\ budgets \in [Budgets -> BudgetRow] /\ PartsInHand(req[w])
      /\ req[w].step = "saveBudget" /\ parts' = parts
  BY SerialTypes DEF SerialInv, StockBooked, SaveBudget
<1>2. /\ req[w].op \in {"approve", "refuse"} /\ b \in Budgets
      /\ budgets[b].status = "PENDENTE"
  BY SavesFirstDecision
<1>3. /\ req'[w].step = "findOrder" /\ req'[w].op = req[w].op
      /\ req'[w].toSave = req[w].toSave /\ req[w].toSave = {}
  BY <1>1 DEF SaveBudget, GoTo, Request, PartsInHand
<1>4. PartsInHand(req[w])' /\ \A p \in Parts : TakenBy(req[w], p)' = 0
  BY <1>2, <1>3 DEF PartsInHand, OnePartInHand, TakenBy
<1>5. /\ budgets'[b].status = Verdict(req[w].op)
      /\ \A c \in Budgets : budgets'[c].demand = budgets[c].demand
      /\ \A c \in Budgets \ {b} : budgets'[c].status = budgets[c].status
      /\ budgets' \in [Budgets -> BudgetRow]
  BY <1>1, <1>2 DEF SaveBudget, BudgetRow, Verdict, BudgetStatus
<1> HIDE DEF b
<1>6. ASSUME NEW p \in Parts
      PROVE  /\ TakenBy(req[w], p) \in Int /\ Approved(p) \in Int
             /\ Approved(p)' = Approved(p) + TakenBy(req[w], p)
  <2>1. TakenBy(req[w], p) \in Int /\ Approved(p) \in Int
    BY <1>1, <1>5, RequestAmounts, ApprovedType
  <2>2. CASE req[w].op = "refuse"
    <3>1. TakenBy(req[w], p) = 0
      BY <2>2 DEF TakenBy
    <3>2. Approved(p)' = Approved(p)
      BY <1>2, <1>5, <2>2, ApprovedStays DEF Verdict, SerialInv
    <3>. QED
      BY <2>1, <3>1, <3>2
  <2>3. CASE req[w].op = "approve"
    <3>1. TakenBy(req[w], p) = DemandOf(p)[b]
      BY <1>1, <1>2, <1>3, <2>3 DEF TakenBy, DemandOf, PartsInHand, b
    <3>2. /\ ApprovedBudgets' = ApprovedBudgets \union {b} /\ b \notin ApprovedBudgets
          /\ DemandOf(p)' = DemandOf(p)
      BY <1>2, <1>5, <2>3 DEF ApprovedBudgets, DemandOf, Verdict
    <3>3. IsFiniteSet(ApprovedBudgets) /\ ApprovedBudgets \subseteq Budgets
      BY FS_Subset DEF ApprovedBudgets
    <3>4. \A c \in Budgets : DemandOf(p)[c] \in Int
      BY <1>1 DEF DemandOf, BudgetRow
    <3>5. Total(DemandOf(p), ApprovedBudgets \union {b})
            = DemandOf(p)[b] + Total(DemandOf(p), ApprovedBudgets)
      BY <1>2, <3>2, <3>3, <3>4, TotalGrow
    <3>6. Approved(p)' = DemandOf(p)[b] + Approved(p)
      BY <3>2, <3>5, ApprovedTotal
    <3>. QED
      BY <2>1, <3>1, <3>6
  <2>. QED
    BY <1>2, <2>1, <2>2, <2>3
<1>. QED
  BY <1>1, <1>4, <1>6

LEMMA TakenIsNatural ==
  ASSUME SerialInv, StockBooked, NEW w \in Workers, NEW p \in Parts
  PROVE  TakenBy(req[w], p) \in Nat
<1>1. CASE req[w].op = "approve" /\ req[w].step \in {"saveParts", "saveBudget"}
  <2>1. /\ req[w] \in SoundRequest /\ budgets \in [Budgets -> BudgetRow]
        /\ PartsInHand(req[w])
    BY SerialTypes DEF SerialInv, StockBooked
  <2>2. req[w].bid \in Budgets /\ req[w].demand = budgets[req[w].bid].demand
    BY <1>1, <2>1 DEF SoundRequest, RequestShape, PartsInHand
  <2>3. req[w].demand \in [Parts -> Nat]
    BY <2>1, <2>2 DEF BudgetRow
  <2>. QED
    BY <2>3 DEF TakenBy
<1>2. CASE ~(req[w].op = "approve" /\ req[w].step \in {"saveParts", "saveBudget"})
  BY <1>2 DEF TakenBy
<1>. QED
  BY <1>1, <1>2

\* An approval that stops leaves its units nowhere but in the books.
LEMMA InterruptBooked ==
  ASSUME SerialInv, StockBooked, NEW w \in Workers, Interrupt(w), Spill(w)
  PROVE  /\ PartsInHand(req[w])' /\ BooksTyped' /\ UNCHANGED <<parts, budgets, supply>>
         /\ \A p \in Parts :
              /\ TakenBy(req[w], p)' = 0 /\ TakenBy(req[w], p) \in Nat
              /\ spilled'[p] = spilled[p] + TakenBy(req[w], p)
<1>1. /\ req[w] \in SoundRequest /\ budgets \in [Budgets -> BudgetRow] /\ PartsInHand(req[w])
      /\ UNCHANGED <<parts, budgets, supply>> /\ BooksTyped
      /\ spilled' = [p \in Parts |-> spilled[p] + TakenBy(req[w], p)]
  BY SerialTypes DEF SerialInv, StockBooked, Interrupt, Spill, tables
<1>2. PartsInHand(req[w])' /\ \A p \in Parts : TakenBy(req[w], p)' = 0
  BY FinishBooked DEF Interrupt
<1>3. \A p \in Parts : TakenBy(req[w], p) \in Nat
  BY TakenIsNatural
<1>4. BooksTyped'
  BY <1>1, <1>3 DEF BooksTyped
<1>. QED
  BY <1>1, <1>2, <1>3, <1>4

LEMMA RequestBooked ==
  ASSUME OneAtATime, IsFiniteSet(Budgets), SerialInv, SerialInv', StockBooked,
         NEW w \in Workers,
         \/ Arrival(w) /\ UNCHANGED books
         \/ RequestStep(w) /\ Account(w)
         \/ Interrupt(w) /\ Spill(w)
  PROVE  StockBooked'
<1> DEFINE Moved(p) ==
      supply'[p] - supply[p] =
        (parts'[p].stock - parts[p].stock) + (Approved(p)' - Approved(p))
        + (TakenBy(req[w], p)' - TakenBy(req[w], p)) + (spilled'[p] - spilled[p])
<1>1. /\ LinkInv /\ LinkInv' /\ BooksTyped
      /\ budgets \in [Budgets -> BudgetRow] /\ budgets' \in [Budgets -> BudgetRow]
  BY DEF SerialInv, StockBooked, LinkInv, Typed, TypeOK
<1>2. \A p \in Parts : Approved(p) \in Int
  BY <1>1, ApprovedType
<1>3. \A p \in Parts : supply[p] \in Int /\ spilled[p] \in Int
  BY <1>1 DEF BooksTyped
<1>4. \A p \in Parts : parts[p].stock \in Int
  BY <1>1 DEF LinkInv, Typed, TypeOK, PartRow
<1>5. UNCHANGED budgets => \A p \in Parts : Approved(p)' = Approved(p)
  BY <1>1, ApprovedStays
<1>6. CASE Arrival(w) /\ UNCHANGED books
  <2>1. UNCHANGED tables
    BY <1>6 DEF Arrival, StartCreate, StartCreateWithItems, StartQuote, StartApprove,
                StartRefuse, StartChangeStatus, StartEditOrder, StartAdjustStock, StartEditPart
  <2>2. /\ PartsInHand(req[w])'
        /\ \A p \in Parts : TakenBy(req[w], p) = 0 /\ TakenBy(req[w], p)' = 0
    BY <1>6, ArrivalBooked
  <2>3. BooksTyped' /\ supply' = supply /\ spilled' = spilled
    BY <1>1, <1>6 DEF books, BooksTyped
  <2>4. \A p \in Parts : Moved(p)
    BY <1>2, <1>3, <1>4, <1>5, <2>1, <2>2, <2>3 DEF tables
  <2>. QED
    BY <1>1, <2>2, <2>3, <2>4, StockMoves
<1>7. ASSUME QuietStep(w) \/ \E p \in Parts : ReadPart(w, p), Account(w)
      PROVE  StockBooked'
  <2>1. /\ PartsInHand(req[w])' /\ parts' = parts
        /\ \A p \in Parts : TakenBy(req[w], p) = 0 /\ TakenBy(req[w], p)' = 0
        /\ \A p \in Parts : Approved(p)' = Approved(p)
    BY <1>1, <1>5, <1>7, QuietBooked, ReadPartBooked, ApprovedStays
  <2>2. req[w].step # "saveParts"
    BY <1>7 DEF QuietStep, InsertOrder, ResolveLines, FindLatest, InsertBudget, FindOrder,
                SaveOrder, UpdateOrder, ReadPart
  <2>3. BooksTyped' /\ supply' = supply /\ spilled' = spilled
    BY <1>1, <1>7, <2>2 DEF Account, BooksTyped
  <2>4. \A p \in Parts : Moved(p)
    BY <1>2, <1>3, <1>4, <2>1, <2>3
  <2>. QED
    BY <1>1, <2>1, <2>3, <2>4, StockMoves
<1>8. ASSUME NEW p \in Parts, SavePart(w, p), Account(w)
      PROVE  StockBooked'
  <2>1. /\ PartsInHand(req[w])' /\ BooksTyped' /\ budgets' = budgets
        /\ \A q \in Parts :
             supply'[q] - supply[q] =
               (parts'[q].stock - parts[q].stock)
               + (TakenBy(req[w], q)' - TakenBy(req[w], q)) + (spilled'[q] - spilled[q])
    BY <1>8, SavePartBooked
  <2>2. /\ parts' \in [Parts -> PartRow] /\ req[w] \in Request /\ req'[w] \in Request
    BY <1>1 DEF LinkInv, Typed, TypeOK
  <2>3. ASSUME NEW q \in Parts  PROVE  Moved(q)
    <3>1. /\ TakenBy(req[w], q)' \in Int /\ TakenBy(req[w], q) \in Int
          /\ parts'[q].stock \in Int /\ supply'[q] \in Int /\ spilled'[q] \in Int
      BY <2>1, <2>2, RequestAmounts DEF BooksTyped, PartRow
    <3>2. Approved(q)' = Approved(q)
      BY <1>5, <2>1
    <3>. QED
      BY <1>2, <1>3, <1>4, <2>1, <3>1, <3>2
  <2>. QED
    BY <1>1, <2>1, <2>3, StockMoves
<1>9. ASSUME SaveBudget(w), Account(w)
      PROVE  StockBooked'
  <2>1. /\ PartsInHand(req[w])' /\ parts' = parts
        /\ \A p \in Parts :
             /\ TakenBy(req[w], p)' = 0 /\ TakenBy(req[w], p) \in Int
             /\ Approved(p) \in Int /\ Approved(p)' = Approved(p) + TakenBy(req[w], p)
    BY <1>9, SaveBudgetBooked
  <2>2. BooksTyped' /\ supply' = supply /\ spilled' = spilled
    BY <1>1, <1>9 DEF Account, SaveBudget, BooksTyped
  <2>3. \A p \in Parts : Moved(p)
    BY <1>3, <1>4, <2>1, <2>2
  <2>. QED
    BY <1>1, <2>1, <2>2, <2>3, StockMoves
<1>10. CASE Interrupt(w) /\ Spill(w)
  <2>1. /\ PartsInHand(req[w])' /\ BooksTyped' /\ UNCHANGED <<parts, budgets, supply>>
        /\ \A p \in Parts :
             /\ TakenBy(req[w], p)' = 0 /\ TakenBy(req[w], p) \in Nat
             /\ spilled'[p] = spilled[p] + TakenBy(req[w], p)
    BY <1>10, InterruptBooked
  <2>2. \A p \in Parts : Moved(p)
    BY <1>2, <1>3, <1>4, <1>5, <2>1
  <2>. QED
    BY <1>1, <2>1, <2>2, StockMoves
<1>. QED
  BY <1>6, <1>7, <1>8, <1>9, <1>10 DEF RequestStep, QuietStep

LEMMA RemovalBooked ==
  ASSUME IsFiniteSet(Budgets), SerialInv, StockBooked, Removal, UNCHANGED books
  PROVE  StockBooked'
<1>1. /\ budgets \in [Budgets -> BudgetRow] /\ parts \in [Parts -> PartRow] /\ LinkInv
  BY DEF SerialInv, LinkInv, Typed, TypeOK
<1>2. /\ UNCHANGED <<req, supply, spilled>>
      /\ \A b \in Budgets : /\ budgets'[b].status = budgets[b].status
                            /\ budgets'[b].demand = budgets[b].demand
      /\ \A p \in Parts : parts'[p].stock = parts[p].stock
  BY <1>1 DEF Removal, RemoveOrder, RemoveBudget, RemovePart, BudgetRow, PartRow, books
<1>3. \A w \in Workers : req[w] \in SoundRequest
  BY SerialTypes DEF SerialInv
<1>4. ASSUME NEW w \in Workers  PROVE  PartsInHand(req[w])'
  <2>1. PartsInHand(req[w]) /\ req'[w] = req[w]
    BY <1>2 DEF StockBooked
  <2>2. req[w].toSave \subseteq Parts /\ (req[w].op = "approve" => req[w].bid \in Budgets)
    BY <1>3 DEF SoundRequest, RequestShape, Request
  <2>. QED
    BY <1>2, <2>1, <2>2 DEF PartsInHand, OnePartInHand
<1>5. ASSUME NEW p \in Parts
      PROVE  (supply[p] = parts[p].stock + Approved(p) + InFlight(p) + spilled[p])'
  <2>1. Approved(p)' = Approved(p)
    BY <1>1, <1>2, ApprovedStays
  <2>2. InFlight(p)' = InFlight(p)
    <3>1. Takings(p)' = Takings(p)
      BY <1>2 DEF Takings
    <3>. QED
      BY <3>1, InFlightTotal
  <2>. QED
    BY <1>2, <2>1, <2>2 DEF StockBooked, StockBalances
<1>. QED
  BY <1>2, <1>4, <1>5 DEF StockBooked, StockBalances, BooksTyped

LEMMA StockBookedInit == ASSUME OneAtATime, AuditInit PROVE StockBooked
<1>1. /\ supply = InitialStock /\ spilled = Nothing
      /\ \A p \in Parts : parts[p].stock = InitialStock[p]
      /\ \A w \in Workers : req[w] = Idle
  BY DEF AuditInit, Init
<1>2. BooksTyped
  BY <1>1, StockAssumption DEF BooksTyped, Nothing
<1>3. \A w \in Workers : PartsInHand(req[w])
  BY <1>1 DEF PartsInHand, OnePartInHand, Idle
<1>4. ASSUME NEW p \in Parts  PROVE  Approved(p) = 0 /\ InFlight(p) = 0
  <2>1. \A b \in Budgets : budgets[b].status = "PENDENTE"
    BY DEF AuditInit, Init, NewBudget, AbsentBudget
  <2>2. ApprovedBudgets = {}
    BY <2>1 DEF ApprovedBudgets
  <2>3. Approved(p) = 0
    BY <2>2, ApprovedTotal, TotalOfNone
  <2>4. ASSUME Workers = {}  PROVE  InFlight(p) = 0
    BY <2>4, InFlightTotal, TotalOfNone
  <2>5. ASSUME NEW w \in Workers  PROVE  InFlight(p) = 0
    <3>1. Workers = {w}
      BY DEF OneAtATime
    <3>2. Takings(p)[w] = 0
      BY <1>1 DEF Takings, TakenBy, Idle
    <3>3. Total(Takings(p), {w}) = 0
      <4>1. Takings(p)[w] \in Int
        BY <3>2
      <4>2. Total(Takings(p), {w}) = Takings(p)[w]
        BY <4>1, TotalOfOne, Zenon
      <4>. QED
        BY <3>2, <4>2
    <3>4. InFlight(p) = Total(Takings(p), Workers)
      BY InFlightTotal
    <3>. QED
      BY <3>1, <3>3, <3>4
  <2>6. InFlight(p) = 0
    BY <2>4, <2>5
  <2>. QED
    BY <2>3, <2>6
<1>5. StockBalances
  BY <1>1, <1>4, StockAssumption DEF StockBalances, Nothing
<1>. QED
  BY <1>2, <1>3, <1>5 DEF StockBooked

LEMMA StockBookedStep ==
  ASSUME OneAtATime, IsFiniteSet(Budgets), SerialInv, StockBooked,
         [AuditNext]_<<vars, books>>
  PROVE  StockBooked'
<1>1. SerialInv'
  BY SerialStep, AuditStepIsStep
<1>2. CASE UNCHANGED <<vars, books>>
  <2>1. UNCHANGED <<budgets, parts, req, supply, spilled>>
    BY <1>2 DEF vars, books
  <2>2. ASSUME NEW p \in Parts  PROVE  Approved(p)' = Approved(p) /\ InFlight(p)' = InFlight(p)
    <3>1. Takings(p)' = Takings(p)
      BY <2>1 DEF Takings
    <3>2. DemandOf(p)' = DemandOf(p) /\ ApprovedBudgets' = ApprovedBudgets
      BY <2>1 DEF DemandOf, ApprovedBudgets
    <3>. QED
      BY <3>1, <3>2, InFlightTotal, ApprovedTotal
  <2>3. ASSUME NEW w \in Workers  PROVE  PartsInHand(req[w])'
    BY <2>1 DEF StockBooked, PartsInHand, OnePartInHand
  <2>. QED
    BY <2>1, <2>2, <2>3 DEF StockBooked, StockBalances, BooksTyped
<1>3. CASE AuditNext
  BY <1>1, <1>3, RequestBooked, RemovalBooked DEF AuditNext
<1>. QED
  BY <1>2, <1>3

\* No unit of a part is lost or made: whatever is approved, adjusted, deleted or
\* interrupted, what was brought in is in stock, in an APROVADO budget, in the
\* hand of the approval in flight, or was taken by one that never finished.
THEOREM StockIsBalanced ==
  ASSUME OneAtATime, IsFiniteSet(Budgets)
  PROVE  AuditSpec => []StockBalances
<1>1. SerialInv /\ StockBooked /\ [AuditNext]_<<vars, books>> => StockBooked'
  BY StockBookedStep
<1>2. AuditInit => StockBooked
  BY StockBookedInit
<1>3. StockBooked => StockBalances
  BY DEF StockBooked
<1>. QED
  BY <1>1, <1>2, <1>3, AlwaysSerial, AuditIsWorkshop, PTL DEF AuditSpec

\* An approval is never granted beyond the stock that was brought in.
THEOREM ApprovedCovered ==
  ASSUME OneAtATime, IsFiniteSet(Budgets)
  PROVE  AuditSpec => []ApprovedIsCovered
<1>1. SerialInv /\ StockInv /\ StockBooked => ApprovedIsCovered
  <2> SUFFICES ASSUME SerialInv, StockInv, StockBooked, NEW p \in Parts
               PROVE  Approved(p) <= supply[p]
    BY DEF ApprovedIsCovered
  <2>1. \A w \in Workers : TakenBy(req[w], p) \in Nat
    BY TakenIsNatural
  <2>2. InFlight(p) \in Nat
    <3>1. CASE Workers = {}
      BY <3>1, InFlightTotal, TotalOfNone
    <3>2. ASSUME NEW w \in Workers  PROVE  InFlight(p) \in Nat
      <4>1. Workers = {w} /\ Takings(p)[w] = TakenBy(req[w], p)
        BY DEF OneAtATime, Takings
      <4>2. Total(Takings(p), {w}) = Takings(p)[w]
        BY <2>1, <4>1, TotalOfOne
      <4>. QED
        BY <2>1, <4>1, <4>2, InFlightTotal
    <3>. QED
      BY <3>1, <3>2
  <2>3. parts[p].stock \in Nat /\ spilled[p] \in Nat /\ supply[p] \in Int
    BY DEF StockInv, StockNeverNegative, Typed, TypeOK, PartRow, StockBooked, BooksTyped
  <2>4. Approved(p) \in Int
    <3>1. /\ \A b \in Budgets : DemandOf(p)[b] \in Int
          /\ IsFiniteSet(ApprovedBudgets) /\ ApprovedBudgets \subseteq Budgets
      BY FS_Subset DEF DemandOf, ApprovedBudgets, StockInv, Typed, TypeOK, BudgetRow
    <3>2. Total(DemandOf(p), ApprovedBudgets) \in Int
      BY <3>1, TotalStep
    <3>. QED
      BY <3>2, ApprovedTotal
  <2>5. supply[p] = parts[p].stock + Approved(p) + InFlight(p) + spilled[p]
    BY DEF StockBooked, StockBalances
  <2>. QED
    BY <2>2, <2>3, <2>4, <2>5
<1>2. SerialInv /\ StockBooked /\ [AuditNext]_<<vars, books>> => StockBooked'
  BY StockBookedStep
<1>3. StockInv /\ [Next]_vars => StockInv'
  BY TypedStep, StockStep DEF StockInv
<1>4. AuditInit => StockBooked /\ StockInv
  BY StockBookedInit, InitType, StockInit DEF StockInv, AuditInit
<1>. QED
  BY <1>1, <1>2, <1>3, <1>4, AlwaysSerial, AuditIsWorkshop, AuditStepIsStep, PTL
  DEF AuditSpec, Spec

-----------------------------------------------------------------------------
(* The refinement: every step of the audited system is a step of            *)
(* OrderLifecycle, or changes none of its variables.                        *)

LEMMA RequestedFinite ==
  ASSUME NEW so \in OrderRow
  PROVE  /\ IsFiniteSet(Requested(so.history))
         /\ Cardinality(Requested(so.history)) \in Nat
<1>1. Len(so.history) \in Nat /\ DOMAIN so.history = 1..Len(so.history)
  BY DEF OrderRow
<1>2. IsFiniteSet(1..Len(so.history))
  BY <1>1, FS_Interval
<1>3. Requested(so.history) \in SUBSET (1..Len(so.history))
  BY <1>1 DEF Requested
<1>. QED
  BY <1>2, <1>3, FS_Subset, FS_CardinalityType

\* A status change adds to what was requested iff it is a request.
LEMMA RequestedOnce ==
  ASSUME NEW so \in OrderRow, NEW to, NEW by
  PROVE  Cardinality(Requested(ChangeStatus(so, to, by).history)) =
           Cardinality(Requested(so.history))
             + IF to = "AGUARDANDO_APROVACAO" /\ by = "system" THEN 1 ELSE 0
<1> DEFINE h == ChangeStatus(so, to, by).history
           n == Len(so.history)
           asks == to = "AGUARDANDO_APROVACAO" /\ by = "system"
<1>1. /\ n \in Nat /\ Len(h) = n + 1 /\ h[n + 1] = Entry(so.status, to, by)
      /\ \A i \in 1..n : h[i] = so.history[i]
      /\ DOMAIN h = 1..(n + 1) /\ DOMAIN so.history = 1..n
  BY ChangeStatusHistory
<1>2. h[n + 1].to = to /\ h[n + 1].by = by
  BY <1>1 DEF Entry
<1>3. n + 1 \notin Requested(so.history)
  BY <1>1 DEF Requested
<1>4. IsFiniteSet(Requested(so.history)) /\ Cardinality(Requested(so.history)) \in Nat
  BY RequestedFinite
<1> HIDE DEF h, n
<1>5. Requested(h) = IF asks THEN Requested(so.history) \union {n + 1}
                     ELSE Requested(so.history)
  <2>1. \A i \in 1..(n + 1) : i \in 1..n \/ i = n + 1
    BY <1>1
  <2>2. \A i \in 1..n : i \in 1..(n + 1)
    BY <1>1
  <2>3. n + 1 \in 1..(n + 1)
    BY <1>1
  <2>. QED
    BY <1>1, <1>2, <2>1, <2>2, <2>3 DEF Requested
<1>6. CASE asks
  BY <1>3, <1>4, <1>5, <1>6, FS_AddElement DEF h
<1>7. CASE ~asks
  BY <1>4, <1>5, <1>7 DEF h
<1>. QED
  BY <1>6, <1>7

LEMMA NeverRequested ==
  /\ Requested(NewServiceOrder.history) = {}
  /\ Cardinality(Requested(NewServiceOrder.history)) = 0
<1>1. Requested(NewServiceOrder.history) = {}
  BY DEF Requested, NewServiceOrder, Entry
<1>. QED
  BY <1>1, FS_EmptySet

\* advanceToAwaitingApproval asks once, or does nothing.
LEMMA AdvanceRequestsOnce ==
  ASSUME NEW so \in OrderRow
  PROVE  \/ /\ AdvanceToAwaitingApproval(so) = so
            /\ so.status \notin {"RECEBIDA", "EM_DIAGNOSTICO", "EM_EXECUCAO"}
         \/ /\ so.status \in {"RECEBIDA", "EM_DIAGNOSTICO", "EM_EXECUCAO"}
            /\ Cardinality(Requested(AdvanceToAwaitingApproval(so).history)) =
                 Cardinality(Requested(so.history)) + 1
<1>1. CASE so.status = "RECEBIDA"
  <2> DEFINE mid == ChangeStatus(so, "EM_DIAGNOSTICO", "system")
  <2>1. mid \in OrderRow
    BY ChangeStatusType DEF ServiceOrderStatus
  <2>2. Cardinality(Requested(mid.history)) = Cardinality(Requested(so.history))
    <3>1. Cardinality(Requested(so.history)) \in Nat
      BY RequestedFinite
    <3>. QED
      BY <3>1, RequestedOnce
  <2> HIDE DEF mid
  <2>3. Cardinality(Requested(ChangeStatus(mid, "AGUARDANDO_APROVACAO", "system").history))
          = Cardinality(Requested(so.history)) + 1
    BY <2>1, <2>2, RequestedOnce
  <2>. QED
    BY <1>1, <2>3 DEF AdvanceToAwaitingApproval, mid
<1>2. CASE so.status = "EM_DIAGNOSTICO"
  <2>1. Cardinality(Requested(ChangeStatus(so, "AGUARDANDO_APROVACAO", "system").history))
          = Cardinality(Requested(so.history)) + 1
    BY RequestedOnce
  <2>. QED
    BY <1>2, <2>1 DEF AdvanceToAwaitingApproval
<1>3. CASE so.status = "EM_EXECUCAO"
  <2> DEFINE free == ClearBudget(so)
  <2>1. free \in OrderRow /\ free.history = so.history
    BY LinkType DEF ClearBudget, OrderRow
  <2> HIDE DEF free
  <2>2. Cardinality(Requested(ChangeStatus(free, "AGUARDANDO_APROVACAO", "system").history))
          = Cardinality(Requested(so.history)) + 1
    BY <2>1, RequestedOnce
  <2>. QED
    BY <1>3, <2>2 DEF AdvanceToAwaitingApproval, free
<1>4. CASE so.status \notin {"RECEBIDA", "EM_DIAGNOSTICO", "EM_EXECUCAO"}
  BY <1>4 DEF AdvanceToAwaitingApproval
<1>. QED
  BY <1>1, <1>2, <1>3, <1>4

\* The variables of OrderLifecycle, as functions of the tables.
Stages == [o \in Orders |-> Stage(o)]
Asks == [o \in Orders |-> Cardinality(Requested(orders[o].history))]
Links == [o \in Orders |-> orders[o].budgetId]
Owners == [b \in Budgets |-> budgets[b].order]
Verdicts == [b \in Budgets |-> budgets[b].status]

LEMMA LifecycleInitially == AuditInit => Lifecycle!LifecycleInit
<1> SUFFICES ASSUME AuditInit PROVE Lifecycle!LifecycleInit
  OBVIOUS
<1>1. Init
  BY DEF AuditInit
<1>2. PICK d \in [DOMAIN Opened -> Demands] :
        budgets = [b \in Budgets |->
          IF \E o \in DOMAIN Opened : Opened[o] = b
          THEN LET o == CHOOSE o \in DOMAIN Opened : Opened[o] = b
               IN  NewBudget(o, 1, d[o])
          ELSE AbsentBudget]
  BY <1>1 DEF Init
<1> DEFINE new == AdvanceToAwaitingApproval(NewServiceOrder)
<1>3. /\ new.row = "live" /\ new.status = "AGUARDANDO_APROVACAO" /\ new.budgetId = NoBudget
  BY DEF AdvanceToAwaitingApproval, ChangeStatus, NewServiceOrder
<1>4. Cardinality(Requested(new.history)) = 1
  <2>1. NewServiceOrder.status = "RECEBIDA"
    BY DEF NewServiceOrder
  <2>. QED
    BY <2>1, NewServiceOrderType, AdvanceRequestsOnce, NeverRequested
<1>5. /\ AbsentOrder.row = "absent" /\ AbsentOrder.budgetId = NoBudget
      /\ AbsentOrder.history = NewServiceOrder.history
  BY DEF AbsentOrder, NewServiceOrder
<1> HIDE DEF new
<1>6. \A o \in Orders : orders[o] = IF o \in DOMAIN Opened THEN new ELSE AbsentOrder
  BY <1>1 DEF Init, new
<1>7. Stages = [o \in Orders |-> IF o \in DOMAIN Opened THEN "AGUARDANDO_APROVACAO"
                                 ELSE "absent"]
  BY <1>3, <1>5, <1>6 DEF Stages, Stage
<1>8. Asks = [o \in Orders |-> IF o \in DOMAIN Opened THEN 1 ELSE 0]
  BY <1>4, <1>5, <1>6, NeverRequested DEF Asks
<1>9. Links = [o \in Orders |-> NoBudget]
  BY <1>3, <1>5, <1>6 DEF Links
<1>10. Owners = [b \in Budgets |->
         IF \E o \in DOMAIN Opened : Opened[o] = b
         THEN CHOOSE o \in DOMAIN Opened : Opened[o] = b ELSE NoOrder]
  BY <1>2 DEF Owners, NewBudget, AbsentBudget
<1>11. Verdicts = [b \in Budgets |-> "PENDENTE"]
  BY <1>2 DEF Verdicts, NewBudget, AbsentBudget
<1>. QED
  BY <1>7, <1>8, <1>9, <1>10, <1>11
  DEF Lifecycle!LifecycleInit, Stages, Asks, Links, Owners, Verdicts

\* Who writes one order changes each function at that order only.
LEMMA OrderMapped ==
  ASSUME NEW o \in Orders, \A c \in Orders \ {o} : orders'[c] = orders[c],
         NEW s, NEW n, NEW b,
         s = IF orders'[o].row = "absent" THEN "absent" ELSE orders'[o].status,
         n = Cardinality(Requested(orders'[o].history)), b = orders'[o].budgetId
  PROVE  /\ Stages' = [Stages EXCEPT ![o] = s]
         /\ Asks' = [Asks EXCEPT ![o] = n]
         /\ Links' = [Links EXCEPT ![o] = b]
<1>1. Stages' = [Stages EXCEPT ![o] = s]
  BY DEF Stages, Stage
<1>2. Asks' = [Asks EXCEPT ![o] = n]
  BY DEF Asks
<1>3. Links' = [Links EXCEPT ![o] = b]
  BY DEF Links
<1>. QED
  BY <1>1, <1>2, <1>3

LEMMA BudgetMapped ==
  ASSUME NEW b \in Budgets, \A c \in Budgets \ {b} : budgets'[c] = budgets[c],
         NEW o, NEW v, o = budgets'[b].order, v = budgets'[b].status
  PROVE  Owners' = [Owners EXCEPT ![b] = o] /\ Verdicts' = [Verdicts EXCEPT ![b] = v]
<1>1. Owners' = [Owners EXCEPT ![b] = o]
  BY DEF Owners
<1>2. Verdicts' = [Verdicts EXCEPT ![b] = v]
  BY DEF Verdicts
<1>. QED
  BY <1>1, <1>2

OrdersMapped == <<Stages, Asks, Links>>
BudgetsMapped == <<Owners, Verdicts>>

LEMMA OrdersUnmapped ==
  ASSUME \A o \in Orders : /\ SameColumns(orders'[o], orders[o])
                           /\ orders'[o].row = "absent" <=> orders[o].row = "absent"
  PROVE  UNCHANGED OrdersMapped
<1>1. Stages' = Stages
  BY DEF Stages, Stage, SameColumns
<1>2. Asks' = Asks /\ Links' = Links
  BY DEF Asks, Links, SameColumns
<1>. QED
  BY <1>1, <1>2 DEF OrdersMapped

LEMMA BudgetsUnmapped ==
  ASSUME \A b \in Budgets : /\ budgets'[b].order = budgets[b].order
                            /\ budgets'[b].status = budgets[b].status
  PROVE  UNCHANGED BudgetsMapped
  BY DEF BudgetsMapped, Owners, Verdicts

LEMMA InsertOrderMaps ==
  ASSUME SerialInv, NEW w \in Workers, InsertOrder(w)
  PROVE  Lifecycle!LifecycleNext
<1> DEFINE o == req[w].oid
<1>1. /\ req[w] \in SoundRequest /\ orders \in [Orders -> OrderRow] /\ budgets' = budgets
      /\ req[w].step = "insertOrder"
  BY SerialTypes DEF SerialInv, InsertOrder
<1>2. o \in Orders /\ orders[o].row = "absent"
  BY <1>1 DEF SoundRequest, RequestShape, Request, Op, SerialInv, InHand, QuoteInHand
<1>3. orders'[o] = NewServiceOrder /\ \A c \in Orders \ {o} : orders'[c] = orders[c]
  BY <1>1, <1>2 DEF InsertOrder
<1>4. orders[o] = AbsentOrder
  BY <1>2 DEF SerialInv, SerialTables, AbsentIsBlank
<1>5. /\ NewServiceOrder.row = "live" /\ NewServiceOrder.status = "RECEBIDA"
      /\ AbsentOrder.history = NewServiceOrder.history
      /\ AbsentOrder.budgetId = NewServiceOrder.budgetId
  BY DEF NewServiceOrder, AbsentOrder
<1>6. UNCHANGED BudgetsMapped
  BY <1>1, BudgetsUnmapped
<1>7. /\ Stages[o] = "absent" /\ Stages' = [Stages EXCEPT ![o] = "RECEBIDA"]
      /\ Asks' = Asks /\ Links' = Links
  <2>1. /\ Stages' = [Stages EXCEPT ![o] = "RECEBIDA"]
        /\ Asks' = [Asks EXCEPT ![o] = Cardinality(Requested(orders[o].history))]
        /\ Links' = [Links EXCEPT ![o] = orders[o].budgetId]
    BY <1>2, <1>3, <1>4, <1>5, OrderMapped
  <2>. QED
    BY <1>2, <2>1 DEF Stages, Stage, Asks, Links
<1>8. Lifecycle!Open(o)
  BY <1>6, <1>7 DEF Lifecycle!Open, BudgetsMapped, Stages, Asks, Links, Owners, Verdicts
<1>. QED
  BY <1>2, <1>8 DEF Lifecycle!LifecycleNext

LEMMA InsertBudgetMaps ==
  ASSUME SerialInv, NEW w \in Workers, InsertBudget(w)
  PROVE  Lifecycle!LifecycleNext
<1> DEFINE b == req[w].bid
           o == req[w].oid
<1>1. /\ req[w] \in SoundRequest /\ budgets \in [Budgets -> BudgetRow]
      /\ req[w].step = "insertBudget" /\ orders' = orders
  BY SerialTypes DEF SerialInv, InsertBudget
<1>2. b \in Budgets /\ o \in Orders /\ orders[o].row # "absent"
  BY <1>1 DEF SoundRequest, RequestShape, Request, Op, SerialInv, InHand, QuoteInHand
<1>3. budgets[b].row = "absent" /\ budgets[b].status = "PENDENTE"
  BY <1>1, <1>2, NoneAssumption
  DEF SerialInv, LinkInv, QuotesAreFresh, AbsentIsUndecided, Quoting
<1>4. budgets[b].order = NoOrder
  BY <1>2, <1>3 DEF SerialInv, SerialTables, AbsentIsBlank
<1>5. /\ budgets'[b].order = o /\ budgets'[b].status = "PENDENTE"
      /\ \A c \in Budgets \ {b} : budgets'[c] = budgets[c]
  BY <1>1, <1>2 DEF InsertBudget, NewBudget
<1>6. UNCHANGED OrdersMapped
  BY <1>1, OrdersUnmapped DEF SameColumns
<1>7. /\ Owners[b] = NoOrder /\ Owners' = [Owners EXCEPT ![b] = o] /\ Verdicts' = Verdicts
      /\ Stages[o] # "absent"
  <2>1. Owners' = [Owners EXCEPT ![b] = o] /\ Verdicts' = [Verdicts EXCEPT ![b] = "PENDENTE"]
    BY <1>2, <1>5, BudgetMapped
  <2>2. "absent" \notin ServiceOrderStatus /\ orders[o].status \in ServiceOrderStatus
    BY <1>2, SerialTypes DEF SerialInv, ServiceOrderStatus, OrderRow
  <2>. QED
    BY <1>2, <1>3, <1>4, <2>1, <2>2 DEF Owners, Verdicts, Stages, Stage
<1>8. Lifecycle!Quote(o, b)
  BY <1>6, <1>7 DEF Lifecycle!Quote, OrdersMapped, Stages, Asks, Links, Owners, Verdicts
<1>. QED
  <2>1. PICK c \in Orders, d \in Budgets : c = o /\ d = b
    BY <1>2
  <2>2. Lifecycle!Quote(c, d)
    BY <1>8, <2>1 DEF Lifecycle!Quote
  <2>. QED
    BY <2>2 DEF Lifecycle!LifecycleNext

LEMMA SaveBudgetMaps ==
  ASSUME SerialInv, NEW w \in Workers, SaveBudget(w)
  PROVE  Lifecycle!LifecycleNext
<1> DEFINE b == req[w].bid
           v == Verdict(req[w].op)
<1>1. /\ b \in Budgets /\ budgets[b].status = "PENDENTE" /\ budgets[b].row # "absent"
      /\ req[w].op \in {"approve", "refuse"}
  BY SavesFirstDecision
<1>2. v \in {"APROVADO", "RECUSADO"}
  BY <1>1 DEF Verdict
<1>3. budgets \in [Budgets -> BudgetRow] /\ orders' = orders
  BY SerialTypes DEF SerialInv, SaveBudget
<1>4. /\ budgets'[b].status = v /\ budgets'[b].order = budgets[b].order
      /\ \A c \in Budgets \ {b} : budgets'[c] = budgets[c]
  BY <1>1, <1>3 DEF SaveBudget, BudgetRow
<1>5. budgets[b].order # NoOrder
  BY <1>1, NoneAssumption DEF SerialInv, LinkInv, Typed, Owned
<1>6. UNCHANGED OrdersMapped
  BY <1>3, OrdersUnmapped DEF SameColumns
<1> HIDE DEF v
<1>7. /\ Verdicts[b] = "PENDENTE" /\ Verdicts' = [Verdicts EXCEPT ![b] = v]
      /\ Owners' = Owners /\ Owners[b] # NoOrder
  <2>1. /\ Verdicts' = [Verdicts EXCEPT ![b] = v]
        /\ Owners' = [Owners EXCEPT ![b] = budgets[b].order]
    BY <1>1, <1>4, BudgetMapped
  <2>. QED
    BY <1>1, <1>5, <2>1 DEF Owners, Verdicts
<1>8. Lifecycle!Decide(b, v)
  BY <1>6, <1>7 DEF Lifecycle!Decide, OrdersMapped, Stages, Asks, Links, Owners, Verdicts
<1>. QED
  <2>1. PICK d \in Budgets, u \in {"APROVADO", "RECUSADO"} : d = b /\ u = v
    BY <1>1, <1>2
  <2>2. Lifecycle!Decide(d, u)
    BY <1>8, <2>1 DEF Lifecycle!Decide
  <2>. QED
    BY <2>2 DEF Lifecycle!LifecycleNext

LEMMA UpdateOrderMaps ==
  ASSUME SerialInv, NEW w \in Workers, UpdateOrder(w)
  PROVE  [Lifecycle!LifecycleNext]_<<Stages, Asks, Links, Owners, Verdicts>>
<1>1. PICK o \in Orders : o = req[w].oid
  BY SaveIsOneChange
<1>2. /\ orders[o].row # "absent" /\ orders'[o].row = orders[o].row
      /\ SameColumns(orders'[o], req[w].entity) /\ OneChange(req[w], orders[o])
      /\ \A c \in Orders \ {o} : orders'[c] = orders[c]
  BY <1>1, SaveIsOneChange
<1>3. /\ req[w] \in SoundRequest /\ orders[o] \in OrderRow
      /\ req[w].step = "updateOrder" /\ budgets' = budgets
  BY SerialTypes DEF SerialInv, UpdateOrder
<1>4. UNCHANGED BudgetsMapped
  BY <1>3, BudgetsUnmapped
<1>5. /\ Stages[o] = orders[o].status /\ Links[o] = orders[o].budgetId
      /\ Asks[o] = Cardinality(Requested(orders[o].history)) /\ Asks[o] \in Nat
  BY <1>2, <1>3, RequestedFinite DEF Stages, Stage, Links, Asks
<1>6. /\ Stages' = [Stages EXCEPT ![o] = orders'[o].status]
      /\ Asks' = [Asks EXCEPT ![o] = Cardinality(Requested(orders'[o].history))]
      /\ Links' = [Links EXCEPT ![o] = orders'[o].budgetId]
  BY <1>2, OrderMapped
<1>7. /\ Stages = [Stages EXCEPT ![o] = Stages[o]] /\ Asks = [Asks EXCEPT ![o] = Asks[o]]
      /\ Links = [Links EXCEPT ![o] = Links[o]]
  BY DEF Stages, Asks, Links
<1>8. CASE SameColumns(req[w].entity, orders[o])
  <2>1. Stages' = Stages /\ Asks' = Asks /\ Links' = Links
    BY <1>2, <1>5, <1>6, <1>7, <1>8 DEF SameColumns
  <2>. QED
    BY <1>4, <2>1 DEF BudgetsMapped
<1>9. CASE LinksOnly(req[w], orders[o])
  <2>1. PICK b \in Budgets : b = req[w].bid
    BY <1>3, <1>9 DEF LinksOnly, SoundRequest, RequestShape
  <2>2. budgets[b].order = o /\ budgets[b].status = "APROVADO"
    BY <1>1, <1>3, <1>9, <2>1
    DEF LinksOnly, SerialInv, InHand, DecisionInHand, Verdict, LinkInv, DecisionsAreSaved
  <2>3. /\ orders'[o].status = orders[o].status /\ orders'[o].history = orders[o].history
        /\ orders'[o].budgetId = b
    BY <1>2, <1>3, <1>9, <2>1 DEF LinksOnly, SameColumns, SetBudget, OrderRow
  <2>4. /\ Stages' = Stages /\ Asks' = Asks /\ Links' = [Links EXCEPT ![o] = b]
        /\ Owners[b] = o /\ Verdicts[b] = "APROVADO"
    BY <1>5, <1>6, <1>7, <2>2, <2>3 DEF Owners, Verdicts
  <2>5. Lifecycle!Link(o, b)
    BY <1>4, <2>4
    DEF Lifecycle!Link, BudgetsMapped, Stages, Asks, Links, Owners, Verdicts
  <2>. QED
    BY <2>5 DEF Lifecycle!LifecycleNext
<1>10. CASE MovesOnly(req[w], orders[o])
  <2>1. PICK to \in ServiceOrderStatus, by \in {"system", "staff"} :
          /\ CanChangeStatus(orders[o], to) /\ (to = "AGUARDANDO_APROVACAO" => by = "staff")
          /\ SameColumns(req[w].entity, ChangeStatus(orders[o], to, by))
    BY <1>10 DEF MovesOnly
  <2>2. /\ ChangeStatus(orders[o], to, by).status = to
        /\ ChangeStatus(orders[o], to, by).budgetId = orders[o].budgetId
    BY <1>3 DEF ChangeStatus, OrderRow
  <2>3. Cardinality(Requested(ChangeStatus(orders[o], to, by).history)) = Asks[o]
    BY <1>3, <1>5, <2>1, RequestedOnce
  <2>4. /\ orders'[o].status = to /\ orders'[o].budgetId = orders[o].budgetId
        /\ Cardinality(Requested(orders'[o].history)) = Asks[o]
    BY <1>2, <2>1, <2>2, <2>3 DEF SameColumns
  <2>5. Stages' = [Stages EXCEPT ![o] = to] /\ Asks' = Asks /\ Links' = Links
    BY <1>5, <1>6, <1>7, <2>4
  <2>6. <<Stages[o], to>> \in ALLOWED_TRANSITIONS
    BY <1>5, <2>1 DEF CanChangeStatus
  <2>7. to = "EM_EXECUCAO" =>
          /\ Links[o] # NoBudget /\ Owners[Links[o]] = o /\ Verdicts[Links[o]] = "APROVADO"
    BY <1>5, <2>1
    DEF CanChangeStatus, Owners, Verdicts, SerialInv, SerialTables, LinkedIsApproved,
        LinkInv, LinkedBudgetWasDecided, DecidedBudgetOf
  <2>8. Lifecycle!Move(o, to)
    BY <1>4, <2>5, <2>6, <2>7
    DEF Lifecycle!Move, BudgetsMapped, Stages, Asks, Links, Owners, Verdicts
  <2>9. PICK pair \in ALLOWED_TRANSITIONS : pair = <<Stages[o], to>>
    BY <2>6
  <2>10. pair[2] = to
    BY <2>9
  <2>. QED
    BY <2>8, <2>10 DEF Lifecycle!LifecycleNext
<1>11. CASE AdvancesOnly(req[w], orders[o]) /\ ~SameColumns(req[w].entity, orders[o])
  <2> DEFINE new == AdvanceToAwaitingApproval(orders[o])
  <2>1. SameColumns(req[w].entity, new) /\ req[w].op \in {"create", "quote"}
    BY <1>11 DEF AdvancesOnly
  <2>2. new # orders[o]
    BY <1>11, <2>1
  <2>3. /\ orders[o].status \in {"RECEBIDA", "EM_DIAGNOSTICO", "EM_EXECUCAO"}
        /\ Cardinality(Requested(new.history)) = Asks[o] + 1
    BY <1>3, <1>5, <2>2, AdvanceRequestsOnce
  <2>4. /\ new.status = "AGUARDANDO_APROVACAO"
        /\ new.budgetId = IF orders[o].status = "EM_EXECUCAO" THEN NoBudget
                          ELSE orders[o].budgetId
    BY <1>3, <2>2, AdvanceColumns
  <2> HIDE DEF new
  <2>5. /\ orders'[o].status = "AGUARDANDO_APROVACAO"
        /\ orders'[o].budgetId = IF Stages[o] = "EM_EXECUCAO" THEN NoBudget ELSE Links[o]
        /\ Cardinality(Requested(orders'[o].history)) = Asks[o] + 1
    BY <1>2, <1>5, <2>1, <2>3, <2>4 DEF SameColumns
  <2>6. /\ Stages' = [Stages EXCEPT ![o] = "AGUARDANDO_APROVACAO"]
        /\ Asks' = [Asks EXCEPT ![o] = Asks[o] + 1]
        /\ Links' = [Links EXCEPT ![o] = IF Stages[o] = "EM_EXECUCAO" THEN NoBudget
                                         ELSE Links[o]]
    BY <1>6, <2>5
  <2>7. \E b \in Budgets : Owners[b] = o
    BY <1>1, <1>3, <2>1 DEF SerialInv, InHand, OrderInHand, HasBudget, Owners
  <2>8. Lifecycle!SendToApproval(o)
    BY <1>4, <1>5, <2>3, <2>6, <2>7
    DEF Lifecycle!SendToApproval, BudgetsMapped, Stages, Asks, Links, Owners, Verdicts
  <2>. QED
    BY <2>8 DEF Lifecycle!LifecycleNext
<1>. QED
  BY <1>2, <1>8, <1>9, <1>10, <1>11 DEF OneChange

\* The other steps write no order and no budget, or only delete a row.
LEMMA OtherStepsMap ==
  ASSUME SerialInv, [AuditNext]_<<vars, books>>,
         \A w \in Workers :
           ~(InsertOrder(w) \/ InsertBudget(w) \/ SaveBudget(w) \/ UpdateOrder(w))
  PROVE  UNCHANGED <<Stages, Asks, Links, Owners, Verdicts>>
<1>1. /\ orders \in [Orders -> OrderRow] /\ budgets \in [Budgets -> BudgetRow]
  BY DEF SerialInv, LinkInv, Typed, TypeOK
<1>2. CASE UNCHANGED <<orders, budgets>>
  BY <1>2, OrdersUnmapped, BudgetsUnmapped DEF OrdersMapped, BudgetsMapped, SameColumns
<1>3. CASE Removal
  <2>1. \A o \in Orders : /\ SameColumns(orders'[o], orders[o])
                          /\ orders'[o].row = "absent" <=> orders[o].row = "absent"
    BY <1>1, <1>3
    DEF Removal, RemoveOrder, RemoveBudget, RemovePart, SameColumns, OrderRow
  <2>2. \A b \in Budgets : /\ budgets'[b].order = budgets[b].order
                           /\ budgets'[b].status = budgets[b].status
    BY <1>1, <1>3 DEF Removal, RemoveOrder, RemoveBudget, RemovePart, BudgetRow
  <2>. QED
    BY <2>1, <2>2, OrdersUnmapped, BudgetsUnmapped DEF OrdersMapped, BudgetsMapped
<1>4. ASSUME NEW w \in Workers, Arrival(w)  PROVE  UNCHANGED <<orders, budgets>>
  BY <1>4
  DEF Arrival, StartCreate, StartCreateWithItems, StartQuote, StartApprove, StartRefuse,
      StartChangeStatus, StartEditOrder, StartAdjustStock, StartEditPart, tables
<1>5. ASSUME NEW w \in Workers, RequestStep(w) \/ Interrupt(w)
      PROVE  UNCHANGED <<orders, budgets>>
  BY <1>5 DEF RequestStep, Interrupt, ResolveLines, FindLatest, FindOrder, SaveOrder,
              ReadPart, SavePart, tables
<1>6. UNCHANGED <<vars, books>> => UNCHANGED <<orders, budgets>>
  BY DEF vars
<1>. QED
  BY <1>2, <1>3, <1>4, <1>5, <1>6 DEF AuditNext

LEMMA StepMaps ==
  ASSUME SerialInv, [AuditNext]_<<vars, books>>
  PROVE  [Lifecycle!LifecycleNext]_<<Stages, Asks, Links, Owners, Verdicts>>
  BY InsertOrderMaps, InsertBudgetMaps, SaveBudgetMaps, UpdateOrderMaps, OtherStepsMap

\* Served one at a time, the requests of the workshop do to orders and budgets
\* what OrderLifecycle promises and nothing else, wherever one of them stops and
\* whatever is deleted meanwhile.
THEOREM ServingImplementsLifecycle ==
  ASSUME OneAtATime
  PROVE  AuditSpec => ImplementsLifecycle
<1>1. SerialInv /\ [AuditNext]_<<vars, books>>
        => [Lifecycle!LifecycleNext]_Lifecycle!lifecycleVars
  BY StepMaps DEF Lifecycle!lifecycleVars, Stages, Asks, Links, Owners, Verdicts
<1>. QED
  BY <1>1, LifecycleInitially, AlwaysSerial, AuditIsWorkshop, PTL
  DEF AuditSpec, ImplementsLifecycle, Lifecycle!LifecycleSpec

=============================================================================
