--------------------------- MODULE WorkshopProofs ---------------------------
(***************************************************************************)
(* What holds of Workshop for every set of orders, budgets, parts and      *)
(* requests in flight, whatever their steps interleave to.                 *)
(***************************************************************************)
EXTENDS Workshop, TLAPS

-----------------------------------------------------------------------------
(* The entity operators keep their types.                                  *)

LEMMA NewServiceOrderType == NewServiceOrder \in OrderRow
  BY DEF NewServiceOrder, OrderRow, Presence, ServiceOrderStatus, Entry,
         StatusHistoryEntry

LEMMA ChangeStatusType ==
  ASSUME NEW so \in OrderRow, NEW to \in ServiceOrderStatus,
         NEW by \in {"system", "staff"}
  PROVE  ChangeStatus(so, to, by) \in OrderRow
<1>1. Entry(so.status, to, by) \in StatusHistoryEntry
  BY DEF Entry, StatusHistoryEntry, OrderRow
<1>2. Append(so.history, Entry(so.status, to, by)) \in Seq(StatusHistoryEntry)
  BY <1>1 DEF OrderRow
<1>. QED
  BY <1>2 DEF ChangeStatus, OrderRow

LEMMA LinkType ==
  ASSUME NEW so \in OrderRow
  PROVE  /\ ClearBudget(so) \in OrderRow
         /\ \A b \in Budgets : SetBudget(so, b) \in OrderRow
  BY DEF ClearBudget, SetBudget, OrderRow

LEMMA AdvanceType ==
  ASSUME NEW so \in OrderRow
  PROVE  AdvanceToAwaitingApproval(so) \in OrderRow
<1>1. /\ "EM_DIAGNOSTICO" \in ServiceOrderStatus
      /\ "AGUARDANDO_APROVACAO" \in ServiceOrderStatus
  BY DEF ServiceOrderStatus
<1>2. /\ ChangeStatus(so, "EM_DIAGNOSTICO", "system") \in OrderRow
      /\ ChangeStatus(so, "AGUARDANDO_APROVACAO", "system") \in OrderRow
      /\ ChangeStatus(ClearBudget(so), "AGUARDANDO_APROVACAO", "system") \in OrderRow
  BY <1>1, ChangeStatusType, LinkType
<1>3. ChangeStatus(ChangeStatus(so, "EM_DIAGNOSTICO", "system"),
                   "AGUARDANDO_APROVACAO", "system") \in OrderRow
  BY <1>1, <1>2, ChangeStatusType
<1>. QED
  BY <1>2, <1>3 DEF AdvanceToAwaitingApproval

LEMMA OverwriteType ==
  ASSUME NEW row \in OrderRow, NEW so \in OrderRow, NEW dirty \in SUBSET OrderColumn
  PROVE  Overwrite(row, so, dirty) \in OrderRow
  BY DEF Overwrite, OrderRow

LEMMA IdleType == Idle \in Request
<1>1. Nothing \in [Parts -> Int]
  BY DEF Nothing
<1>. QED
  BY <1>1, NewServiceOrderType DEF Idle, Request, Op, Step

-----------------------------------------------------------------------------
(* Type correctness.  TypeOK is not inductive: a request must be at a step *)
(* of its own operation, and carry the ids that step works on.             *)

RequestShape(r) ==
  /\ r.op = "none" => r.step = "idle"
  /\ r.op = "create" =>
       r.step \in {"insertOrder", "insertBudget", "saveOrder", "updateOrder"}
  /\ r.op = "quote" =>
       r.step \in {"resolve", "findLatest", "insertBudget", "saveOrder", "updateOrder"}
  /\ r.op = "approve" =>
       r.step \in {"readParts", "saveParts", "saveBudget", "findOrder",
                   "saveOrder", "updateOrder"}
  /\ r.op = "refuse" =>
       r.step \in {"saveBudget", "findOrder", "saveOrder", "updateOrder"}
  /\ r.op \in {"changeStatus", "editOrder"} => r.step \in {"saveOrder", "updateOrder"}
  /\ r.op \in {"adjustStock", "editPart"} => r.step = "saveParts"
  /\ r.op \notin {"none", "adjustStock", "editPart"} => r.oid \in Orders
  /\ r.op \in {"create", "quote"} => r.demand \in [Parts -> Nat]
  /\ r.op \in {"quote", "approve", "refuse"} => r.bid \in Budgets
  /\ r.step = "insertBudget" => r.bid \in Budgets

SoundRequest == {r \in Request : RequestShape(r)}

\* Every saved budget belongs to an order.
Owned == \A b \in Budgets : budgets[b].row # "absent" => budgets[b].order \in Orders

Typed == TypeOK /\ Owned /\ req \in [Workers -> SoundRequest]

LEMMA IdleSound == Idle \in SoundRequest
  BY IdleType DEF SoundRequest, RequestShape, Idle

LEMMA InitType == Init => Typed
<1> SUFFICES ASSUME Init PROVE Typed
  OBVIOUS
<1>1. AdvanceToAwaitingApproval(NewServiceOrder) \in OrderRow
  BY NewServiceOrderType, AdvanceType
<1>2. AbsentOrder \in OrderRow
  BY NewServiceOrderType DEF AbsentOrder, OrderRow, Presence
<1>3. orders \in [Orders -> OrderRow]
  BY <1>1, <1>2 DEF Init
<1>4. AbsentBudget \in BudgetRow
  BY DEF AbsentBudget, BudgetRow, Nothing, Presence, BudgetStatus
<1>5. PICK d \in [DOMAIN Opened -> Demands] :
        budgets = [b \in Budgets |->
          IF \E o \in DOMAIN Opened : Opened[o] = b
          THEN LET o == CHOOSE o \in DOMAIN Opened : Opened[o] = b
               IN  NewBudget(o, 1, d[o])
          ELSE AbsentBudget]
  BY DEF Init
<1>6. \A o \in DOMAIN Opened : o \in Orders
  BY OpenedAssumption
<1>7. \A o \in DOMAIN Opened : NewBudget(o, 1, d[o]) \in BudgetRow
  BY OpenedAssumption, DemandAssumption
  DEF NewBudget, BudgetRow, Presence, BudgetStatus
<1>8. budgets \in [Budgets -> BudgetRow]
  BY <1>4, <1>5, <1>7
<1>9. Owned
  BY <1>5, <1>6 DEF Owned, NewBudget, AbsentBudget
<1>10. parts \in [Parts -> PartRow]
  BY StockAssumption DEF Init, PartRow, Presence
<1>11. req \in [Workers -> SoundRequest]
  BY IdleSound DEF Init
<1>. QED
  BY <1>3, <1>8, <1>9, <1>10, <1>11 DEF Typed, TypeOK, SoundRequest

\* A request replaced by a sound one keeps the whole pool sound.
LEMMA RequestType ==
  ASSUME Typed, NEW w \in Workers, NEW r \in SoundRequest,
         req' = [req EXCEPT ![w] = r]
  PROVE  req' \in [Workers -> SoundRequest]
  BY DEF Typed

LEMMA FinishType ==
  ASSUME Typed, NEW w \in Workers, Finish(w)
  PROVE  req' \in [Workers -> SoundRequest]
  BY IdleSound DEF Finish, Typed

LEMMA GoToType ==
  ASSUME Typed, NEW w \in Workers, NEW s \in Step, GoTo(w, s),
         RequestShape([req[w] EXCEPT !.step = s])
  PROVE  req' \in [Workers -> SoundRequest]
<1>1. req[w] \in Request
  BY DEF Typed, SoundRequest
<1>2. [req[w] EXCEPT !.step = s] \in SoundRequest
  BY <1>1 DEF Request, SoundRequest
<1>3. req' = [req EXCEPT ![w] = [req[w] EXCEPT !.step = s]]
  BY DEF GoTo
<1>. QED
  BY <1>2, <1>3, RequestType

LEMMA ArriveType ==
  ASSUME Typed, NEW w \in Workers, NEW op, NEW r \in SoundRequest, Arrive(w, op, r)
  PROVE  req' \in [Workers -> SoundRequest]
  BY RequestType DEF Arrive

LEMMA ArrivalType ==
  ASSUME Typed, NEW w \in Workers, Arrival(w)
  PROVE  Typed'
<1>1. Nothing \in [Parts -> Int] /\ Idle \in Request /\ Idle.demand \in [Parts -> Nat]
  BY IdleType DEF Nothing, Idle
<1>2. TypeOK /\ Owned
  BY DEF Typed
<1>3. SUFFICES UNCHANGED tables /\ req' \in [Workers -> SoundRequest]
  BY <1>2 DEF Typed, TypeOK, Owned, tables, SoundRequest
<1>4. ASSUME NEW o \in Orders, StartCreate(w, o)
      PROVE  UNCHANGED tables /\ req' \in [Workers -> SoundRequest]
  <2>1. [Idle EXCEPT !.op = "create", !.step = "insertOrder", !.oid = o] \in SoundRequest
    BY <1>1 DEF SoundRequest, RequestShape, Request, Op, Step
  <2>. QED
    BY <1>4, <2>1, ArriveType DEF StartCreate
<1>5. ASSUME NEW o \in Orders, NEW b \in Budgets, NEW d \in Demands,
             StartCreateWithItems(w, o, b, d)
      PROVE  UNCHANGED tables /\ req' \in [Workers -> SoundRequest]
  <2>1. d \in [Parts -> Int] /\ d \in [Parts -> Nat]
    BY DemandAssumption
  <2>2. [Idle EXCEPT !.op = "create", !.step = "insertOrder",
                     !.oid = o, !.bid = b, !.demand = d, !.version = 1] \in SoundRequest
    BY <1>1, <2>1 DEF SoundRequest, RequestShape, Request, Op, Step
  <2>. QED
    BY <1>5, <2>2, ArriveType DEF StartCreateWithItems
<1>6. ASSUME NEW o \in Orders, NEW b \in Budgets, NEW d \in Demands,
             StartQuote(w, o, b, d)
      PROVE  UNCHANGED tables /\ req' \in [Workers -> SoundRequest]
  <2>1. d \in [Parts -> Int] /\ d \in [Parts -> Nat] /\ orders[o] \in OrderRow
    BY <1>2, DemandAssumption DEF TypeOK
  <2>2. [Idle EXCEPT !.op = "quote", !.step = "resolve", !.oid = o, !.bid = b,
                     !.entity = orders[o], !.demand = d] \in SoundRequest
    BY <1>1, <2>1 DEF SoundRequest, RequestShape, Request, Op, Step
  <2>. QED
    BY <1>6, <2>2, ArriveType DEF StartQuote
<1>7. ASSUME NEW b \in Budgets, StartApprove(w, b)
      PROVE  UNCHANGED tables /\ req' \in [Workers -> SoundRequest]
  <2> DEFINE d == budgets[b].demand
  <2>1. d \in [Parts -> Int] /\ budgets[b].order \in Orders
    BY <1>2, <1>7 DEF TypeOK, BudgetRow, Owned, StartApprove
  <2>2. Asked(d) \in SUBSET Parts
    BY DEF Asked
  <2>3. (IF Asked(d) = {} THEN "saveBudget" ELSE "readParts") \in Step
    BY DEF Step
  <2> DEFINE r == [Idle EXCEPT !.op = "approve", !.bid = b, !.oid = budgets[b].order,
                     !.demand = d, !.toRead = Asked(d),
                     !.step = IF Asked(d) = {} THEN "saveBudget" ELSE "readParts"]
  <2>4. r \in SoundRequest
    <3> HIDE DEF d
    <3>. QED BY <1>1, <2>1, <2>2, <2>3 DEF SoundRequest, RequestShape, Request, Op, Step
  <2>5. Arrive(w, "approve", r) /\ UNCHANGED tables
    BY <1>7 DEF StartApprove
  <2>. QED
    BY <2>4, <2>5, ArriveType
<1>8. ASSUME NEW b \in Budgets, StartRefuse(w, b)
      PROVE  UNCHANGED tables /\ req' \in [Workers -> SoundRequest]
  <2>1. budgets[b].order \in Orders
    BY <1>2, <1>8 DEF Owned, StartRefuse
  <2>2. [Idle EXCEPT !.op = "refuse", !.step = "saveBudget",
                     !.bid = b, !.oid = budgets[b].order] \in SoundRequest
    BY <1>1, <2>1 DEF SoundRequest, RequestShape, Request, Op, Step
  <2>. QED
    BY <1>8, <2>2, ArriveType DEF StartRefuse
<1>9. ASSUME NEW o \in Orders, NEW to \in ServiceOrderStatus, StartChangeStatus(w, o, to)
      PROVE  UNCHANGED tables /\ req' \in [Workers -> SoundRequest]
  <2>1. ChangeStatus(orders[o], to, "staff") \in OrderRow
    BY <1>2, ChangeStatusType DEF TypeOK
  <2>2. [Idle EXCEPT !.op = "changeStatus", !.step = "saveOrder", !.oid = o,
                     !.entity = ChangeStatus(orders[o], to, "staff"),
                     !.dirty = {"history"}] \in SoundRequest
    BY <1>1, <2>1, ZenonT(60) DEF SoundRequest, RequestShape, Request, Op, Step, OrderColumn
  <2>. QED
    BY <1>9, <2>2, ArriveType DEF StartChangeStatus
<1>10. ASSUME NEW o \in Orders, StartEditOrder(w, o)
       PROVE  UNCHANGED tables /\ req' \in [Workers -> SoundRequest]
  <2>1. orders[o] \in OrderRow
    BY <1>2 DEF TypeOK
  <2>2. [Idle EXCEPT !.op = "editOrder", !.step = "saveOrder",
                     !.oid = o, !.entity = orders[o]] \in SoundRequest
    BY <1>1, <2>1 DEF SoundRequest, RequestShape, Request, Op, Step
  <2>. QED
    BY <1>10, <2>2, ArriveType DEF StartEditOrder
<1>11. ASSUME NEW p \in Parts, NEW q \in Adjustments, StartAdjustStock(w, p, q)
       PROVE  UNCHANGED tables /\ req' \in [Workers -> SoundRequest]
  <2>1. parts[p].stock \in Int /\ -q \in Int
    BY <1>2, AdjustAssumption DEF TypeOK, PartRow
  <2>2. /\ [Nothing EXCEPT ![p] = parts[p].stock] \in [Parts -> Int]
        /\ [Nothing EXCEPT ![p] = -q] \in [Parts -> Int]
    BY <1>1, <2>1
  <2>3. [Idle EXCEPT !.op = "adjustStock", !.step = "saveParts", !.toSave = {p},
                     !.stock = [Nothing EXCEPT ![p] = parts[p].stock],
                     !.demand = [Nothing EXCEPT ![p] = -q]] \in SoundRequest
    BY <1>1, <2>2, ZenonT(60) DEF SoundRequest, RequestShape, Request, Op, Step
  <2>. QED
    BY <1>11, <2>3, ArriveType DEF StartAdjustStock
<1>12. ASSUME NEW p \in Parts, StartEditPart(w, p)
       PROVE  UNCHANGED tables /\ req' \in [Workers -> SoundRequest]
  <2>1. [Nothing EXCEPT ![p] = parts[p].stock] \in [Parts -> Int]
    BY <1>1, <1>2 DEF TypeOK, PartRow
  <2>2. [Idle EXCEPT !.op = "editPart", !.step = "saveParts", !.toSave = {p},
                     !.stock = [Nothing EXCEPT ![p] = parts[p].stock]] \in SoundRequest
    BY <1>1, <2>1, ZenonT(60) DEF SoundRequest, RequestShape, Request, Op, Step
  <2>. QED
    BY <1>12, <2>2, ArriveType DEF StartEditPart
<1>. QED
  BY <1>4, <1>5, <1>6, <1>7, <1>8, <1>9, <1>10, <1>11, <1>12 DEF Arrival

LEMMA InsertOrderType ==
  ASSUME Typed, NEW w \in Workers, InsertOrder(w)
  PROVE  Typed'
<1>1. req[w] \in SoundRequest /\ req[w].step = "insertOrder"
  BY DEF Typed, InsertOrder
<1>2. req' \in [Workers -> SoundRequest]
  <2>1. req[w].bid # NoBudget => RequestShape([req[w] EXCEPT !.step = "insertBudget"])
    BY <1>1 DEF SoundRequest, RequestShape, Request, Op
  <2>. QED
    BY <2>1, FinishType, GoToType DEF InsertOrder, Step
<1>3. orders' \in [Orders -> OrderRow]
  BY NewServiceOrderType DEF InsertOrder, Typed, TypeOK
<1>. QED
  BY <1>2, <1>3 DEF InsertOrder, Typed, TypeOK, Owned, SoundRequest

LEMMA ResolveLinesType ==
  ASSUME Typed, NEW w \in Workers, ResolveLines(w)
  PROVE  Typed'
<1>1. req[w] \in SoundRequest /\ req[w].step = "resolve"
  BY DEF Typed, ResolveLines
<1>2. RequestShape([req[w] EXCEPT !.step = "findLatest"])
  BY <1>1 DEF SoundRequest, RequestShape, Request, Op
<1>3. req' \in [Workers -> SoundRequest]
  BY <1>2, FinishType, GoToType DEF ResolveLines, Step
<1>. QED
  BY <1>3 DEF ResolveLines, Typed, TypeOK, Owned, SoundRequest, tables

LEMMA FindLatestType ==
  ASSUME Typed, NEW w \in Workers, FindLatest(w)
  PROVE  Typed'
<1>1. req[w] \in SoundRequest /\ req[w].step = "findLatest"
  BY DEF Typed, FindLatest
<1>2. NextVersions(req[w].oid) \subseteq Nat
  BY DEF Typed, TypeOK, BudgetRow, NextVersions, LatestBudgetsOf, LiveBudgetsOf
<1>3. PICK v \in NextVersions(req[w].oid) :
        req' = [req EXCEPT ![w].version = v, ![w].step = "insertBudget"]
  BY DEF FindLatest
<1>4. [req[w] EXCEPT !.version = v, !.step = "insertBudget"] \in SoundRequest
  BY <1>1, <1>2 DEF SoundRequest, RequestShape, Request, Op, Step
<1>5. req' \in [Workers -> SoundRequest]
  BY <1>3, <1>4, RequestType, ZenonT(60)
<1>. QED
  BY <1>5 DEF FindLatest, Typed, TypeOK, Owned, SoundRequest, tables

LEMMA InsertBudgetType ==
  ASSUME Typed, NEW w \in Workers, InsertBudget(w)
  PROVE  Typed'
<1>1. req[w] \in SoundRequest /\ req[w].step = "insertBudget"
  BY DEF Typed, InsertBudget
<1>2. req[w].entity \in OrderRow /\ req[w].oid \in Orders /\ req[w].version \in Nat
      /\ req[w].bid \in Budgets /\ req[w].demand \in [Parts -> Nat]
  BY <1>1 DEF SoundRequest, RequestShape, Request, Op
<1>3. AdvanceToAwaitingApproval(req[w].entity) \in OrderRow
  BY <1>2, AdvanceType
<1>4. PICK dirty \in SUBSET OrderColumn :
        req' = [req EXCEPT ![w].step = "saveOrder",
                           ![w].entity = AdvanceToAwaitingApproval(req[w].entity),
                           ![w].dirty = dirty]
  BY DEF InsertBudget, OrderColumn
<1>5. [req[w] EXCEPT !.step = "saveOrder",
                     !.entity = AdvanceToAwaitingApproval(req[w].entity),
                     !.dirty = dirty] \in SoundRequest
  BY <1>1, <1>3 DEF SoundRequest, RequestShape, Request, Op, Step
<1>6. req' \in [Workers -> SoundRequest]
  <2> DEFINE r == [req[w] EXCEPT !.step = "saveOrder",
                     !.entity = AdvanceToAwaitingApproval(req[w].entity),
                     !.dirty = dirty]
  <2>1. req' = [req EXCEPT ![w] = r]
    BY <1>4
  <2>. QED
    BY <1>5, <2>1, RequestType
<1>7. NewBudget(req[w].oid, req[w].version, req[w].demand) \in BudgetRow
  BY <1>2 DEF NewBudget, BudgetRow, Presence, BudgetStatus
<1>8. budgets' \in [Budgets -> BudgetRow]
  BY <1>7 DEF InsertBudget, Typed, TypeOK
<1>9. Owned'
  BY <1>2 DEF InsertBudget, Typed, TypeOK, Owned, NewBudget
<1>. QED
  BY <1>6, <1>8, <1>9 DEF InsertBudget, Typed, TypeOK, SoundRequest

LEMMA ReadPartType ==
  ASSUME Typed, NEW w \in Workers, NEW p \in Parts, ReadPart(w, p)
  PROVE  Typed'
<1>1. req[w] \in SoundRequest /\ req[w].step = "readParts" /\ parts[p].stock \in Int
  BY DEF Typed, TypeOK, PartRow, ReadPart
<1>2. PICK s \in {"saveParts", "readParts"} : AfterReading(req[w].toRead \ {p}) = s
  BY DEF AfterReading
<1>3. [req[w] EXCEPT !.stock[p] = parts[p].stock,
                     !.toRead = @ \ {p}, !.toSave = @ \union {p},
                     !.step = s] \in SoundRequest
  BY <1>1 DEF SoundRequest, RequestShape, Request, Op, Step
<1>4. req' \in [Workers -> SoundRequest]
  <2> DEFINE r == [req[w] EXCEPT !.stock[p] = parts[p].stock,
                     !.toRead = @ \ {p}, !.toSave = @ \union {p}, !.step = s]
  <2>1. Finish(w) \/ req' = [req EXCEPT ![w] = r]
    BY <1>2 DEF ReadPart
  <2>. QED
    BY <1>3, <2>1, FinishType, RequestType
<1>. QED
  BY <1>4 DEF ReadPart, Typed, TypeOK, Owned, SoundRequest, tables

LEMMA SavePartType ==
  ASSUME Typed, NEW w \in Workers, NEW p \in Parts, SavePart(w, p)
  PROVE  Typed'
<1>1. req[w] \in SoundRequest /\ req[w].step = "saveParts"
  BY DEF Typed, SavePart
<1>2. req[w].stock[p] - req[w].demand[p] \in Int
  BY <1>1 DEF SoundRequest, Request
<1>3. parts' \in [Parts -> PartRow]
  BY <1>2 DEF SavePart, Typed, TypeOK, PartRow
<1>4. [req[w] EXCEPT !.toSave = @ \ {p}] \in SoundRequest
  BY <1>1 DEF SoundRequest, RequestShape, Request
<1>5. req[w].op = "approve" =>
        [req[w] EXCEPT !.toSave = @ \ {p}, !.step = "saveBudget"] \in SoundRequest
  BY <1>1 DEF SoundRequest, RequestShape, Request, Step
<1>6. req' \in [Workers -> SoundRequest]
  BY <1>4, <1>5, FinishType, RequestType DEF SavePart
<1>. QED
  BY <1>3, <1>6 DEF SavePart, Typed, TypeOK, Owned, SoundRequest

LEMMA SaveBudgetType ==
  ASSUME Typed, NEW w \in Workers, SaveBudget(w)
  PROVE  Typed'
<1>1. req[w] \in SoundRequest /\ req[w].step = "saveBudget"
  BY DEF Typed, SaveBudget
<1>2. RequestShape([req[w] EXCEPT !.step = "findOrder"])
  BY <1>1 DEF SoundRequest, RequestShape, Request, Op
<1>3. req' \in [Workers -> SoundRequest]
  BY <1>2, GoToType DEF SaveBudget, Step
<1>4. PICK v \in BudgetStatus : v = Verdict(req[w].op)
  BY DEF Verdict, BudgetStatus
<1>5. budgets' = [budgets EXCEPT ![req[w].bid].status = v]
  BY <1>4 DEF SaveBudget
<1>6. budgets' \in [Budgets -> BudgetRow] /\ Owned'
  BY <1>5 DEF Typed, TypeOK, Owned, BudgetRow
<1>. QED
  BY <1>3, <1>6 DEF SaveBudget, Typed, TypeOK, SoundRequest

LEMMA FindOrderType ==
  ASSUME Typed, NEW w \in Workers, FindOrder(w)
  PROVE  Typed'
<1>1. req[w] \in SoundRequest /\ req[w].step = "findOrder"
  BY DEF Typed, FindOrder
<1>2. orders[req[w].oid] \in OrderRow /\ req[w].bid \in Budgets
  BY <1>1 DEF Typed, TypeOK, SoundRequest, RequestShape, Request, Op
<1>3. PICK so \in OrderRow :
        so = IF req[w].op = "approve" THEN SetBudget(orders[req[w].oid], req[w].bid)
             ELSE ChangeStatus(orders[req[w].oid], "ENCERRADA_SEM_EXECUCAO", "system")
  BY <1>2, LinkType, ChangeStatusType DEF ServiceOrderStatus
<1>4. PICK dirty \in SUBSET OrderColumn :
        dirty = IF req[w].op = "refuse" THEN {"history"} ELSE {}
  BY DEF OrderColumn
<1>5. [req[w] EXCEPT !.entity = so, !.step = "saveOrder", !.dirty = dirty] \in SoundRequest
  BY <1>1 DEF SoundRequest, RequestShape, Request, Op, Step
<1>6. req' \in [Workers -> SoundRequest]
  <2> DEFINE r == [req[w] EXCEPT !.entity = so, !.step = "saveOrder", !.dirty = dirty]
  <2>1. Finish(w) \/ req' = [req EXCEPT ![w] = r]
    BY <1>3, <1>4 DEF FindOrder
  <2>. QED
    BY <1>5, <2>1, FinishType, RequestType
<1>. QED
  BY <1>6 DEF FindOrder, Typed, TypeOK, Owned, SoundRequest, tables

LEMMA SaveOrderType ==
  ASSUME Typed, NEW w \in Workers, SaveOrder(w)
  PROVE  Typed'
<1>1. req[w] \in SoundRequest /\ req[w].step = "saveOrder"
  BY DEF Typed, SaveOrder
<1>2. PICK dirty \in SUBSET OrderColumn :
        dirty = req[w].dirty \union Differing(orders[req[w].oid], req[w].entity)
  BY <1>1 DEF SoundRequest, Request, Differing
<1>3. [req[w] EXCEPT !.dirty = dirty, !.step = "updateOrder"] \in SoundRequest
  BY <1>1 DEF SoundRequest, RequestShape, Request, Op, Step
<1>4. req' \in [Workers -> SoundRequest]
  <2> DEFINE r == [req[w] EXCEPT !.dirty = dirty, !.step = "updateOrder"]
  <2>1. req' = [req EXCEPT ![w] = r]
    BY <1>2 DEF SaveOrder
  <2>. QED
    BY <1>3, <2>1, RequestType
<1>. QED
  BY <1>4 DEF SaveOrder, Typed, TypeOK, Owned, SoundRequest, tables

LEMMA UpdateOrderType ==
  ASSUME Typed, NEW w \in Workers, UpdateOrder(w)
  PROVE  Typed'
<1>1. req' \in [Workers -> SoundRequest]
  BY FinishType DEF UpdateOrder
<1>2. req[w] \in Request /\ orders \in [Orders -> OrderRow]
  BY DEF Typed, TypeOK, SoundRequest
<1>3. \A o \in Orders : Overwrite(orders[o], req[w].entity, req[w].dirty) \in OrderRow
  BY <1>2, OverwriteType DEF Request
<1>4. orders' \in [Orders -> OrderRow]
  BY <1>2, <1>3 DEF UpdateOrder
<1>. QED
  BY <1>1, <1>4 DEF UpdateOrder, Typed, TypeOK, Owned, SoundRequest

LEMMA RequestStepType ==
  ASSUME Typed, NEW w \in Workers, RequestStep(w)
  PROVE  Typed'
  BY InsertOrderType, ResolveLinesType, FindLatestType, InsertBudgetType,
     ReadPartType, SavePartType, SaveBudgetType, FindOrderType, SaveOrderType,
     UpdateOrderType
  DEF RequestStep

LEMMA InterruptType ==
  ASSUME Typed, NEW w \in Workers, Interrupt(w)
  PROVE  Typed'
  BY FinishType DEF Interrupt, Typed, TypeOK, Owned, SoundRequest, tables

LEMMA RemovalType ==
  ASSUME Typed, Removal
  PROVE  Typed'
<1>1. ASSUME NEW o \in Orders, RemoveOrder(o)
      PROVE  Typed'
  BY <1>1 DEF RemoveOrder, Typed, TypeOK, Owned, OrderRow, Presence, SoundRequest
<1>2. ASSUME NEW b \in Budgets, RemoveBudget(b)
      PROVE  Typed'
  BY <1>2 DEF RemoveBudget, Typed, TypeOK, Owned, BudgetRow, Presence, SoundRequest
<1>3. ASSUME NEW p \in Parts, RemovePart(p)
      PROVE  Typed'
  BY <1>3 DEF RemovePart, Typed, TypeOK, Owned, PartRow, Presence, SoundRequest
<1>. QED
  BY <1>1, <1>2, <1>3 DEF Removal

LEMMA TypedStep == Typed /\ [Next]_vars => Typed'
<1> SUFFICES ASSUME Typed, [Next]_vars PROVE Typed'
  OBVIOUS
<1>1. CASE Next
  BY <1>1, ArrivalType, RequestStepType, InterruptType, RemovalType DEF Next
<1>2. CASE UNCHANGED vars
  BY <1>2 DEF vars, Typed, TypeOK, Owned, SoundRequest
<1>. QED
  BY <1>1, <1>2

LEMMA AlwaysTyped == Spec => []Typed
  BY InitType, TypedStep, PTL DEF Spec

\* No step of any request takes a table or a request out of its type, for any
\* number of orders, budgets, parts and requests.
THEOREM TypeCorrect == Spec => []TypeOK
  BY AlwaysTyped, PTL DEF Typed

-----------------------------------------------------------------------------
(* Stock.  What keeps it from going negative is not the row but the entity *)
(* a request holds: each part still to be saved was read with enough.      *)

EntitiesCovered ==
  \A w \in Workers : \A p \in req[w].toSave : req[w].stock[p] - req[w].demand[p] >= 0

StockInv == Typed /\ StockNeverNegative /\ EntitiesCovered

LEMMA StockInit == Init => StockNeverNegative /\ EntitiesCovered
  BY StockAssumption DEF Init, StockNeverNegative, EntitiesCovered, Idle

LEMMA ArrivalCovered ==
  ASSUME StockInv, NEW w \in Workers, Arrival(w)
  PROVE  EntitiesCovered'
<1>1. \A v \in Workers \ {w} : req'[v] = req[v]
  BY DEF StockInv, Typed, Arrival, Arrive, StartCreate, StartCreateWithItems,
         StartQuote, StartApprove, StartRefuse, StartChangeStatus, StartEditOrder,
         StartAdjustStock, StartEditPart
<1>2. SUFFICES \A p \in req'[w].toSave : req'[w].stock[p] - req'[w].demand[p] >= 0
  BY <1>1 DEF EntitiesCovered, StockInv
<1>3. req \in [Workers -> Request] /\ parts \in [Parts -> PartRow]
      /\ \A p \in Parts : parts[p].stock \in Int /\ parts[p].stock >= 0
  BY DEF StockInv, Typed, TypeOK, StockNeverNegative, PartRow
<1>4. ASSUME NEW p \in Parts, NEW q \in Adjustments, StartAdjustStock(w, p, q)
      PROVE  \A s \in req'[w].toSave : req'[w].stock[s] - req'[w].demand[s] >= 0
  <2>1. /\ req'[w].toSave = {p}
        /\ req'[w].stock[p] = parts[p].stock /\ req'[w].demand[p] = -q
    BY <1>3, <1>4 DEF StartAdjustStock, Arrive, Idle, Nothing
  <2>. QED
    BY <1>3, <1>4, <2>1, AdjustAssumption DEF StartAdjustStock
<1>5. ASSUME NEW p \in Parts, StartEditPart(w, p)
      PROVE  \A s \in req'[w].toSave : req'[w].stock[s] - req'[w].demand[s] >= 0
  <2>1. /\ req'[w].toSave = {p}
        /\ req'[w].stock[p] = parts[p].stock /\ req'[w].demand[p] = 0
    BY <1>3, <1>5 DEF StartEditPart, Arrive, Idle, Nothing
  <2>. QED
    BY <1>3, <2>1
<1>6. CASE req'[w].toSave = {}
  BY <1>6
<1>7. req'[w].toSave = {} \/ \E p \in Parts :
        StartEditPart(w, p) \/ \E q \in Adjustments : StartAdjustStock(w, p, q)
  <2>1. ASSUME NEW o \in Orders, StartCreate(w, o)  PROVE  req'[w].toSave = {}
    BY <1>3, <2>1 DEF StartCreate, Arrive, Idle
  <2>2. ASSUME NEW o \in Orders, NEW b \in Budgets, NEW d \in Demands,
               StartCreateWithItems(w, o, b, d)
        PROVE  req'[w].toSave = {}
    BY <1>3, <2>2 DEF StartCreateWithItems, Arrive, Idle
  <2>3. ASSUME NEW o \in Orders, NEW b \in Budgets, NEW d \in Demands,
               StartQuote(w, o, b, d)
        PROVE  req'[w].toSave = {}
    BY <1>3, <2>3 DEF StartQuote, Arrive, Idle
  <2>4. ASSUME NEW b \in Budgets, StartApprove(w, b)  PROVE  req'[w].toSave = {}
    BY <1>3, <2>4 DEF StartApprove, Arrive, Idle
  <2>5. ASSUME NEW b \in Budgets, StartRefuse(w, b)  PROVE  req'[w].toSave = {}
    BY <1>3, <2>5 DEF StartRefuse, Arrive, Idle
  <2>6. ASSUME NEW o \in Orders, NEW to \in ServiceOrderStatus,
               StartChangeStatus(w, o, to)
        PROVE  req'[w].toSave = {}
    BY <1>3, <2>6 DEF StartChangeStatus, Arrive, Idle
  <2>7. ASSUME NEW o \in Orders, StartEditOrder(w, o)  PROVE  req'[w].toSave = {}
    BY <1>3, <2>7 DEF StartEditOrder, Arrive, Idle
  <2>. QED
    BY <2>1, <2>2, <2>3, <2>4, <2>5, <2>6, <2>7 DEF Arrival
<1>. QED
  BY <1>4, <1>5, <1>6, <1>7

\* The steps that neither write a part nor hold another one.
LEMMA OtherStepsCovered ==
  ASSUME StockInv, NEW w \in Workers,
         \/ InsertOrder(w) \/ ResolveLines(w) \/ FindLatest(w) \/ InsertBudget(w)
         \/ SaveBudget(w) \/ FindOrder(w) \/ SaveOrder(w) \/ UpdateOrder(w)
         \/ Interrupt(w)
  PROVE  (StockNeverNegative /\ EntitiesCovered)'
<1>1. UNCHANGED parts
  BY DEF InsertOrder, ResolveLines, FindLatest, InsertBudget, SaveBudget, FindOrder,
         SaveOrder, UpdateOrder, Interrupt, tables
<1>2. req \in [Workers -> Request]
  BY DEF StockInv, Typed, TypeOK
<1>3. \A v \in Workers \ {w} : req'[v] = req[v]
  BY <1>2 DEF InsertOrder, ResolveLines, FindLatest, InsertBudget, SaveBudget, FindOrder,
         SaveOrder, UpdateOrder, Interrupt, Finish, GoTo
<1>4. \/ req'[w].toSave = {}
      \/ /\ req'[w].toSave = req[w].toSave /\ req'[w].stock = req[w].stock
         /\ req'[w].demand = req[w].demand
  <2>1. CASE Finish(w)
    BY <1>2, <2>1 DEF Finish, Idle
  <2>2. CASE \E s \in Step : GoTo(w, s)
    BY <1>2, <2>2 DEF GoTo, Request
  <2>3. CASE FindLatest(w)
    BY <1>2, <2>3 DEF FindLatest, Request
  <2>4. CASE InsertBudget(w)
    BY <1>2, <2>4 DEF InsertBudget, Request
  <2>5. CASE FindOrder(w)
    BY <1>2, <2>1, <2>5 DEF FindOrder, Request
  <2>6. CASE SaveOrder(w)
    BY <1>2, <2>6 DEF SaveOrder, Request
  <2>. QED
    BY <2>1, <2>2, <2>3, <2>4, <2>5, <2>6
    DEF InsertOrder, ResolveLines, SaveBudget, UpdateOrder, Interrupt, Step
<1>. QED
  BY <1>1, <1>3, <1>4 DEF StockInv, StockNeverNegative, EntitiesCovered

LEMMA ReadPartCovered ==
  ASSUME StockInv, NEW w \in Workers, NEW p \in Parts, ReadPart(w, p)
  PROVE  (StockNeverNegative /\ EntitiesCovered)'
<1>1. UNCHANGED parts
  BY DEF ReadPart, tables
<1>2. req \in [Workers -> Request] /\ parts \in [Parts -> PartRow]
  BY DEF StockInv, Typed, TypeOK
<1>3. \A v \in Workers \ {w} : req'[v] = req[v]
  BY <1>2 DEF ReadPart, Finish
<1>4. CASE Finish(w)
  BY <1>1, <1>2, <1>3, <1>4 DEF Finish, Idle, StockInv, StockNeverNegative, EntitiesCovered
<1>5. CASE ~Finish(w)
  <2>1. /\ parts[p].stock >= req[w].demand[p]
        /\ req'[w].toSave = req[w].toSave \union {p}
        /\ req'[w].demand = req[w].demand
        /\ req'[w].stock = [req[w].stock EXCEPT ![p] = parts[p].stock]
    BY <1>2, <1>5, SMTT(30) DEF ReadPart, Request
  <2>2. /\ req[w].stock \in [Parts -> Int] /\ req[w].demand \in [Parts -> Int]
        /\ req[w].toSave \subseteq Parts /\ parts[p].stock \in Int
    BY <1>2 DEF Request, PartRow
  <2>3. \A s \in req'[w].toSave : req'[w].stock[s] - req'[w].demand[s] >= 0
    BY <2>1, <2>2 DEF StockInv, EntitiesCovered
  <2>. QED
    BY <1>1, <1>3, <2>3 DEF StockInv, StockNeverNegative, EntitiesCovered
<1>. QED
  BY <1>4, <1>5

LEMMA SavePartCovered ==
  ASSUME StockInv, NEW w \in Workers, NEW p \in Parts, SavePart(w, p)
  PROVE  (StockNeverNegative /\ EntitiesCovered)'
<1>1. req \in [Workers -> Request] /\ parts \in [Parts -> PartRow]
  BY DEF StockInv, Typed, TypeOK
<1>2. req[w].stock[p] - req[w].demand[p] >= 0
  BY DEF SavePart, StockInv, EntitiesCovered
<1>3. StockNeverNegative'
  BY <1>1, <1>2 DEF SavePart, StockInv, StockNeverNegative, PartRow
<1>4. \A v \in Workers \ {w} : req'[v] = req[v]
  BY <1>1 DEF SavePart, Finish
<1>5. \/ req'[w].toSave = {}
      \/ /\ req'[w].toSave = req[w].toSave \ {p} /\ req'[w].stock = req[w].stock
         /\ req'[w].demand = req[w].demand
  BY <1>1 DEF SavePart, Finish, Idle, Request
<1>. QED
  BY <1>3, <1>4, <1>5 DEF StockInv, EntitiesCovered

LEMMA StockStep == StockInv /\ [Next]_vars => (StockNeverNegative /\ EntitiesCovered)'
<1> SUFFICES ASSUME StockInv, [Next]_vars
             PROVE  (StockNeverNegative /\ EntitiesCovered)'
  OBVIOUS
<1>1. ASSUME NEW w \in Workers, Arrival(w)
      PROVE  (StockNeverNegative /\ EntitiesCovered)'
  <2>1. UNCHANGED parts
    BY <1>1 DEF Arrival, StartCreate, StartCreateWithItems, StartQuote, StartApprove,
                StartRefuse, StartChangeStatus, StartEditOrder, StartAdjustStock,
                StartEditPart, tables
  <2>. QED
    BY <1>1, <2>1, ArrivalCovered DEF StockInv, StockNeverNegative
<1>2. ASSUME NEW w \in Workers, RequestStep(w) \/ Interrupt(w)
      PROVE  (StockNeverNegative /\ EntitiesCovered)'
  BY <1>2, OtherStepsCovered, ReadPartCovered, SavePartCovered DEF RequestStep
<1>3. CASE Removal
  <2>1. UNCHANGED req
    BY <1>3 DEF Removal, RemoveOrder, RemoveBudget, RemovePart
  <2>2. \A p \in Parts : parts'[p].stock = parts[p].stock
    BY <1>3 DEF Removal, RemoveOrder, RemoveBudget, RemovePart, StockInv, Typed, TypeOK, PartRow
  <2>. QED
    BY <2>1, <2>2 DEF StockInv, StockNeverNegative, EntitiesCovered
<1>4. CASE UNCHANGED vars
  BY <1>4 DEF vars, StockInv, StockNeverNegative, EntitiesCovered
<1>. QED
  BY <1>1, <1>2, <1>3, <1>4 DEF Next

\* However requests interleave, and whatever lost updates that brings, no part
\* ever has a negative stock.
THEOREM StockSafe == Spec => []StockNeverNegative
<1>1. Init => StockInv
  BY InitType, StockInit DEF StockInv
<1>2. StockInv /\ [Next]_vars => StockInv'
  BY TypedStep, StockStep DEF StockInv
<1>. QED
  BY <1>1, <1>2, PTL DEF Spec, StockInv

-----------------------------------------------------------------------------
(* Budgets and the orders linked to them.                                  *)

Quoting == {"insertOrder", "resolve", "findLatest", "insertBudget"}

\* The budget a request is about to insert is nobody else's.
QuotesAreFresh ==
  \A w \in Workers :
    req[w].step \in Quoting /\ req[w].bid # NoBudget =>
      /\ budgets[req[w].bid].row = "absent"
      /\ \A v \in Workers \ {w} : req[v].step \in Quoting => req[v].bid # req[w].bid

AbsentIsUndecided ==
  \A b \in Budgets : budgets[b].row = "absent" => budgets[b].status = "PENDENTE"

\* A decision works on a saved budget and its own order, and from findOrder on
\* the decision itself is saved.
DecisionsAreSaved ==
  \A w \in Workers : req[w].op \in {"approve", "refuse"} =>
    /\ budgets[req[w].bid].row # "absent"
    /\ budgets[req[w].bid].order = req[w].oid
    /\ req[w].step \in {"findOrder", "saveOrder", "updateOrder"} =>
         budgets[req[w].bid].status # "PENDENTE"

\* The order entities in memory are linked like the rows they came from.
EntitiesLinked ==
  \A w \in Workers :
    req[w].entity.budgetId # NoBudget => DecidedBudgetOf(req[w].oid, req[w].entity.budgetId)

LinkInv ==
  /\ Typed
  /\ QuotesAreFresh /\ AbsentIsUndecided /\ DecisionsAreSaved
  /\ EntitiesLinked /\ LinkedBudgetWasDecided

LEMMA LinkInit == Init => LinkInv
<1> SUFFICES ASSUME Init PROVE LinkInv
  OBVIOUS
<1>1. Typed
  BY InitType
<1>2. \A w \in Workers : req[w] = Idle
  BY DEF Init
<1>3. QuotesAreFresh /\ DecisionsAreSaved
  BY <1>2 DEF QuotesAreFresh, DecisionsAreSaved, Idle, Quoting
<1>4. EntitiesLinked
  BY <1>2 DEF EntitiesLinked, Idle, NewServiceOrder
<1>5. LinkedBudgetWasDecided
  <2>1. AdvanceToAwaitingApproval(NewServiceOrder).budgetId = NoBudget
    BY DEF AdvanceToAwaitingApproval, ChangeStatus, NewServiceOrder
  <2>. QED
    BY <2>1 DEF Init, LinkedBudgetWasDecided, AbsentOrder, NewServiceOrder
<1>6. AbsentIsUndecided
  BY DEF Init, AbsentIsUndecided, AbsentBudget, NewBudget
<1>. QED
  BY <1>1, <1>3, <1>4, <1>5, <1>6 DEF LinkInv

\* A step of one request leaves the memory of the others alone.
LEMMA OthersUntouched ==
  ASSUME Typed, NEW w \in Workers, Arrival(w) \/ RequestStep(w) \/ Interrupt(w)
  PROVE  \A v \in Workers \ {w} : req'[v] = req[v]
<1>1. req \in [Workers -> SoundRequest]
  BY DEF Typed
<1>2. CASE Arrival(w)
  BY <1>1, <1>2
  DEF Arrival, Arrive, StartCreate, StartCreateWithItems, StartQuote, StartApprove,
      StartRefuse, StartChangeStatus, StartEditOrder, StartAdjustStock, StartEditPart
<1>3. CASE RequestStep(w)
  BY <1>1, <1>3
  DEF RequestStep, InsertOrder, ResolveLines, FindLatest, InsertBudget, SaveBudget,
      FindOrder, SaveOrder, UpdateOrder, ReadPart, SavePart, Finish, GoTo
<1>4. CASE Interrupt(w)
  BY <1>1, <1>4 DEF Interrupt, Finish
<1>. QED
  BY <1>2, <1>3, <1>4

\* The steps that write the budgets table.
LEMMA BudgetWrites ==
  ASSUME [Next]_vars
  PROVE  \/ UNCHANGED budgets
         \/ \E w \in Workers : InsertBudget(w) \/ SaveBudget(w)
         \/ \E b \in Budgets : RemoveBudget(b)
<1>1. ASSUME NEW w \in Workers, Arrival(w)  PROVE  UNCHANGED budgets
  BY <1>1
  DEF Arrival, StartCreate, StartCreateWithItems, StartQuote, StartApprove, StartRefuse,
      StartChangeStatus, StartEditOrder, StartAdjustStock, StartEditPart, tables
<1>2. ASSUME NEW w \in Workers, RequestStep(w)
      PROVE  UNCHANGED budgets \/ InsertBudget(w) \/ SaveBudget(w)
  BY <1>2
  DEF RequestStep, InsertOrder, ResolveLines, FindLatest, FindOrder, SaveOrder,
      UpdateOrder, ReadPart, SavePart, tables
<1>3. ASSUME NEW w \in Workers, Interrupt(w)  PROVE  UNCHANGED budgets
  BY <1>3 DEF Interrupt, tables
<1>4. Removal => UNCHANGED budgets \/ \E b \in Budgets : RemoveBudget(b)
  BY DEF Removal, RemoveOrder, RemovePart
<1>5. UNCHANGED vars => UNCHANGED budgets
  BY DEF vars
<1>. QED
  BY <1>1, <1>2, <1>3, <1>4, <1>5 DEF Next

\* A saved budget stays, stays with its order, and stays decided once it is; a
\* budget appears only where a request had reserved its id.
LEMMA BudgetsEndure ==
  ASSUME LinkInv, [Next]_vars
  PROVE  \A b \in Budgets :
           /\ budgets[b].row # "absent" =>
                budgets'[b].row # "absent" /\ budgets'[b].order = budgets[b].order
           /\ budgets[b].status # "PENDENTE" => budgets'[b].status # "PENDENTE"
           /\ budgets[b].row = "absent" /\ budgets'[b].row # "absent" =>
                \E w \in Workers : InsertBudget(w) /\ b = req[w].bid
<1>1. budgets \in [Budgets -> BudgetRow] /\ req \in [Workers -> SoundRequest]
  BY DEF LinkInv, Typed, TypeOK
<1>2. ASSUME NEW w \in Workers, InsertBudget(w)
      PROVE  /\ req[w].bid \in Budgets /\ budgets[req[w].bid].row = "absent"
             /\ budgets[req[w].bid].status = "PENDENTE"
             /\ \A b \in Budgets \ {req[w].bid} : budgets'[b] = budgets[b]
  <2>1. req[w].bid \in Budgets /\ req[w].step \in Quoting
    BY <1>1, <1>2 DEF InsertBudget, SoundRequest, RequestShape, Quoting
  <2>. QED
    BY <1>1, <1>2, <2>1, NoneAssumption
    DEF InsertBudget, LinkInv, QuotesAreFresh, AbsentIsUndecided
<1>3. ASSUME NEW w \in Workers, SaveBudget(w)
      PROVE  \A b \in Budgets :
               /\ budgets'[b].row = budgets[b].row /\ budgets'[b].order = budgets[b].order
               /\ budgets'[b].status = budgets[b].status \/ budgets'[b].status # "PENDENTE"
  BY <1>1, <1>3 DEF SaveBudget, Verdict, BudgetRow
<1>4. ASSUME NEW b \in Budgets, RemoveBudget(b)
      PROVE  \A c \in Budgets :
               /\ budgets'[c].row = "absent" <=> budgets[c].row = "absent"
               /\ budgets'[c].order = budgets[c].order
               /\ budgets'[c].status = budgets[c].status
  BY <1>1, <1>4 DEF RemoveBudget, BudgetRow
<1>. QED
  BY <1>2, <1>3, <1>4, BudgetWrites

\* DecidedBudgetOf in a table given, so that it can be said of the next one.
DecidedIn(table, o, b) ==
  /\ b \in Budgets
  /\ table[b].row # "absent" /\ table[b].order = o
  /\ table[b].status # "PENDENTE"

LEMMA DecidedEndures ==
  ASSUME LinkInv, [Next]_vars
  PROVE  \A o, b : DecidedBudgetOf(o, b) => DecidedIn(budgets', o, b)
  BY BudgetsEndure DEF DecidedBudgetOf, DecidedIn

\* A request at a quoting step has just reserved a fresh id, or keeps its own.
LEMMA QuotingStep ==
  ASSUME LinkInv, NEW w \in Workers, Arrival(w) \/ RequestStep(w) \/ Interrupt(w),
         req'[w].step \in Quoting
  PROVE  \/ req'[w].bid = NoBudget
         \/ FreshBudget(req'[w].bid)
         \/ req[w].step \in Quoting /\ req'[w].bid = req[w].bid
<1>1. req \in [Workers -> Request] /\ req \in [Workers -> SoundRequest]
  BY DEF LinkInv, Typed, SoundRequest
<1>2. CASE Finish(w)
  BY <1>1, <1>2 DEF Finish, Idle
<1>3. ASSUME NEW s \in Step, GoTo(w, s)
      PROVE  req'[w].bid = req[w].bid /\ req'[w].step = s
  BY <1>1, <1>3 DEF GoTo, Request
<1>4. CASE InsertOrder(w) \/ ResolveLines(w)
  BY <1>2, <1>3, <1>4 DEF InsertOrder, ResolveLines, Quoting, Step
<1>5. CASE FindLatest(w)
  BY <1>1, <1>5 DEF FindLatest, Request, Quoting
<1>6. CASE InsertBudget(w)
  BY <1>1, <1>6 DEF InsertBudget, Request, Quoting
<1>7. CASE SaveBudget(w)
  BY <1>3, <1>7 DEF SaveBudget, Quoting, Step
<1>8. CASE FindOrder(w)
  BY <1>1, <1>2, <1>8 DEF FindOrder, Request, Quoting
<1>9. CASE SaveOrder(w)
  BY <1>1, <1>9 DEF SaveOrder, Request, Quoting
<1>10. CASE UpdateOrder(w) \/ Interrupt(w)
  BY <1>2, <1>10 DEF UpdateOrder, Interrupt
<1>11. CASE \E p \in Parts : ReadPart(w, p)
  BY <1>1, <1>2, <1>11 DEF ReadPart, AfterReading, Request, Quoting
<1>12. CASE \E p \in Parts : SavePart(w, p)
  BY <1>1, <1>2, <1>12 DEF SavePart, Request, Quoting
<1>13. CASE Arrival(w)
  <2>1. CASE \E o \in Orders : StartCreate(w, o)
    BY <1>1, <2>1 DEF StartCreate, Arrive, Idle
  <2>2. CASE \E o \in Orders, b \in Budgets, d \in Demands :
               StartCreateWithItems(w, o, b, d) \/ StartQuote(w, o, b, d)
    <3>1. ASSUME NEW o \in Orders, NEW b \in Budgets, NEW d \in Demands,
                 StartCreateWithItems(w, o, b, d)
          PROVE  FreshBudget(b) /\ req'[w].bid = b
      BY <1>1, <3>1, SMTT(30) DEF StartCreateWithItems, Arrive, Idle
    <3>2. ASSUME NEW o \in Orders, NEW b \in Budgets, NEW d \in Demands,
                 StartQuote(w, o, b, d)
          PROVE  FreshBudget(b) /\ req'[w].bid = b
      BY <1>1, <3>2, SMTT(30) DEF StartQuote, Arrive, Idle
    <3>. QED
      BY <2>2, <3>1, <3>2
  <2>3. CASE \E b \in Budgets : StartApprove(w, b) \/ StartRefuse(w, b)
    <3>1. ASSUME NEW b \in Budgets, StartApprove(w, b)
          PROVE  req'[w].step \in {"saveBudget", "readParts"}
      <4> DEFINE first == IF Asked(budgets[b].demand) = {} THEN "saveBudget" ELSE "readParts"
      <4>1. req'[w].step = first
        <5> HIDE DEF first
        <5>. QED  BY <1>1, <3>1 DEF first, StartApprove, Arrive, Idle
      <4>. QED
        BY <4>1
    <3>2. ASSUME NEW b \in Budgets, StartRefuse(w, b)
          PROVE  req'[w].step = "saveBudget"
      BY <1>1, <3>2 DEF StartRefuse, Arrive, Idle
    <3>. QED
      BY <2>3, <3>1, <3>2 DEF Quoting
  <2>4. CASE \/ \E o \in Orders, to \in ServiceOrderStatus : StartChangeStatus(w, o, to)
             \/ \E o \in Orders : StartEditOrder(w, o)
    BY <1>1, <2>4, ZenonT(60) DEF StartChangeStatus, StartEditOrder, Arrive, Idle, Quoting
  <2>5. CASE \/ \E p \in Parts, q \in Adjustments : StartAdjustStock(w, p, q)
             \/ \E p \in Parts : StartEditPart(w, p)
    BY <1>1, <2>5, ZenonT(60) DEF StartAdjustStock, StartEditPart, Arrive, Idle, Quoting
  <2>. QED
    BY <1>13, <2>1, <2>2, <2>3, <2>4, <2>5 DEF Arrival
<1>. QED
  BY <1>4, <1>5, <1>6, <1>7, <1>8, <1>9, <1>10, <1>11, <1>12, <1>13 DEF RequestStep

LEMMA FreshStep ==
  ASSUME LinkInv, [Next]_vars
  PROVE  QuotesAreFresh'
<1>1. SUFFICES ASSUME NEW v \in Workers, req'[v].step \in Quoting, req'[v].bid # NoBudget
               PROVE  /\ budgets'[req'[v].bid].row = "absent"
                      /\ \A u \in Workers \ {v} :
                           req'[u].step \in Quoting => req'[u].bid # req'[v].bid
  BY DEF QuotesAreFresh
<1>2. req'[v] \in SoundRequest
  BY TypedStep DEF LinkInv, Typed
<1>3. req'[v].bid \in Budgets
  BY <1>1, <1>2 DEF SoundRequest, Request
<1>4. \A u \in Workers :
        \/ req'[u].step = req[u].step /\ req'[u].bid = req[u].bid
        \/ req'[u].step \in Quoting =>
             \/ req'[u].bid = NoBudget
             \/ FreshBudget(req'[u].bid)
             \/ req[u].step \in Quoting /\ req'[u].bid = req[u].bid
  <2>1. CASE \E w \in Workers : Arrival(w) \/ RequestStep(w) \/ Interrupt(w)
    BY <2>1, OthersUntouched, QuotingStep DEF LinkInv
  <2>2. CASE Removal \/ UNCHANGED vars
    BY <2>2 DEF Removal, RemoveOrder, RemoveBudget, RemovePart, vars
  <2>. QED
    BY <2>1, <2>2 DEF Next
<1>5. \A u \in Workers \ {v} : req'[u].step \in Quoting => req'[u].bid # req'[v].bid
  <2>1. SUFFICES ASSUME NEW u \in Workers \ {v}, req'[u].step \in Quoting,
                        req'[u].bid = req'[v].bid
                 PROVE  FALSE
    OBVIOUS
  <2>2. ~(req'[u].step = req[u].step /\ req'[u].bid = req[u].bid
          /\ req'[v].step = req[v].step /\ req'[v].bid = req[v].bid)
    BY <1>1, <2>1 DEF LinkInv, QuotesAreFresh
  <2>3. PICK w \in Workers : Arrival(w) \/ RequestStep(w) \/ Interrupt(w)
    BY <2>2 DEF Next, Removal, RemoveOrder, RemoveBudget, RemovePart, vars
  <2>4. \A x \in Workers \ {w} : req'[x] = req[x]
    BY <2>3, OthersUntouched DEF LinkInv
  <2>. QED
    BY <1>1, <1>4, <2>1, <2>2, <2>3, <2>4 DEF LinkInv, QuotesAreFresh, FreshBudget
<1>6. budgets[req'[v].bid].row = "absent"
  BY <1>1, <1>4 DEF LinkInv, QuotesAreFresh, FreshBudget
<1>7. ASSUME NEW w \in Workers, InsertBudget(w), req[w].bid = req'[v].bid
      PROVE  FALSE
  <2>1. req[w].step \in Quoting /\ req[w] \in SoundRequest
    BY <1>7 DEF InsertBudget, Quoting, LinkInv, Typed
  <2>2. req'[w].step = "saveOrder"
    BY <1>7, <2>1 DEF InsertBudget, LinkInv, Typed, SoundRequest, Request
  <2>3. v # w
    BY <1>1, <2>2 DEF Quoting
  <2>4. req'[v] = req[v]
    BY <1>7, <2>3, OthersUntouched DEF RequestStep, LinkInv
  <2>. QED
    BY <1>1, <1>7, <2>1, <2>3, <2>4 DEF LinkInv, QuotesAreFresh
<1>8. budgets'[req'[v].bid].row = "absent"
  BY <1>3, <1>6, <1>7, BudgetsEndure
<1>. QED
  BY <1>5, <1>8

LEMMA UndecidedStep ==
  ASSUME LinkInv, [Next]_vars
  PROVE  AbsentIsUndecided'
<1>1. budgets \in [Budgets -> BudgetRow] /\ req \in [Workers -> SoundRequest]
  BY DEF LinkInv, Typed, TypeOK
<1>2. ASSUME NEW w \in Workers, InsertBudget(w)  PROVE  AbsentIsUndecided'
  BY <1>1, <1>2 DEF InsertBudget, NewBudget, LinkInv, AbsentIsUndecided
<1>3. ASSUME NEW w \in Workers, SaveBudget(w)  PROVE  AbsentIsUndecided'
  <2>1. req[w].op \in {"approve", "refuse"}
    BY <1>1, <1>3 DEF SaveBudget, SoundRequest, RequestShape, Request, Op
  <2>2. budgets[req[w].bid].row # "absent"
    BY <2>1 DEF LinkInv, DecisionsAreSaved
  <2>3. \A b \in Budgets : budgets'[b].row = budgets[b].row
    BY <1>1, <1>3 DEF SaveBudget, BudgetRow
  <2>4. \A b \in Budgets \ {req[w].bid} : budgets'[b] = budgets[b]
    BY <1>1, <1>3 DEF SaveBudget
  <2>. QED
    BY <2>2, <2>3, <2>4 DEF LinkInv, AbsentIsUndecided
<1>4. ASSUME NEW b \in Budgets, RemoveBudget(b)  PROVE  AbsentIsUndecided'
  BY <1>1, <1>4 DEF RemoveBudget, BudgetRow, LinkInv, AbsentIsUndecided
<1>. QED
  BY <1>2, <1>3, <1>4, BudgetWrites DEF LinkInv, AbsentIsUndecided

\* What a step does to the identity of a decision: it starts on a live budget, or
\* goes on with the one it has; only SaveBudget brings it to findOrder.
LEMMA DecidingStep ==
  ASSUME LinkInv, NEW w \in Workers, Arrival(w) \/ RequestStep(w) \/ Interrupt(w),
         req'[w].op \in {"approve", "refuse"}
  PROVE  \/ /\ budgets[req'[w].bid].row = "live"
            /\ req'[w].bid \in Budgets
            /\ budgets[req'[w].bid].order = req'[w].oid
            /\ req'[w].step \in {"readParts", "saveBudget"}
         \/ /\ req'[w].op = req[w].op /\ req'[w].bid = req[w].bid
            /\ req'[w].oid = req[w].oid
            /\ \/ req'[w].step \in {"readParts", "saveParts", "saveBudget"}
               \/ req[w].step \in {"findOrder", "saveOrder", "updateOrder"}
               \/ SaveBudget(w)
<1>1. req \in [Workers -> Request] /\ req[w] \in SoundRequest
  BY DEF LinkInv, Typed, SoundRequest
<1>2. CASE Finish(w)
  BY <1>1, <1>2 DEF Finish, Idle
<1>3. ASSUME NEW s \in Step, GoTo(w, s)
      PROVE  req'[w].op = req[w].op /\ req'[w].bid = req[w].bid
             /\ req'[w].oid = req[w].oid /\ req'[w].step = s
  BY <1>1, <1>3 DEF GoTo, Request
<1>4. CASE InsertOrder(w) \/ ResolveLines(w)
  BY <1>1, <1>2, <1>3, <1>4
  DEF InsertOrder, ResolveLines, Step, SoundRequest, RequestShape
<1>5. CASE FindLatest(w) \/ InsertBudget(w)
  <2>1. req[w].op \notin {"approve", "refuse"}
    BY <1>1, <1>5 DEF FindLatest, InsertBudget, SoundRequest, RequestShape
  <2>2. FindLatest(w) => req'[w].op = req[w].op
    BY <1>1 DEF FindLatest, Request
  <2>3. InsertBudget(w) => req'[w].op = req[w].op
    BY <1>1 DEF InsertBudget, Request
  <2>. QED
    BY <1>5, <2>1, <2>2, <2>3
<1>6. CASE SaveBudget(w)
  BY <1>3, <1>6 DEF SaveBudget, Step
<1>7. CASE FindOrder(w)
  BY <1>1, <1>2, <1>7 DEF FindOrder, Request
<1>8. CASE SaveOrder(w)
  BY <1>1, <1>8 DEF SaveOrder, Request
<1>9. CASE UpdateOrder(w) \/ Interrupt(w)
  BY <1>2, <1>9 DEF UpdateOrder, Interrupt
<1>10. CASE \E p \in Parts : ReadPart(w, p)
  BY <1>1, <1>2, <1>10 DEF ReadPart, AfterReading, Request
<1>11. CASE \E p \in Parts : SavePart(w, p)
  BY <1>1, <1>2, <1>11 DEF SavePart, Request
<1>12. CASE Arrival(w)
  <2>1. CASE \E o \in Orders : StartCreate(w, o)
    BY <1>1, <2>1 DEF StartCreate, Arrive, Idle
  <2>2. CASE \E o \in Orders, b \in Budgets, d \in Demands :
               StartCreateWithItems(w, o, b, d) \/ StartQuote(w, o, b, d)
    <3>1. ASSUME NEW o \in Orders, NEW b \in Budgets, NEW d \in Demands,
                 StartCreateWithItems(w, o, b, d)
          PROVE  req'[w].op = "create"
      BY <1>1, <3>1 DEF StartCreateWithItems, Arrive, Idle
    <3>2. ASSUME NEW o \in Orders, NEW b \in Budgets, NEW d \in Demands,
                 StartQuote(w, o, b, d)
          PROVE  req'[w].op = "quote"
      BY <1>1, <3>2 DEF StartQuote, Arrive, Idle
    <3>. QED
      BY <2>2, <3>1, <3>2
  <2>3. ASSUME NEW b \in Budgets, StartApprove(w, b)
        PROVE  /\ budgets[b].row = "live"
               /\ req'[w].bid = b /\ req'[w].oid = budgets[b].order
               /\ req'[w].step \in {"readParts", "saveBudget"}
    <3> DEFINE first == IF Asked(budgets[b].demand) = {} THEN "saveBudget" ELSE "readParts"
    <3>1. req'[w].step = first /\ req'[w].bid = b /\ req'[w].oid = budgets[b].order
      <4> HIDE DEF first
      <4>. QED  BY <1>1, <2>3 DEF first, StartApprove, Arrive, Idle
    <3>. QED
      BY <2>3, <3>1 DEF StartApprove
  <2>4. ASSUME NEW b \in Budgets, StartRefuse(w, b)
        PROVE  /\ budgets[b].row = "live"
               /\ req'[w].bid = b /\ req'[w].oid = budgets[b].order
               /\ req'[w].step = "saveBudget"
    BY <1>1, <2>4 DEF StartRefuse, Arrive, Idle
  <2>5. CASE \/ \E o \in Orders, to \in ServiceOrderStatus : StartChangeStatus(w, o, to)
             \/ \E o \in Orders : StartEditOrder(w, o)
    BY <1>1, <2>5, ZenonT(60) DEF StartChangeStatus, StartEditOrder, Arrive, Idle
  <2>6. CASE \/ \E p \in Parts, q \in Adjustments : StartAdjustStock(w, p, q)
             \/ \E p \in Parts : StartEditPart(w, p)
    BY <1>1, <2>6, ZenonT(60) DEF StartAdjustStock, StartEditPart, Arrive, Idle
  <2>. QED
    BY <1>12, <2>1, <2>2, <2>3, <2>4, <2>5, <2>6 DEF Arrival
<1>. QED
  BY <1>4, <1>5, <1>6, <1>7, <1>8, <1>9, <1>10, <1>11, <1>12 DEF RequestStep

LEMMA DecisionStep ==
  ASSUME LinkInv, [Next]_vars
  PROVE  DecisionsAreSaved'
<1>1. SUFFICES ASSUME NEW v \in Workers, req'[v].op \in {"approve", "refuse"}
               PROVE  /\ budgets'[req'[v].bid].row # "absent"
                      /\ budgets'[req'[v].bid].order = req'[v].oid
                      /\ req'[v].step \in {"findOrder", "saveOrder", "updateOrder"} =>
                           budgets'[req'[v].bid].status # "PENDENTE"
  BY DEF DecisionsAreSaved
<1>2. req[v] \in SoundRequest
  BY DEF LinkInv, Typed
<1>3. CASE req'[v] = req[v]
  <2>1. req[v].bid \in Budgets
    BY <1>1, <1>2, <1>3 DEF SoundRequest, RequestShape
  <2>. QED
    BY <1>1, <1>3, <2>1, BudgetsEndure DEF LinkInv, DecisionsAreSaved
<1>4. CASE Arrival(v) \/ RequestStep(v) \/ Interrupt(v)
  <2>1. req'[v].op = req[v].op /\ req'[v].bid = req[v].bid => req[v].bid \in Budgets
    BY <1>1, <1>2 DEF SoundRequest, RequestShape
  <2>2. SaveBudget(v) => budgets'[req[v].bid].status # "PENDENTE" \/ req[v].bid \notin Budgets
    BY DEF SaveBudget, Verdict, LinkInv, Typed, TypeOK, BudgetRow
  <2>. QED
    BY <1>1, <1>4, <2>1, <2>2, DecidingStep, BudgetsEndure DEF LinkInv, DecisionsAreSaved
<1>5. CASE \E w \in Workers \ {v} : Arrival(w) \/ RequestStep(w) \/ Interrupt(w)
  BY <1>3, <1>5, OthersUntouched DEF LinkInv
<1>6. CASE Removal \/ UNCHANGED vars
  BY <1>3, <1>6 DEF Removal, RemoveOrder, RemoveBudget, RemovePart, vars
<1>. QED
  BY <1>4, <1>5, <1>6 DEF Next

\* Where the order entity a step leaves in memory comes from.
LEMMA EntityStep ==
  ASSUME LinkInv, NEW w \in Workers, Arrival(w) \/ RequestStep(w) \/ Interrupt(w)
  PROVE  \/ req'[w].entity = NewServiceOrder
         \/ /\ req'[w].oid \in Orders
            /\ \/ req'[w].entity = orders[req'[w].oid]
               \/ \E to \in ServiceOrderStatus :
                    /\ CanChangeStatus(orders[req'[w].oid], to)
                    /\ req'[w].entity = ChangeStatus(orders[req'[w].oid], to, "staff")
         \/ req'[w].oid = req[w].oid /\ req'[w].entity = req[w].entity
         \/ /\ InsertBudget(w) /\ req'[w].oid = req[w].oid
            /\ req'[w].entity = AdvanceToAwaitingApproval(req[w].entity)
         \/ /\ FindOrder(w) /\ req'[w].oid = req[w].oid /\ req[w].oid \in Orders
            /\ \/ /\ req[w].op = "approve"
                  /\ req'[w].entity = SetBudget(orders[req[w].oid], req[w].bid)
               \/ /\ orders[req[w].oid].status = "AGUARDANDO_APROVACAO"
                  /\ req'[w].entity = ChangeStatus(orders[req[w].oid],
                                        "ENCERRADA_SEM_EXECUCAO", "system")
<1>1. req \in [Workers -> Request] /\ req[w] \in SoundRequest
  BY DEF LinkInv, Typed, SoundRequest
<1>2. CASE Finish(w)
  BY <1>1, <1>2 DEF Finish, Idle
<1>3. CASE \E s \in Step : GoTo(w, s)
  BY <1>1, <1>3 DEF GoTo, Request
<1>4. CASE InsertOrder(w) \/ ResolveLines(w) \/ SaveBudget(w)
  BY <1>2, <1>3, <1>4 DEF InsertOrder, ResolveLines, SaveBudget, Step
<1>5. CASE FindLatest(w)
  BY <1>1, <1>5 DEF FindLatest, Request
<1>6. CASE InsertBudget(w)
  <2>1. /\ req'[w].oid = req[w].oid
        /\ req'[w].entity = AdvanceToAwaitingApproval(req[w].entity)
    BY <1>1, <1>6 DEF InsertBudget, Request
  <2>. QED
    BY <1>6, <2>1
<1>7. CASE FindOrder(w) /\ ~Finish(w)
  <2>1. req[w].oid \in Orders /\ req[w].op \in {"approve", "refuse"}
    BY <1>1, <1>7 DEF FindOrder, SoundRequest, RequestShape, Request, Op
  <2>2. req'[w].oid = req[w].oid
    BY <1>1, <1>7 DEF FindOrder, Request
  <2>3. CASE req[w].op = "approve"
    <3>1. req'[w].entity = SetBudget(orders[req[w].oid], req[w].bid)
      BY <1>1, <1>7, <2>3 DEF FindOrder, Request
    <3>. QED
      BY <1>7, <2>1, <2>2, <2>3, <3>1
  <2>4. CASE req[w].op = "refuse"
    <3>1. /\ orders[req[w].oid].status = "AGUARDANDO_APROVACAO"
          /\ req'[w].entity = ChangeStatus(orders[req[w].oid],
                                "ENCERRADA_SEM_EXECUCAO", "system")
      BY <1>1, <1>7, <2>4 DEF FindOrder, Request
    <3>. QED
      BY <1>7, <2>1, <2>2, <3>1
  <2>. QED
    BY <2>1, <2>3, <2>4
<1>8. CASE SaveOrder(w)
  BY <1>1, <1>8 DEF SaveOrder, Request
<1>9. CASE UpdateOrder(w) \/ Interrupt(w)
  BY <1>2, <1>9 DEF UpdateOrder, Interrupt
<1>10. CASE \E p \in Parts : ReadPart(w, p)
  BY <1>1, <1>2, <1>10 DEF ReadPart, Request
<1>11. CASE \E p \in Parts : SavePart(w, p)
  BY <1>1, <1>2, <1>11 DEF SavePart, Request
<1>12. CASE Arrival(w)
  <2>1. CASE \E o \in Orders : StartCreate(w, o)
    BY <1>1, <2>1 DEF StartCreate, Arrive, Idle
  <2>2. ASSUME NEW o \in Orders, NEW b \in Budgets, NEW d \in Demands,
               StartCreateWithItems(w, o, b, d)
        PROVE  req'[w].entity = NewServiceOrder
    BY <1>1, <2>2 DEF StartCreateWithItems, Arrive, Idle
  <2>3. ASSUME NEW o \in Orders, NEW b \in Budgets, NEW d \in Demands,
               StartQuote(w, o, b, d)
        PROVE  req'[w].oid = o /\ req'[w].entity = orders[o]
    BY <1>1, <2>3 DEF StartQuote, Arrive, Idle
  <2>4. ASSUME NEW b \in Budgets, StartApprove(w, b) \/ StartRefuse(w, b)
        PROVE  req'[w].entity = NewServiceOrder
    <3>1. CASE StartApprove(w, b)
      BY <1>1, <3>1 DEF StartApprove, Arrive, Idle
    <3>2. CASE StartRefuse(w, b)
      BY <1>1, <3>2 DEF StartRefuse, Arrive, Idle
    <3>. QED
      BY <2>4, <3>1, <3>2
  <2>5. ASSUME NEW o \in Orders, NEW to \in ServiceOrderStatus,
               StartChangeStatus(w, o, to)
        PROVE  /\ req'[w].oid = o /\ CanChangeStatus(orders[o], to)
               /\ req'[w].entity = ChangeStatus(orders[o], to, "staff")
    BY <1>1, <2>5 DEF StartChangeStatus, Arrive, Idle
  <2>6. ASSUME NEW o \in Orders, StartEditOrder(w, o)
        PROVE  req'[w].oid = o /\ req'[w].entity = orders[o]
    BY <1>1, <2>6 DEF StartEditOrder, Arrive, Idle
  <2>7. CASE \/ \E p \in Parts, q \in Adjustments : StartAdjustStock(w, p, q)
             \/ \E p \in Parts : StartEditPart(w, p)
    BY <1>1, <2>7 DEF StartAdjustStock, StartEditPart, Arrive, Idle
  <2>. QED
    BY <1>12, <2>1, <2>2, <2>3, <2>4, <2>5, <2>6, <2>7 DEF Arrival
<1>. QED
  BY <1>2, <1>4, <1>5, <1>6, <1>7, <1>8, <1>9, <1>10, <1>11, <1>12 DEF RequestStep

LEMMA EntitiesLinkedStep ==
  ASSUME LinkInv, [Next]_vars
  PROVE  EntitiesLinked'
<1>1. SUFFICES ASSUME NEW v \in Workers, req'[v].entity.budgetId # NoBudget
               PROVE  DecidedIn(budgets', req'[v].oid, req'[v].entity.budgetId)
  BY DEF EntitiesLinked, DecidedBudgetOf, DecidedIn
<1>2. req[v] \in SoundRequest /\ req[v].entity \in OrderRow
      /\ orders \in [Orders -> OrderRow]
  BY DEF LinkInv, Typed, TypeOK, SoundRequest, Request
<1>3. CASE req'[v].oid = req[v].oid /\ req'[v].entity = req[v].entity
  BY <1>1, <1>3, DecidedEndures DEF LinkInv, EntitiesLinked
<1>4. ASSUME NEW o \in Orders, req'[v].oid = o,
             req'[v].entity.budgetId = orders[o].budgetId
      PROVE  DecidedIn(budgets', req'[v].oid, req'[v].entity.budgetId)
  BY <1>1, <1>4, DecidedEndures DEF LinkInv, LinkedBudgetWasDecided
<1>5. \A to, by : \A o \in Orders :
        ChangeStatus(orders[o], to, by).budgetId = orders[o].budgetId
  BY <1>2 DEF ChangeStatus, OrderRow
<1>6. CASE Arrival(v) \/ RequestStep(v) \/ Interrupt(v)
  <2>1. CASE req'[v].entity = NewServiceOrder
    BY <1>1, <2>1 DEF NewServiceOrder
  <2>2. CASE InsertBudget(v) /\ req'[v].oid = req[v].oid
             /\ req'[v].entity = AdvanceToAwaitingApproval(req[v].entity)
    <3>1. AdvanceToAwaitingApproval(req[v].entity).budgetId
            \in {req[v].entity.budgetId, NoBudget}
      BY <1>2 DEF AdvanceToAwaitingApproval, ChangeStatus, ClearBudget, OrderRow
    <3>. QED
      BY <1>1, <2>2, <3>1, DecidedEndures DEF LinkInv, EntitiesLinked
  <2>3. CASE /\ FindOrder(v) /\ req'[v].oid = req[v].oid /\ req[v].oid \in Orders
             /\ req[v].op = "approve"
             /\ req'[v].entity = SetBudget(orders[req[v].oid], req[v].bid)
    <3>1. req'[v].entity.budgetId = req[v].bid
      BY <1>2, <2>3 DEF SetBudget, OrderRow
    <3>2. DecidedBudgetOf(req[v].oid, req[v].bid)
      BY <1>2, <2>3 DEF FindOrder, LinkInv, DecisionsAreSaved, DecidedBudgetOf,
                        SoundRequest, RequestShape
    <3>. QED
      BY <2>3, <3>1, <3>2, DecidedEndures
  <2>4. CASE /\ req'[v].oid \in Orders
             /\ \/ req'[v].entity = orders[req'[v].oid]
                \/ \E to \in ServiceOrderStatus :
                     req'[v].entity = ChangeStatus(orders[req'[v].oid], to, "staff")
    <3>1. req'[v].entity.budgetId = orders[req'[v].oid].budgetId
      BY <1>5, <2>4
    <3>. QED
      BY <1>4, <2>4, <3>1
  <2>5. CASE /\ req'[v].oid = req[v].oid /\ req[v].oid \in Orders
             /\ req'[v].entity = ChangeStatus(orders[req[v].oid],
                                   "ENCERRADA_SEM_EXECUCAO", "system")
    <3>1. req'[v].entity.budgetId = orders[req'[v].oid].budgetId
      BY <1>5, <2>5
    <3>. QED
      BY <1>4, <2>5, <3>1
  <2>. QED
    BY <1>3, <1>6, <2>1, <2>2, <2>3, <2>4, <2>5, EntityStep
<1>7. CASE \E w \in Workers \ {v} : Arrival(w) \/ RequestStep(w) \/ Interrupt(w)
  BY <1>3, <1>7, OthersUntouched DEF LinkInv
<1>8. CASE Removal \/ UNCHANGED vars
  BY <1>3, <1>8 DEF Removal, RemoveOrder, RemoveBudget, RemovePart, vars
<1>. QED
  BY <1>6, <1>7, <1>8 DEF Next

\* The steps that write the orders table, and what they write.
LEMMA OrderWrites ==
  ASSUME LinkInv, [Next]_vars, NEW o \in Orders
  PROVE  \/ orders'[o].budgetId = orders[o].budgetId
              /\ orders'[o].history = orders[o].history
         \/ orders'[o] = NewServiceOrder
         \/ \E w \in Workers : \E dirty \in SUBSET OrderColumn :
              /\ UpdateOrder(w) /\ req[w].oid = o
              /\ orders'[o] = Overwrite(orders[o], req[w].entity, dirty)
<1>1. orders \in [Orders -> OrderRow] /\ req \in [Workers -> Request]
  BY DEF LinkInv, Typed, TypeOK
<1>2. ASSUME NEW w \in Workers, Arrival(w)  PROVE  UNCHANGED orders
  BY <1>2
  DEF Arrival, StartCreate, StartCreateWithItems, StartQuote, StartApprove, StartRefuse,
      StartChangeStatus, StartEditOrder, StartAdjustStock, StartEditPart, tables
<1>3. ASSUME NEW w \in Workers, RequestStep(w) \/ Interrupt(w)
      PROVE  UNCHANGED orders \/ InsertOrder(w) \/ UpdateOrder(w)
  BY <1>3
  DEF RequestStep, Interrupt, ResolveLines, FindLatest, InsertBudget, SaveBudget,
      FindOrder, SaveOrder, ReadPart, SavePart, tables
<1>4. ASSUME NEW w \in Workers, InsertOrder(w)
      PROVE  orders'[o] = orders[o] \/ orders'[o] = NewServiceOrder
  BY <1>1, <1>4 DEF InsertOrder
<1>5. ASSUME NEW w \in Workers, UpdateOrder(w)
      PROVE  \/ orders'[o] = orders[o]
             \/ /\ req[w].oid = o /\ req[w].dirty \in SUBSET OrderColumn
                /\ orders'[o] = Overwrite(orders[o], req[w].entity, req[w].dirty)
  BY <1>1, <1>5 DEF UpdateOrder, Request
<1>6. Removal => /\ orders'[o].budgetId = orders[o].budgetId
                 /\ orders'[o].history = orders[o].history
  BY <1>1 DEF Removal, RemoveOrder, RemoveBudget, RemovePart, OrderRow
<1>7. UNCHANGED vars => UNCHANGED orders
  BY DEF vars
<1>. QED
  BY <1>2, <1>3, <1>4, <1>5, <1>6, <1>7 DEF Next

LEMMA LinkedStep ==
  ASSUME LinkInv, [Next]_vars
  PROVE  LinkedBudgetWasDecided'
<1>1. SUFFICES ASSUME NEW o \in Orders, orders'[o].budgetId # NoBudget
               PROVE  DecidedIn(budgets', o, orders'[o].budgetId)
  BY DEF LinkedBudgetWasDecided, DecidedBudgetOf, DecidedIn
<1>2. CASE orders'[o].budgetId = orders[o].budgetId
  BY <1>1, <1>2, DecidedEndures DEF LinkInv, LinkedBudgetWasDecided
<1>3. CASE orders'[o] = NewServiceOrder
  BY <1>1, <1>3 DEF NewServiceOrder
<1>4. ASSUME NEW w \in Workers, NEW dirty \in SUBSET OrderColumn,
             UpdateOrder(w), req[w].oid = o,
             orders'[o] = Overwrite(orders[o], req[w].entity, dirty)
      PROVE  DecidedIn(budgets', o, orders'[o].budgetId)
  <2>1. orders[o] \in OrderRow
    BY DEF LinkInv, Typed, TypeOK
  <2>2. orders'[o].budgetId \in {orders[o].budgetId, req[w].entity.budgetId}
    BY <1>4, <2>1 DEF Overwrite, OrderRow
  <2>. QED
    BY <1>1, <1>2, <1>4, <2>2, DecidedEndures DEF LinkInv, EntitiesLinked
<1>. QED
  BY <1>2, <1>3, <1>4, OrderWrites

LEMMA LinkStep == LinkInv /\ [Next]_vars => LinkInv'
  BY TypedStep, FreshStep, UndecidedStep, DecisionStep, EntitiesLinkedStep, LinkedStep
  DEF LinkInv

LEMMA AlwaysLinked == Spec => []LinkInv
  BY LinkInit, LinkStep, PTL DEF Spec

\* The decision is saved before the order is linked: at no moment, under no
\* interleaving and after no crash, does an order point to an undecided budget
\* or to the budget of another order.
THEOREM LinkSafe == Spec => []LinkedBudgetWasDecided
  BY AlwaysLinked, PTL DEF LinkInv

\* No save of any request takes a budget back to PENDENTE.
THEOREM DecisionsStand == Spec => NeverUndecided
<1>1. LinkInv /\ [Next]_vars =>
        [\A b \in Budgets :
           budgets[b].status # "PENDENTE" => budgets'[b].status # "PENDENTE"]_vars
  BY BudgetsEndure
<1>. QED
  BY <1>1, AlwaysLinked, PTL DEF Spec, NeverUndecided

-----------------------------------------------------------------------------
(* Histories.  A row's history is a copy of one some request had in memory, *)
(* so what is proved of rows is proved of the entities in memory with it.   *)

\* What a status change adds to a history.
LEMMA ChangeStatusHistory ==
  ASSUME NEW so \in OrderRow, NEW to, NEW by
  PROVE  LET h == ChangeStatus(so, to, by).history
         IN  /\ Len(h) = Len(so.history) + 1
             /\ h[Len(h)] = Entry(so.status, to, by)
             /\ \A i \in 1..Len(so.history) : h[i] = so.history[i]
             /\ DOMAIN h = 1..Len(h) /\ DOMAIN so.history = 1..Len(so.history)
             /\ Len(so.history) \in Nat
  BY DEF ChangeStatus, OrderRow

Legal(so) == \A i \in DOMAIN so.history : LegalEntry(so.history[i])

LEMMA ChangeStatusLegal ==
  ASSUME NEW so \in OrderRow, NEW to, NEW by, Legal(so),
         <<so.status, to>> \in ALLOWED_TRANSITIONS
  PROVE  Legal(ChangeStatus(so, to, by))
<1>1. LegalEntry(Entry(so.status, to, by))
  BY DEF LegalEntry, Entry
<1>. QED
  BY <1>1, ChangeStatusHistory DEF Legal

LEMMA AdvanceLegal ==
  ASSUME NEW so \in OrderRow, Legal(so)
  PROVE  Legal(AdvanceToAwaitingApproval(so))
<1>1. CASE so.status = "RECEBIDA"
  <2> DEFINE mid == ChangeStatus(so, "EM_DIAGNOSTICO", "system")
  <2>1. mid \in OrderRow /\ mid.status = "EM_DIAGNOSTICO"
    <3>1. mid \in OrderRow
      BY ChangeStatusType DEF ServiceOrderStatus
    <3>2. mid.status = "EM_DIAGNOSTICO"
      BY DEF ChangeStatus, OrderRow
    <3>. QED
      BY <3>1, <3>2
  <2>2. Legal(mid)
    BY <1>1, ChangeStatusLegal DEF ALLOWED_TRANSITIONS
  <2>3. Legal(ChangeStatus(mid, "AGUARDANDO_APROVACAO", "system"))
    <3> HIDE DEF mid
    <3>. QED  BY <2>1, <2>2, ChangeStatusLegal DEF ALLOWED_TRANSITIONS
  <2>. QED
    BY <1>1, <2>3 DEF AdvanceToAwaitingApproval
<1>2. CASE so.status = "EM_DIAGNOSTICO"
  <2>1. Legal(ChangeStatus(so, "AGUARDANDO_APROVACAO", "system"))
    BY <1>2, ChangeStatusLegal DEF ALLOWED_TRANSITIONS
  <2>. QED
    BY <1>2, <2>1 DEF AdvanceToAwaitingApproval
<1>3. CASE so.status = "EM_EXECUCAO"
  <2> DEFINE free == ClearBudget(so)
  <2>1. free \in OrderRow /\ free.status = "EM_EXECUCAO" /\ Legal(free)
    BY <1>3, LinkType DEF ClearBudget, OrderRow, Legal
  <2>2. Legal(ChangeStatus(free, "AGUARDANDO_APROVACAO", "system"))
    <3> HIDE DEF free
    <3>. QED  BY <2>1, ChangeStatusLegal DEF ALLOWED_TRANSITIONS
  <2>. QED
    BY <1>3, <2>2 DEF AdvanceToAwaitingApproval
<1>4. CASE so.status \notin {"RECEBIDA", "EM_DIAGNOSTICO", "EM_EXECUCAO"}
  BY <1>4 DEF AdvanceToAwaitingApproval
<1>. QED
  BY <1>1, <1>2, <1>3, <1>4

LEMMA NewServiceOrderLegal == Legal(NewServiceOrder)
  BY DEF Legal, NewServiceOrder, LegalEntry

EntitiesLegal == \A w \in Workers : Legal(req[w].entity)

LegalInv == LinkInv /\ HistoryIsLegal /\ EntitiesLegal

LEMMA LegalInit == Init => LegalInv
<1> SUFFICES ASSUME Init PROVE LegalInv
  OBVIOUS
<1>1. Legal(AdvanceToAwaitingApproval(NewServiceOrder)) /\ Legal(NewServiceOrder)
  BY NewServiceOrderType, NewServiceOrderLegal, AdvanceLegal
<1>2. AbsentOrder.history = NewServiceOrder.history
  BY DEF AbsentOrder, NewServiceOrder
<1>3. \A o \in Orders : Legal(orders[o])
  BY <1>1, <1>2 DEF Init, Legal
<1>4. EntitiesLegal
  BY <1>1 DEF Init, EntitiesLegal, Idle
<1>. QED
  BY <1>3, <1>4, LinkInit DEF LegalInv, HistoryIsLegal, Legal

LEMMA LegalStep == LegalInv /\ [Next]_vars => (HistoryIsLegal /\ EntitiesLegal)'
<1> SUFFICES ASSUME LegalInv, [Next]_vars
             PROVE  (HistoryIsLegal /\ EntitiesLegal)'
  OBVIOUS
<1>1. LinkInv /\ \A o \in Orders : orders[o] \in OrderRow /\ Legal(orders[o])
  BY DEF LegalInv, LinkInv, Typed, TypeOK, HistoryIsLegal, Legal
<1>2. \A w \in Workers : req[w].entity \in OrderRow /\ Legal(req[w].entity)
  BY DEF LegalInv, LinkInv, Typed, SoundRequest, Request, EntitiesLegal
<1>3. ASSUME NEW v \in Workers  PROVE  Legal(req'[v].entity)
  <2>1. CASE Arrival(v) \/ RequestStep(v) \/ Interrupt(v)
    <3>1. \A o \in Orders : \A to : CanChangeStatus(orders[o], to) =>
            Legal(ChangeStatus(orders[o], to, "staff"))
      BY <1>1, ChangeStatusLegal DEF CanChangeStatus
    <3>2. \A o \in Orders : orders[o].status = "AGUARDANDO_APROVACAO" =>
            Legal(ChangeStatus(orders[o], "ENCERRADA_SEM_EXECUCAO", "system"))
      BY <1>1, ChangeStatusLegal DEF ALLOWED_TRANSITIONS
    <3>3. \A o \in Orders : \A b : Legal(SetBudget(orders[o], b))
      BY <1>1 DEF SetBudget, OrderRow, Legal
    <3>4. Legal(AdvanceToAwaitingApproval(req[v].entity))
      BY <1>2, AdvanceLegal
    <3>. QED
      BY <1>1, <1>2, <2>1, <3>1, <3>2, <3>3, <3>4, EntityStep, NewServiceOrderLegal
  <2>2. CASE \E w \in Workers \ {v} : Arrival(w) \/ RequestStep(w) \/ Interrupt(w)
    BY <1>1, <1>2, <2>2, OthersUntouched DEF LinkInv
  <2>3. CASE Removal \/ UNCHANGED vars
    BY <1>2, <2>3 DEF Removal, RemoveOrder, RemoveBudget, RemovePart, vars
  <2>. QED
    BY <2>1, <2>2, <2>3 DEF Next
<1>4. ASSUME NEW o \in Orders  PROVE  Legal(orders'[o])
  <2>1. CASE orders'[o].history = orders[o].history
    BY <1>1, <2>1 DEF Legal
  <2>2. ASSUME NEW w \in Workers, NEW dirty \in SUBSET OrderColumn,
               orders'[o] = Overwrite(orders[o], req[w].entity, dirty)
        PROVE  Legal(orders'[o])
    <3>1. orders'[o].history \in {orders[o].history, req[w].entity.history}
      BY <1>1, <2>2 DEF Overwrite, OrderRow
    <3>. QED
      BY <1>1, <1>2, <3>1 DEF Legal
  <2>. QED
    BY <1>1, <2>1, <2>2, OrderWrites, NewServiceOrderLegal
<1>. QED
  BY <1>3, <1>4 DEF HistoryIsLegal, EntitiesLegal, Legal

\* Every transition any history records is one of the matrix, although stale
\* copies are saved over newer ones.
THEOREM HistoryLegal == Spec => []HistoryIsLegal
<1>1. LegalInv /\ [Next]_vars => LegalInv'
  BY LegalStep, LinkStep DEF LegalInv
<1>. QED
  BY <1>1, LegalInit, PTL DEF Spec, LegalInv

Sent(so) == SentToApproval(so.history)

\* HasBudget in a table given.
HasIn(table, o) == \E b \in Budgets : table[b].row # "absent" /\ table[b].order = o

EntitiesQuoted == \A w \in Workers : Sent(req[w].entity) => HasBudget(req[w].oid)

QuotedInv == LinkInv /\ AwaitingMeansQuoted /\ EntitiesQuoted

LEMMA NewServiceOrderUnsent == ~Sent(NewServiceOrder)
  BY DEF Sent, SentToApproval, NewServiceOrder, Entry

LEMMA OthersUnsent ==
  ASSUME NEW so \in OrderRow, NEW to, NEW by, ~(to = "AGUARDANDO_APROVACAO" /\ by = "system"),
         Sent(ChangeStatus(so, to, by))
  PROVE  Sent(so)
<1> DEFINE h == ChangeStatus(so, to, by).history
<1>1. PICK i \in DOMAIN h : h[i].to = "AGUARDANDO_APROVACAO" /\ h[i].by = "system"
  BY DEF Sent, SentToApproval
<1>2. h[Len(h)].to = to /\ h[Len(h)].by = by
  <2>1. h[Len(h)] = Entry(so.status, to, by)
    BY ChangeStatusHistory
  <2>. QED
    BY <2>1 DEF Entry
<1>3. i \in 1..Len(h) /\ i # Len(h)
  BY <1>1, <1>2, ChangeStatusHistory
<1>4. i \in 1..Len(so.history) /\ h[i] = so.history[i]
  BY <1>3, ChangeStatusHistory
<1>. QED
  BY <1>1, <1>4, ChangeStatusHistory DEF Sent, SentToApproval

LEMMA QuotedInit == Init => QuotedInv
<1> SUFFICES ASSUME Init PROVE QuotedInv
  OBVIOUS
<1>1. EntitiesQuoted
  BY NewServiceOrderUnsent DEF Init, EntitiesQuoted, Idle
<1>2. ASSUME NEW o \in DOMAIN Opened  PROVE  HasBudget(o)
  <2>1. Opened[o] \in Budgets /\ \A c \in DOMAIN Opened : Opened[c] = Opened[o] => c = o
    BY OpenedAssumption
  <2>2. budgets[Opened[o]].row = "live" /\ budgets[Opened[o]].order = o
    BY <2>1 DEF Init, NewBudget
  <2>. QED
    BY <2>1, <2>2 DEF HasBudget
<1>3. ASSUME NEW o \in Orders, Sent(orders[o])  PROVE  o \in DOMAIN Opened
  <2>1. ~Sent(AbsentOrder)
    BY NewServiceOrderUnsent DEF AbsentOrder, NewServiceOrder, Sent
  <2>. QED
    BY <1>3, <2>1 DEF Init
<1>. QED
  BY <1>1, <1>2, <1>3, LinkInit DEF QuotedInv, AwaitingMeansQuoted, Sent

LEMMA QuotedStep ==
  QuotedInv /\ [Next]_vars => (AwaitingMeansQuoted /\ EntitiesQuoted)'
<1> SUFFICES ASSUME QuotedInv, [Next]_vars
             PROVE  (AwaitingMeansQuoted /\ EntitiesQuoted)'
  OBVIOUS
<1>1. LinkInv /\ \A o \in Orders : orders[o] \in OrderRow
                                   /\ (Sent(orders[o]) => HasBudget(o))
  BY DEF QuotedInv, LinkInv, Typed, TypeOK, AwaitingMeansQuoted, Sent
<1>2. \A w \in Workers : /\ req[w] \in SoundRequest /\ req[w].entity \in OrderRow
                         /\ Sent(req[w].entity) => HasBudget(req[w].oid)
  BY DEF QuotedInv, LinkInv, Typed, SoundRequest, Request, EntitiesQuoted
<1>3. \A o : HasBudget(o) => HasIn(budgets', o)
  BY <1>1, BudgetsEndure DEF HasBudget, HasIn
<1>4. ASSUME NEW v \in Workers, Sent(req'[v].entity)
      PROVE  HasIn(budgets', req'[v].oid)
  <2>1. CASE req'[v].oid = req[v].oid /\ req'[v].entity = req[v].entity
    BY <1>2, <1>3, <1>4, <2>1
  <2>2. CASE Arrival(v) \/ RequestStep(v) \/ Interrupt(v)
    <3>1. CASE req'[v].entity = NewServiceOrder
      BY <1>4, <3>1, NewServiceOrderUnsent
    <3>2. CASE /\ req'[v].oid \in Orders
               /\ \/ req'[v].entity = orders[req'[v].oid]
                  \/ \E to \in ServiceOrderStatus :
                       req'[v].entity = ChangeStatus(orders[req'[v].oid], to, "staff")
      <4>1. Sent(orders[req'[v].oid])
        BY <1>1, <1>4, <3>2, OthersUnsent
      <4>. QED
        BY <1>1, <1>3, <3>2, <4>1
    <3>3. CASE InsertBudget(v) /\ req'[v].oid = req[v].oid
      <4>1. req[v].bid \in Budgets
        BY <1>2, <3>3 DEF InsertBudget, SoundRequest, RequestShape
      <4>2. budgets'[req[v].bid] = NewBudget(req[v].oid, req[v].version, req[v].demand)
        BY <1>1, <3>3, <4>1 DEF InsertBudget, LinkInv, Typed, TypeOK
      <4>. QED
        BY <3>3, <4>1, <4>2 DEF NewBudget, HasIn
    <3>4. CASE /\ req'[v].oid = req[v].oid /\ req[v].oid \in Orders
               /\ \/ req'[v].entity = SetBudget(orders[req[v].oid], req[v].bid)
                  \/ req'[v].entity = ChangeStatus(orders[req[v].oid],
                                        "ENCERRADA_SEM_EXECUCAO", "system")
      <4>1. Sent(SetBudget(orders[req[v].oid], req[v].bid)) => Sent(orders[req[v].oid])
        BY <1>1, <3>4 DEF SetBudget, OrderRow, Sent
      <4>2. Sent(orders[req[v].oid])
        BY <1>1, <1>4, <3>4, <4>1, OthersUnsent
      <4>. QED
        BY <1>1, <1>3, <3>4, <4>2
    <3>. QED
      BY <1>1, <2>1, <2>2, <3>1, <3>2, <3>3, <3>4, EntityStep
  <2>3. CASE \E w \in Workers \ {v} : Arrival(w) \/ RequestStep(w) \/ Interrupt(w)
    BY <1>1, <2>1, <2>3, OthersUntouched DEF LinkInv
  <2>4. CASE Removal \/ UNCHANGED vars
    BY <2>1, <2>4 DEF Removal, RemoveOrder, RemoveBudget, RemovePart, vars
  <2>. QED
    BY <2>2, <2>3, <2>4 DEF Next
<1>5. ASSUME NEW o \in Orders, Sent(orders'[o])  PROVE  HasIn(budgets', o)
  <2>1. CASE orders'[o].history = orders[o].history
    BY <1>1, <1>3, <1>5, <2>1 DEF Sent
  <2>2. ASSUME NEW w \in Workers, NEW dirty \in SUBSET OrderColumn, req[w].oid = o,
               orders'[o] = Overwrite(orders[o], req[w].entity, dirty)
        PROVE  HasIn(budgets', o)
    <3>1. orders'[o].history \in {orders[o].history, req[w].entity.history}
      BY <1>1, <2>2 DEF Overwrite, OrderRow
    <3>. QED
      BY <1>1, <1>2, <1>3, <1>5, <2>2, <3>1 DEF Sent
  <2>. QED
    BY <1>1, <1>5, <2>1, <2>2, OrderWrites, NewServiceOrderUnsent
<1>. QED
  BY <1>4, <1>5 DEF AwaitingMeansQuoted, EntitiesQuoted, HasBudget, HasIn, Sent

\* The budget is saved before the order is: no order the program sent to
\* approval is without a budget, wherever a request was interrupted.
THEOREM QuotedSafe == Spec => []AwaitingMeansQuoted
<1>1. QuotedInv /\ [Next]_vars => QuotedInv'
  BY QuotedStep, LinkStep DEF QuotedInv
<1>. QED
  BY <1>1, QuotedInit, PTL DEF Spec, QuotedInv
=============================================================================
