SPECIFICATION AuditSpec
CONSTANTS
  o1 = o1
  b1 = b1
  p1 = p1
  p2 = p2
  Workers = {w1, w2}
  Orders = {o1}
  Budgets = {b1, b2}
  Parts = {p1}
  NoOrder = NoOrder
  NoBudget = NoBudget
  Demands <- RaceDemands
  Adjustments <- StockEntries
  InitialStock <- RaceStock
  Opened <- RaceOpened
  Ops <- RaceOps
  MaxHistory = 5
  MaxStock = 1
  MaxSupply = 1
INVARIANT ExecutionIsApproved
CHECK_DEADLOCK FALSE
