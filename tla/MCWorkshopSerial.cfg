SPECIFICATION AuditSpec
CONSTANTS
  o1 = o1
  b1 = b1
  p1 = p1
  p2 = p2
  Workers = {w1}
  Orders = {o1}
  Budgets = {b1, b2}
  Parts = {p1, p2}
  NoOrder = NoOrder
  NoBudget = NoBudget
  Demands <- SerialDemands
  Adjustments <- StockEntries
  InitialStock <- SerialStock
  Opened <- SerialOpened
  Ops <- SerialOps
  MaxHistory = 6
  MaxStock = 2
  MaxSupply = 2
INVARIANTS
  ExecutionIsApproved
  HistoryTellsStatus
  VersionsAreUnique
  DecidedOnce
  StockBalances
PROPERTIES
  ImplementsLifecycle
CHECK_DEADLOCK FALSE
