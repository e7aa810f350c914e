SPECIFICATION MCSpec
CONSTANTS
  o1 = o1
  o2 = o2
  b1 = b1
  p1 = p1
  Workers = {w1, w2}
  Orders = {o1, o2}
  Budgets = {b1, b2}
  Parts = {p1}
  NoOrder = NoOrder
  NoBudget = NoBudget
  Demands <- ConcurrentDemands
  Adjustments <- InOrOut
  InitialStock <- ConcurrentStock
  Opened <- ConcurrentOpened
  Ops <- ConcurrentOps
  MaxHistory = 5
  MaxStock = 1
INVARIANTS
  TypeOK
  StockNeverNegative
  LinkedBudgetWasDecided
  HistoryIsLegal
  AwaitingMeansQuoted
PROPERTIES
  NeverUndecided
ACTION_CONSTRAINT InScope
SYMMETRY Interchangeable
CHECK_DEADLOCK FALSE
