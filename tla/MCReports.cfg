SPECIFICATION Spec
CONSTANTS
  o1 = o1
  o2 = o2
  Orders = {o1, o2}
  NoBudget = NoBudget
  Window = 1
  Threshold = 1
  Day = 2
  Offset = 1
  VolumeDays = 2
  Horizon = 2
  MaxEntries = 11
SYMMETRY Alike
INVARIANTS
  ReportIsPlausible
  ExecutionTimesAgree
  DurationsAgree
  AgesAgree
PROPERTIES
  LeavesListingForGood
CHECK_DEADLOCK FALSE
