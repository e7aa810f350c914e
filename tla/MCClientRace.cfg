SPECIFICATION Spec
CONSTANTS
  w1 = w1
  w2 = w2
  Workers = {w1, w2}
  Editors <- AllEditors
  Clients = {c1}
  Documents = {d1}
  Names = {n1, n2}
  NoClient = NoClient
  NoDocument = NoDocument
INVARIANT AccessEndsAtOnce
CHECK_DEADLOCK FALSE
