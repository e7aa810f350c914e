SPECIFICATION MCSpec
CONSTANTS
  w1 = w1
  w2 = w2
  Workers = {w1, w2}
  Editors <- OneEditor
  Clients = {c1, c2}
  Documents = {d1}
  Names = {n1}
  NoClient = NoClient
  NoDocument = NoDocument
  Pods = {p1, p2}
  MaxSecret = 2
SYMMETRY Alike
INVARIANTS
  AccessByRole
  DocumentsAreUnique
  AccessEndsAtOnce
PROPERTIES
  DeletedStaysDeleted
CHECK_DEADLOCK FALSE
