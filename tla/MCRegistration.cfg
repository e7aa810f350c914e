SPECIFICATION MCSpec
CONSTANTS
  Words = {k1, k2}
  Rows = {r1, r2, r3}
  Workers = {w1, w2}
  Replicas = {p1, p2}
  None = None
  Typeable = {0, 7}
  MaxPlate = 8
  Seeders = {s1, s2}
  NoBudget = NoBudget
INVARIANTS
  KeysAreDistinct
  FirstAdminExists
  DocumentsAreOfficial
  StoredPlatesLoad
  SeedReachesTargets
PROPERTY EveryReplicaBoots
CHECK_DEADLOCK FALSE
