SPECIFICATION Spec
CONSTANTS
  account = account
  client = client
  home = home
  gateway = gateway
  Spelt = Spelt
  SPELT = SPELT
  None = None
  Global = Global
  Requests <- MCRequests
  Keys <- MCKeys
  Lower <- MCLower
  Limit = 2
  WindowTicks = 3
  SecondTicks = 2
INVARIANTS
  BurstBounded
  RetryHonored
PROPERTIES
  MapForgets
  NoLockout
