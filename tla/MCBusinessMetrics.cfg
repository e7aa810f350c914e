SPECIFICATION Spec
CONSTANTS
  Series = {volume, stalled}
  UpGauge = UpGauge
  CacheTicks = 4
  TimeoutTicks = 2
  MaxLag = 1
INVARIANTS
  UpMeansCurrent
PROPERTIES
  ReadsAreRationed
  ScrapesEnd
  Recovers
