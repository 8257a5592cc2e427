SPECIFICATION Spec
CONSTANTS
  Walks = {w1, w2}
  Albums = {a1, a2}
  Interval = 2
  RefreshAfter = 6
  RetryBase = 1
  RetryMax = 4
  MaxDoublings = 3
  WalkTime = 1
INVARIANTS
  TypeOK
  UsingMeansStandIn
  RecoversInTime
PROPERTIES
  CatchesUp
