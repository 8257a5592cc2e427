SPECIFICATION Spec
CONSTANTS
  Photos = {p1, p2}
  Helpers = {helper}
  Capacity = 3
  MemoryTarget = 2
  CardTarget = 2
  MaxSequence = 1
  Crowded = TRUE
  Screen = screen
INVARIANTS
  TypeOK
  UpToDate
  NoPhotoTwice
PROPERTIES
  ArrivesLast
  SpareWaits
  NeverRunsDry
CHECK_DEADLOCK FALSE
