SPECIFICATION Spec
CONSTANTS
  Photos = {p1, p2, p3}
  Helpers = {helper}
  Capacity = 2
  MemoryTarget = 1
  CardTarget = 1
  MaxSequence = 1
  Crowded = FALSE
  Screen = screen
PROPERTIES
  SpareKept
CHECK_DEADLOCK FALSE
