SPECIFICATION LocalSpec
CONSTANTS
  o1 = o1
  o2 = o2
  Photos = {p1, p2, o1, o2}
  Helpers = {}
  Capacity = 3
  MemoryTarget = 2
  CardTarget = 2
  MaxSequence = 1
  Crowded = TRUE
  Screen = screen
  Own = {o1, o2}
  Folders <- MCFolders
  Bad = {o2}
INVARIANTS
  LocalTypeOK
PROPERTIES
  RotatesFromCard
  KeepsPlaying
CHECK_DEADLOCK FALSE
