SPECIFICATION Spec
CONSTANTS
  Photos = {p1, p2}
  Tasks = {t1, t2}
  History = 2
  MaxAttempts = 10
  BufferTarget = 3
  MaxPerRequest = 2
  MaxTroubles = 1
PROPERTIES
  KeepsComing
