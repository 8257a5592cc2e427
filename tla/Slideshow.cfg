SPECIFICATION Spec
CONSTANTS
  Photos = {p1, p2, p3}
  Tasks = {t1, t2}
  History = 2
  MaxAttempts = 2
  BufferTarget = 3
  MaxPerRequest = 1
  MaxTroubles = 1
INVARIANTS
  TypeOK
  FirstPhotoOnItsWay
PROPERTIES
  FeedSpec
  KeepsComing
