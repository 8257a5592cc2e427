SPECIFICATION Spec
CONSTANTS
  Photos = {p1, p2, p3}
  Tasks = {t1, t2}
  Requests = {r}
  MaxEntries = 1
  MaxFaults = 1
SYMMETRY Symmetry
INVARIANTS
  TypeOK
  WholeUnlessRaced
  HalfIsBeingWritten
  WithinBudget
