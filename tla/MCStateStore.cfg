SPECIFICATION Spec
CONSTANTS
  Session = {s1}
  Model = {m1, m2}
  None = None
  Turn = {t1, t2, t3}
  Client = {c1, c2}
  Cap = 2
  Window = 1
  HistoryLimit = 2
  Capacity = 3
  Refill = 2
  Cost = 2
  MaxNow = 3
  MaxOps = 3
SYMMETRY Symmetry
CHECK_DEADLOCK FALSE
INVARIANTS
  LabelsMatchRouting
  GrantsAreEarned
  RetryIsEnough
PROPERTIES
  StoresRetain
