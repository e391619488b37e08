SPECIFICATION Spec
CONSTANTS
  Tasks = {t0, t1, t2, t3, t4}
  InitTask = t0
  Callers = {c1, c2}
  Mods = {m1, m2}
  Orig = orig
  None = none
  BufRecords = 4
  MaxLost = 1
INVARIANTS WalkShowsTree OnlyHalfFailedCallsLeak OnlyOutOfOrderUnloadsDangle
CONSTRAINT OneCallInLargeTrees
SYMMETRY Symmetry
CHECK_DEADLOCK FALSE
