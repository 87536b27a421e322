SPECIFICATION Spec
CONSTANTS
  t1 = t1
  t2 = t2
  t3 = t3
  Threads = {t1, t2, t3}
  Levels = 2
  MaxRefs = 1
  Kinds <- ClassInstance
INVARIANT NotTrackedWhenFreed
CHECK_DEADLOCK FALSE
