SPECIFICATION Spec
CONSTANTS
  t1 = t1
  t2 = t2
  t3 = t3
  Threads = {t1, t2, t3}
  Levels = 2
  MaxRefs = 1
  Kinds <- SafeKinds
INVARIANTS TypeOK CountsExact NoUseAfterFree NoLeak HeldIntact FreedByOwnType NotTrackedWhenFreed TrackedWhileHeld
CHECK_DEADLOCK FALSE
