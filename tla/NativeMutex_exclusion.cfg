SPECIFICATION Spec
CONSTANTS
  Threads = {t1, t2, t3}
  NoThread = NoThread
  SemMax = 1
  MayGiveUp = TRUE
  MaxDepth = 1
INVARIANT MutualExclusion
