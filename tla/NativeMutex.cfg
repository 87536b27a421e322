SPECIFICATION FairSpec
CONSTANTS
  Threads = {t1, t2, t3}
  NoThread = NoThread
  SemMax = 1
  MayGiveUp = FALSE
  MaxDepth = 2
INVARIANTS TypeOK MutualExclusion OwnerIsHolder CounterExact TokenHasTaker
PROPERTIES ImplementsLock NoLostWakeup
