SPECIFICATION FairSpec
CONSTANTS
  Threads = {t1, t2}
  Objects = {o1, o2, o3}
  NoThread = NoThread
  NULL = NULL
INVARIANTS TypeOK ListsExact IterTracked
PROPERTY CollectionEnds
