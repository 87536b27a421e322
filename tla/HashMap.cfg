SPECIFICATION Spec
CONSTANTS
  t1 = t1
  t2 = t2
  k1 = k1
  k2 = k2
  k3 = k3
  k4 = k4
  i1 = i1
  i2 = i2
  Threads = {t1, t2}
  Keys = {k1, k2, k3, k4}
  Items = {i1, i2}
  NoItem = NoItem
  NULL = NULL
  Hash <- MCHash
  Makes <- MCMakes
  Traverses = {t2}
  Places = {1, 2, 3, 4}
INVARIANTS TypeOK TableExact TraversalSound
PROPERTY MapImplemented
CHECK_DEADLOCK FALSE
