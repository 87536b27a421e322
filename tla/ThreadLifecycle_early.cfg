SPECIFICATION Spec
CONSTANTS
  Threads = {t1, t2}
  Main = Main
  Nobody = Nobody
  Early = TRUE
INVARIANT HandleIntact
CHECK_DEADLOCK FALSE
