SPECIFICATION Spec
CONSTANTS
  Threads = {t1, t2}
  Main = Main
  Nobody = Nobody
  Early = FALSE
INVARIANTS TypeOK InterruptsCounted HandleIntact NoHandleLeak JoinFindsResult QuietWhenFinal
CHECK_DEADLOCK FALSE
