SPECIFICATION Spec
CONSTANTS
  a = a
  b = b
  c = c
  t1 = t1
  Threads = {t1}
  Main = Main
  Libraries = {a, b, c}
  MaxCopies = 2
  Generators = {b}
  NULL = NULL
  Uses <- MCUses
  Imports <- MCImports
  Collectors = {t1}
  MaxDepth = 2
  MaxFaults = 1
  MaxRounds = 2
INVARIANTS TypeOK TicketsExact EventsInOrder ListExact
PROPERTY LoadingEnds
CHECK_DEADLOCK FALSE
