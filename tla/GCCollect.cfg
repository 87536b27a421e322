SPECIFICATION Spec
CONSTANTS
  a = a
  b = b
  c = c
  Order <- ThreeObjects
  MaxVisits = 2
  SharedPlain = FALSE
INVARIANTS TypeOK DependenciesExact ZeroMeansClean
PROPERTIES SparesTheLiving CollectionFinishes
CHECK_DEADLOCK FALSE
