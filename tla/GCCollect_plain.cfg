SPECIFICATION Spec
CONSTANTS
  a = a
  b = b
  c = c
  Order <- ThreeObjects
  MaxVisits = 2
  SharedPlain = TRUE
PROPERTY SparesTheLiving
CHECK_DEADLOCK FALSE
