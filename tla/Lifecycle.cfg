CONSTANTS
  a1 = a1
  a2 = a2
  b1 = b1
  c1 = c1
  None = None
  Pods = {a1, a2, b1}
  Context <- MCContext
  Spawner <- MCSpawner
  InOrder = TRUE
SPECIFICATION Spec
INVARIANTS TypeOK
PROPERTIES ImplementsSession
CHECK_DEADLOCK FALSE
