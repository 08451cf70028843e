CONSTANTS
  a1 = a1
  a2 = a2
  b1 = b1
  c1 = c1
  None = None
  Pods = {a1, b1, c1}
  Context <- TwoSpawnsContext
  Spawner <- TwoSpawnsSpawner
  InOrder = FALSE
SPECIFICATION FairSpec
PROPERTIES AllStop
CHECK_DEADLOCK FALSE
