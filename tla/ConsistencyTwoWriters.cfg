CONSTANTS
  a = a
  b = b
  c = c
  a1 = a1
  b1 = b1
  b2 = b2
  c1 = c1
  Pods = {a, b}
  Threads = {b1, b2}
  Home <- HomeSamePod
  Owner = a
  Joined = {a, b}
  MaxOps = 1
  InOrder = TRUE
SPECIFICATION Spec
INVARIANTS OneWriter
CHECK_DEADLOCK FALSE
