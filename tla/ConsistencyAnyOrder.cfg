CONSTANTS
  a = a
  b = b
  c = c
  a1 = a1
  b1 = b1
  b2 = b2
  c1 = c1
  Pods = {a, b}
  Threads = {a1, b1, b2}
  Home <- HomeTwoPods
  Owner = a
  Joined = {a}
  MaxOps = 1
  InOrder = FALSE
SPECIFICATION Spec
INVARIANTS TypeOK OneToken WritersShareAPod ReadersExcludeWriters AckIsOutstanding
PROPERTIES ImplementsWriteToken
CHECK_DEADLOCK FALSE
