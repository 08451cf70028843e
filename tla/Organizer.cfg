CONSTANTS
  p1 = p1
  p2 = p2
  p3 = p3
  a = a
  Pods = {p1, p2, p3}
  Owner = p1
  Names <- MCNames
  Unnamed = Unnamed
  Calls <- MCCalls
  MaxCalls = 2
  InOrder = TRUE
SPECIFICATION FairSpec
INVARIANTS TypeOK ClosureComplete
PROPERTIES ImplementsMembership WriteAccessComes
CHECK_DEADLOCK FALSE
