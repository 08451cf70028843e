CONSTANTS
  a1 = a1
  a2 = a2
  a3 = a3
  Agents = {a1, a2, a3}
  MaxTasks = 2
SPECIFICATION FairSpec
INVARIANTS TypeOK
PROPERTIES ImplementsForkJoin CallsReturn
CHECK_DEADLOCK FALSE
