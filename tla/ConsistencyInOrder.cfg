CONSTANTS
  a = a
  b = b
  c = c
  a1 = a1
  b1 = b1
  b2 = b2
  c1 = c1
  Pods = {a, b, c}
  Threads = {b1, c1}
  Home <- HomeThreePods
  Owner = a
  Joined = {a, b}
  MaxOps = 1
  InOrder = TRUE
SPECIFICATION FairSpec
INVARIANTS HolderIsCurrent ValidReplicaIsCurrent
PROPERTIES ReplicasNeverGoBack WriterServed UpdateAnswered ReplicaCreated
CHECK_DEADLOCK FALSE
