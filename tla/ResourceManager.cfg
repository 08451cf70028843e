CONSTANTS
  a = a
  b = b
  a1 = a1
  a2 = a2
  b1 = b1
  b2 = b2
  x = x
  Meta = Meta
  None = None
  Pods = {a, b}
  Main = a
  Threads = {a1, a2, b1, b2}
  Home <- MCHome
  Resources = {Meta, x}
  Program <- MCProgram
SPECIFICATION FairSpec
INVARIANTS TypeOK ObjectsExist OneReplicaEach SearchTruthful
PROPERTIES ReplicaArrives QuestionsAnswered
CHECK_DEADLOCK FALSE
