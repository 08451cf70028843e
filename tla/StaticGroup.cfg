CONSTANTS
  m1 = m1
  m2 = m2
  Pods = {m1, m2}
  Members = {m1, m2}
  Home <- MCHome
  Root = m1
  Program <- MCReadFiles
SPECIFICATION FairSpec
INVARIANTS TypeOK CollectiveAgrees NoneOversleeps
PROPERTIES ImplementsBarrier OperationsReturn
CHECK_DEADLOCK FALSE
