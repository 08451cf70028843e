CONSTANTS
  m = m
  b = b
  c = c
  m1 = m1
  b1 = b1
  b2 = b2
  c1 = c1
  Pods = {m, b, c}
  Main = m
  Threads = {m1, b1, b2, c1}
  Home <- MCHome
  Calls <- OnePageEach
  PageSize = 2
  FirstPage = 12
SPECIFICATION FairSpec
INVARIANTS TypeOK UniqueIds NoForgottenThread
PROPERTIES IdGenerated
CHECK_DEADLOCK FALSE
