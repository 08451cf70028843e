CONSTANTS
  s1 = s1
  s2 = s2
  b1 = b1
  b2 = b2
  r1 = r1
  r2 = r2
  Empty = Empty
  NoGroup = NoGroup
  Senders = {s1, s2}
  Boxes = {b1, b2}
  Receivers = {r1, r2}
  Box <- MCBox
  Wants <- MCWants
  MaxSent <- MCMaxSent
SPECIFICATION FairSpec
INVARIANTS TypeOK NoneOversleeps
PROPERTIES ImplementsMail WritesEnd
CHECK_DEADLOCK FALSE
