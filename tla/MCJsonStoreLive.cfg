SPECIFICATION FairSpec
CONSTANTS
  s1 = s1
  s1x = s1x
  s2 = s2
  p1 = p1
  p2 = p2
  Identities = {s1, s1x}
  Paths = {p1}
  PathOf <- MCPathOfSmall
  MaxAge = 1
  Missing = Missing
  Malformed = Malformed
  Workers = {w1, w2}
  None = None
  Orphan = Orphan
  MaxCalls = 3
  MaxTime = 2
PROPERTIES
  EveryCallReturns
CHECK_DEADLOCK FALSE
