SPECIFICATION Spec
CONSTANTS
  s1 = s1
  s2 = s2
  p1 = p1
  p2 = p2
  Identities = {s1, s2}
  Paths = {p1}
  PathOf <- MCPathOfShared
  Workers = {w1, w2}
  Turns = {t1}
  MaxAge = 1
  Missing = Missing
  Malformed = Malformed
  None = None
  MaxCalls = 2
  MaxTime = 2
SYMMETRY MCSymmetryOne
PROPERTIES
  SessionIsolation
CHECK_DEADLOCK FALSE
