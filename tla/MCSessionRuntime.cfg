SPECIFICATION Spec
CONSTANTS
  s1 = s1
  s2 = s2
  p1 = p1
  p2 = p2
  Identities = {s1, s2}
  Paths = {p1, p2}
  PathOf <- MCPathOf
  Workers = {w1, w2}
  Turns = {t1}
  MaxAge = 1
  Missing = Missing
  Malformed = Malformed
  None = None
  MaxCalls = 2
  MaxTime = 2
SYMMETRY MCSymmetry
PROPERTIES
  UsesRegister
  LegacyPreserved
  SessionIsolation
CHECK_DEADLOCK FALSE
