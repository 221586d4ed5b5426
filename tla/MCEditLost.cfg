SPECIFICATION Spec
CONSTANTS
  s1 = s1
  s2 = s2
  p1 = p1
  p2 = p2
  Identities = {s1}
  Paths = {p1}
  PathOf <- MCPathOfOne
  Workers = {w1, w2}
  Turns = {t1, t2}
  MaxAge = 1
  Missing = Missing
  Malformed = Malformed
  None = None
  MaxCalls = 3
  MaxTime = 2
SYMMETRY MCSymmetryOne
INVARIANTS
  AcknowledgedEditsKept
CHECK_DEADLOCK FALSE
