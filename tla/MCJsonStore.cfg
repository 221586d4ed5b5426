SPECIFICATION Spec
CONSTANTS
  s1 = s1
  s1x = s1x
  s2 = s2
  p1 = p1
  p2 = p2
  Identities = {s1, s1x, s2}
  Paths = {p1, p2}
  PathOf <- MCPathOf
  MaxAge = 1
  Missing = Missing
  Malformed = Malformed
  Workers = {w1, w2}
  None = None
  Orphan = Orphan
  MaxCalls = 3
  MaxTime = 2
SYMMETRY WorkerSymmetry
INVARIANTS
  TypeOK
  MutualExclusion
  NoLostMutation
PROPERTIES
  LockFileBelongsToCreator
  ExactMutation
  ImplementsRegister
CHECK_DEADLOCK FALSE
