SPECIFICATION Spec
CONSTANTS
  Sessions = {s1, s2, s3, s4, s5}
  Limit = 2
  Failed = Failed
  None = None
  MaxTime = 7
  MaxExpired = 2
  MaxLoads = 5
SYMMETRY MCSymmetry
INVARIANTS
  TypeOK
  NothingSkipped
  LoadingIsCurrent
CHECK_DEADLOCK FALSE
