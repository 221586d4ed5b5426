SPECIFICATION Spec
CONSTANTS
  Sessions = {s1, s2}
  Latest = Latest
  Missing = Missing
  Unavailable = Unavailable
  Failed = Failed
  None = None
  Refreshes = {r1, r2}
  MaxPolls = 4
  StartRevisions = {0, 1}
  MaxUpdates = 2
  MaxSelects = 2
SYMMETRY MCSymmetry
INVARIANTS
  LatestFollowed
CHECK_DEADLOCK FALSE
