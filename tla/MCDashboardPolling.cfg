SPECIFICATION MCSpec
CONSTANTS
  Sessions = {s1, s2}
  Latest = Latest
  Missing = Missing
  Unavailable = Unavailable
  Failed = Failed
  None = None
  Refreshes = {r1, r2}
  MaxPolls = 2
  StartRevisions = {0, 1}
  MaxUpdates = 1
  MaxSelects = 2
SYMMETRY MCSymmetry
INVARIANTS
  TypeOK
  NoOverlap
  ShownIsSelected
PROPERTIES
  AnswersInOrder
  ImplementsDisplay
CHECK_DEADLOCK FALSE
