SPECIFICATION MCSpec
CONSTANTS
  Sessions = {s1, s2}
  Latest = Latest
  Missing = Missing
  Unavailable = Unavailable
  Failed = Failed
  None = None
  Refreshes = {e1, e2}
  StartRevisions = {0}
  MaxUpdates = 1
  MaxSelects = 2
  MaxSubmits = 3
  MaxRestores = 1
  MaxEvents = 4
SYMMETRY MCSymmetry
INVARIANTS
  TypeOK
  OneSaveAtATime
  SavingEnds
PROPERTIES
  SentAsSeen
  SavedIsShown
  DraftKept
CHECK_DEADLOCK FALSE
