SPECIFICATION FairSpec
CONSTANTS
  Sessions = {s1}
  Latest = Latest
  Missing = Missing
  Unavailable = Unavailable
  Failed = Failed
  None = None
  Refreshes = {r1, r2}
  MaxPolls = 2
  StartRevisions = {0, 1}
  MaxUpdates = 0
  MaxSelects = 2
PROPERTIES
  EveryRefreshResolves
  PollingContinues
CHECK_DEADLOCK FALSE
