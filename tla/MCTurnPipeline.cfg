CONSTANTS
  a = a
  b = b
  q = q
  Self = self
  Alias = alias
  Unknown = unknown
  None = None
  Disabled = Disabled
  Failed = Failed
  Participants = {a, b, q}
  BotPeers = {b}
  Fallback = "deterministic"
  SocialRecordLimit = 2
  MoodFactor <- MCMoodFactor
  RelationFactor <- MCRelationFactor
  Personalities <- MCPersonalities
  Messages <- MCMessages
  Verdicts <- MCVerdicts
  Edits <- MCEdits
  MaxTurns = 2
  MaxEdits = 1
  MaxIdle = 1

SPECIFICATION MCSpec

INVARIANTS
  TypeOK
  Projected
  AuthorityExact
  ObservationsBounded

PROPERTIES
  OthersStayOthers
  UnresolvedImpersonal
  RetaliationAimed
  RegardByEvidence
  ReactionsNeverVanish
  

CHECK_DEADLOCK FALSE
