SPECIFICATION TrackerSpec
CONSTANTS
  Ids <- MCIds
  SameBatch <- MCSameBatch
  Values <- MCValues
INVARIANTS
  PendingIsPlausibleTwin
  GuessIsSpentOnce
PROPERTY
  ImplementsSelfIdentity
