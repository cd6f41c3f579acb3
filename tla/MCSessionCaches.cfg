SPECIFICATION Spec
CONSTANTS
  SpawnIds = {id1, id2}
  SpawnNames = {rat, boar}
  Kinds = {0, 1}
  Serials = {0, 1, 2}
  Places = {"head", "bag"}
  WornPlaces = {"head"}
  Charges = {1}
  ItemSets <- MCItemSets
  Skills = {"skill"}
  OtherFacts = {}
  Values = {0, 1}
  Exps = {1, 2}
  Levels = {1, 2}
INVARIANTS
  IndexAgrees
  IndexIsTrue
  HostFollowsSpawns
  HostFollowsProgress
SYMMETRY SpawnsAreAlike
PROPERTY WornUntilMoved
