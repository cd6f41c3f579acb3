SPECIFICATION FairSpec
CONSTANTS
  Backends <- MCBackends
  Reloaders = {r1, r2}
  Sessions = {s1}
  SessionBackend <- MCSessionBackend
  Opcodes = {0, 1}
  Unmapped = 0
  Malformed = 9
  Files <- MCFiles
  First <- MCFirst
  MaxEdits = 2
  MaxGeneration = 4
  MaxBatches = 2
CHECK_DEADLOCK FALSE
INVARIANTS
  ActiveIsWhatItsFileSaid
  OlderFileOnlyAfterOverlap
PROPERTIES
  ImplementsCatalogService
  ReloadsTakeEffect
