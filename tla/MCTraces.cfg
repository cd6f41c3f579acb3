SPECIFICATION Spec
CONSTANTS
  Catalogs <- MCCatalogs
  Opcodes = {1}
  Payloads <- MCPayloads
  Times = {1, 2}
  Letters <- MCLetters
  Tools = {t1, t2}
  MaxPackets = 2
  MaxTraces = 2
  MaxReloads = 1
  Events <- MCEvents
SYMMETRY ToolSymmetry
INVARIANT ReplayIsWhatTheHostSaw
PROPERTY CheckedGoldenIsWhatTheHostSaw
CHECK_DEADLOCK FALSE
