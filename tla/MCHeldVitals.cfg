SPECIFICATION Spec
CONSTANTS
  Ids <- MCIds
  SameBatch <- MCSameBatch
  Values <- MCValues
  MaxStats <- MCMaxStats
  StatSets <- MCStatSets
  Characters = {me, you}
  Forms = {f1, f2}
SYMMETRY MCSymmetry
INVARIANT
  HeldVitalsAreEmitted
