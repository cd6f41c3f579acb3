SPECIFICATION Spec
CONSTANTS
  Ids = {a, b}
  Spells = {1, 2}
  Slots = {1}
  Ticks = {5}
  BuffLists <- MCBuffLists
  MaxEntries = 2
SYMMETRY IdSymmetry
INVARIANTS
  HostFollowsBuffs
  HostFollowsCasts
  TargetsAreTheAskers
  FadedIsGone
