SPECIFICATION Spec
CONSTANTS
  Items <- MCItems
  Windows <- MCWindows
  Narrations <- MCNarrations
  Transactions <- MCTransactions
  CoinPiles <- MCCoinPiles
  Corpses = {1}
  Zones = {"qeynos"}
  Characters = {"me"}
  MaxHalves = 4
  MaxStays = 2
INVARIANTS
  NothingPairable
  EachHalfOnce
  RowsKeepTheirVisit
  CountedOnce
  PairsInOrder
