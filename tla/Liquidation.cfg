SPECIFICATION LiquidationFairSpec
CONSTANTS
  Users = {"u1", "u2"}
  Markets = {"m1"}
  OrderIds = {1, 2, 3, 4}
  Requests <- Sold
  Deposit = 1000
  MaxQty = 2
  FillsBatch = 2
  CancelsBatch = 1
  MaxAborts = 1
  MaxCrashes = 1
  Sweeps = {1, 2}
  MarksBatch = 2
INVARIANTS LiquidationCosts LockedUpToStale
PROPERTIES CrossedIsClosed
CHECK_DEADLOCK FALSE
