SPECIFICATION FairSpec
CONSTANTS
  Users = {"u1", "u2"}
  Markets = {"m1"}
  OrderIds = {1, 2, 3, 4}
  Requests <- FourOrders
  Deposit = 1000
  MaxQty = 3
  FillsBatch = 2
  CancelsBatch = 2
  MaxAborts = 1
  MaxCrashes = 1
INVARIANTS FilledExactlyOnce
PROPERTIES ImplementsNetPositions FillsSettle CancelsSettle
CHECK_DEADLOCK FALSE
