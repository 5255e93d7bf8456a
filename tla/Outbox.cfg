SPECIFICATION FairSpec
CONSTANTS
  OrderIds = {"o1", "o2"}
  Sweeps = {"s1"}
  Take = 2
  Attempts = 2
  MaxEvents = 2
  MaxPending = 1
INVARIANTS TypeOK RematchOwed CancelSticks
PROPERTIES ImplementsDelivery Delivered
CHECK_DEADLOCK FALSE
