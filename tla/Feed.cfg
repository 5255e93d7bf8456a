SPECIFICATION FairSpec
CONSTANTS
  Pages = {"p1"}
  Markets = {"m1", "m2"}
  MarketOf <- ThreeFills
  Count = 2
  MaxTrades = 2
  MaxAsks <- TwoAsks
  MaxEvents = 2
INVARIANTS TypeOK ShownInOrder NothingMissing
PROPERTIES PriceStays PricesCatchUp
CHECK_DEADLOCK FALSE
