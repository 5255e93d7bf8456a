SPECIFICATION FairSpec
CONSTANTS
  Markets = {"m1", "m2"}
  InitialMarkets = {"m1"}
  OrderIds = {"o1", "o2", "o3"}
  MarketOf <- ThreeOrders
  MaxRefreshes = 2
  MaxEvents = 3
INVARIANTS TypeOK DeletedFlat
PROPERTIES CacheSettles
CHECK_DEADLOCK FALSE
