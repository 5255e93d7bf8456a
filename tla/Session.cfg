SPECIFICATION FairSpec
CONSTANTS
  Tabs = {"t1", "t2"}
  Users = {"a", "b"}
  Tokens = {"a1", "a2", "b1"}
  OwnerOf <- ThreeTokens
  None = None
  InitialAccounts = {"a"}
  InitialToken = "a1"
  MaxCalls <- TwoTabs
  MaxVersion = 1
  MaxEvents = 2
INVARIANTS TypeOK
PROPERTIES SessionLasts ScreensHeal ExpiredIsDropped
CHECK_DEADLOCK FALSE
