SPECIFICATION Spec
CONSTANTS
  Users = {"u1", "u2"}
  Markets = {"m1"}
  OrderIds = {1, 2, 3, 4, 5}
  Requests <- TwoUsers
  Deposit = 1000
  MaxQty = 3
  FillsBatch = 2
  CancelsBatch = 1
  MaxAborts = 1
  MaxCrashes = 0
INVARIANTS TypeOK MoneyConserved MarginMatchesEntry LockedIsExact
CHECK_DEADLOCK FALSE
