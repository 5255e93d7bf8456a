SPECIFICATION Spec
CONSTANTS
  Orders <- TwoTakers
  Markets = {"m1"}
  MaxPublish = 1
  MaxCancels = 0
  MaxMessages = 3
  MaxBacklog = 1
  MaxFailures = 0
  MaxCrashes = 1
  BatchSize = 2
INVARIANTS NoDoubleFill
CHECK_DEADLOCK FALSE
