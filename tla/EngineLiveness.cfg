SPECIFICATION FairSpec
CONSTANTS
  Orders <- LimitTaker
  Markets = {"m1"}
  MaxPublish = 1
  MaxCancels = 1
  MaxMessages = 3
  MaxBacklog = 1
  MaxFailures = 1
  MaxCrashes = 1
  BatchSize = 2
PROPERTIES Drains
CHECK_DEADLOCK FALSE
