SPECIFICATION Spec
CONSTANTS
  Orders <- MarketTaker
  Markets = {"m1"}
  MaxPublish = 2
  MaxCancels = 1
  MaxMessages = 4
  MaxBacklog = 1
  MaxFailures = 1
  MaxCrashes = 1
  BatchSize = 2
INVARIANTS TypeOK BooksSound SnapshotCatchesUp FailuresNeverOverfill
PROPERTIES AtomicWhileIntact
CHECK_DEADLOCK FALSE
