SPECIFICATION FairSpec
CONSTANTS
  Runs = {1, 2, 3}
  PlatformRuns = {2, 3}
  BatchSize = 2
  Rejected = {3}
  MaxApplies = 2
  MaxFailures = 1
  MaxCrashes = 1
INVARIANTS TypeOK NothingLost NoGap SnapshotCovers
PROPERTY Delivered
CHECK_DEADLOCK FALSE
