SPECIFICATION StoreSpec
CONSTANTS
  Steps = {"a", "b", "c", "s"}
  NoStep = NoStep
  OnSuccess <- StoredSuccess
  OnFailure <- StoredFailure
  OnApprove <- none
  OnReject <- StoredReject
  Needs <- none
  Retries <- StoredRetries
  HumanLoop = {"b"}
  Subflows = {"s"}
  BadInput = {}
  BadWith = {}
  AfterHooks = {"a"}
  BeforeRunHooks = TRUE
  AfterRunHooks = {}
  Clients = {c1}
  HasTimeout = TRUE
  Unreachable = TRUE
  MaxAttempt = 3
  MaxCrashes = 1
INVARIANTS
  StoreTypeOK
  LatestIsRows
  EventsTellRows
  ResultsKept
  NeverStuck
  RunningHasSource
PROPERTIES
  FreshAttempts
  EndStops
