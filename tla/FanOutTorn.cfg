SPECIFICATION Spec
CONSTANTS
  Steps = {"a", "b", "c", "d"}
  NoStep = NoStep
  OnSuccess <- FanOutSuccess
  OnFailure <- none
  OnApprove <- none
  OnReject <- none
  Needs <- FanOutNeeds
  Retries <- TornRetries
  HumanLoop = {}
  Subflows = {}
  BadInput = {}
  BadWith = {}
  AfterHooks = {}
  BeforeRunHooks = FALSE
  AfterRunHooks = {}
  Clients = {}
  HasTimeout = TRUE
  Unreachable = FALSE
  MaxAttempt = 3
  MaxCrashes = 1
INVARIANTS
  RoutesTaken
