SPECIFICATION FairSpec
CONSTANTS
  Steps = {"a", "b", "c", "d", "e"}
  NoStep = NoStep
  OnSuccess <- HandlerSuccess
  OnFailure <- HandlerFailure
  OnApprove <- none
  OnReject <- none
  Needs <- none
  Retries <- zero
  HumanLoop = {}
  Subflows = {"d"}
  BadInput = {}
  BadWith = {"e"}
  AfterHooks = {}
  BeforeRunHooks = FALSE
  AfterRunHooks = {}
  Clients = {}
  HasTimeout = TRUE
  Unreachable = TRUE
  MaxAttempt = 3
  MaxCrashes = 1
INVARIANTS
  Coherent
PROPERTIES
  KeepsContract
  EventuallyEnds
