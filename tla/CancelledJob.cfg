SPECIFICATION Spec
CONSTANTS
  Steps = {"a"}
  NoStep = NoStep
  OnSuccess <- none
  OnFailure <- none
  OnApprove <- none
  OnReject <- none
  Needs <- none
  Retries <- zero
  HumanLoop = {}
  Subflows = {}
  BadInput = {}
  BadWith = {}
  AfterHooks = {}
  BeforeRunHooks = FALSE
  AfterRunHooks = {}
  Clients = {}
  HasTimeout = FALSE
  Unreachable = FALSE
  MaxAttempt = 3
  MaxCrashes = 0
INVARIANTS
  NoJobLeft
