SPECIFICATION Spec
CONSTANTS
  Steps = {"a", "b"}
  NoStep = NoStep
  OnSuccess <- PairSuccess
  OnFailure <- none
  OnApprove <- none
  OnReject <- none
  Needs <- none
  Retries <- zero
  HumanLoop = {}
  Subflows = {}
  BadInput = {}
  BadWith = {}
  AfterHooks = {}
  BeforeRunHooks = FALSE
  AfterRunHooks = {"completed"}
  Clients = {}
  HasTimeout = FALSE
  Unreachable = FALSE
  MaxAttempt = 3
  MaxCrashes = 1
INVARIANTS
  NeverStuck
