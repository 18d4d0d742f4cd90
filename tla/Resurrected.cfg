SPECIFICATION Spec
CONSTANTS
  Steps = {"a", "b", "c", "d"}
  NoStep = NoStep
  OnSuccess <- HandlerSuccess
  OnFailure <- HandlerFailure
  OnApprove <- none
  OnReject <- none
  Needs <- none
  Retries <- zero
  HumanLoop = {}
  Subflows = {}
  BadInput = {}
  BadWith = {}
  AfterHooks = {}
  BeforeRunHooks = FALSE
  AfterRunHooks = {}
  Clients = {}
  HasTimeout = TRUE
  Unreachable = FALSE
  MaxAttempt = 3
  MaxCrashes = 0
PROPERTIES
  LegalTransitions
