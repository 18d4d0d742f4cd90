SPECIFICATION Spec
CONSTANTS
  Steps = {"a", "b", "c", "d"}
  NoStep = NoStep
  OnSuccess <- JoinSuccess
  OnFailure <- none
  OnApprove <- ReviewApprove
  OnReject <- ReviewReject
  Needs <- FanOutNeeds
  Retries <- FanOutRetries
  HumanLoop = {"a"}
  Subflows = {}
  BadInput = {}
  BadWith = {}
  AfterHooks = {}
  BeforeRunHooks = FALSE
  AfterRunHooks = {"completed"}
  Clients = {c1}
  HasTimeout = TRUE
  Unreachable = FALSE
  MaxAttempt = 3
  MaxCrashes = 0
INVARIANTS
  TypeOK
  CompletedIsReal
  RoutesTaken
  RetryBudget
  OneJobPerStep
PROPERTIES
  NeedsGate
  LegalTransitions
  EndIsFinal
