SPECIFICATION Spec
CONSTANTS
  Flows <- LoadedFlows
  NoStep = NoStep
  MaxAttempt = 3
INVARIANTS TypeOK SearchIsExact NeverStalls GuaranteeHolds RunsOnce
CHECK_DEADLOCK FALSE
