SPECIFICATION Spec
CONSTANTS
  Flows <- LoopedJoins
  NoStep = NoStep
  MaxAttempt = 2
PROPERTIES JoinWaits
CHECK_DEADLOCK FALSE
