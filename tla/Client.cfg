SPECIFICATION FairSpec
CONSTANTS
  Jobs = {j1, j2}
  Stopped = {j1}
  Deadlines = {j1}
  Garbled = {j2}
  Budget = 1
INVARIANTS TypeOK LeftAlive
PROPERTIES KeepsPort Returns
CHECK_DEADLOCK FALSE
