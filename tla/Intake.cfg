SPECIFICATION FairSpec
CONSTANTS
  PlatformKeys = {k1, k2}
  Malformed = {k2}
  MissingInput = {}
  Operated = {k1}
  Callers = {c1}
  ClientKey = k1
  Poller = poller
  MaxWaits = 1
  MaxMishaps = 2
INVARIANTS TypeOK OneRunPerKey DeletedNeverRan CancelHolds
PROPERTIES NeverDeletesAcked Answered RunsStart
CHECK_DEADLOCK FALSE
