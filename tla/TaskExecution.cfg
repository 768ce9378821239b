SPECIFICATION Spec
CONSTANTS
  Runs = {r1, r2}
  None = None
  MaxOutput = 1
  MaxFaults = 1
INVARIANTS
  RowAgrees
  StreamIsComplete
  CancelReachesOwner
PROPERTIES
  CallersAreAnswered
  DetachedRunsEnd
CHECK_DEADLOCK FALSE
