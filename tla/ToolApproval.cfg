SPECIFICATION Spec
CONSTANTS
  MaxRuns = 2
  MaxRequests = 2
  None = None
  MaxFrames = 2
  MaxUpsets = 1
INVARIANTS
  AllowedIsGranted
  NoFalseDuplicate
PROPERTIES
  DecisionGetsThrough
CHECK_DEADLOCK FALSE
