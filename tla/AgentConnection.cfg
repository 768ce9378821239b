SPECIFICATION Spec
CONSTANTS
  Daemons = {d1}
  Sockets = {s1, s2}
  None = None
  Deleted = Deleted
  MaxWrites = 1
  MaxUpsets = 2
  MayDelete = TRUE
INVARIANTS
  SoleSpeaker
  StopsOnlyIfDeleted
PROPERTIES
  ComesBack
CHECK_DEADLOCK FALSE
