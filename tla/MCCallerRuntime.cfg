SPECIFICATION RuntimeSpec
CONSTANTS
  MaxFaults = 8
  None = None
  Procs = {"p1", "p2", "p3"}
  Scopes = {"s1", "s2"}
  Contexts = {"c1", "c2"}
  Legacy = {"s1"}
  MaxContexts = 1
  MaxOps = 1
INVARIANTS
  OwnStorage
PROPERTIES
  DirectoryIsSafe
  ExecutionsAreOwn
  TurnsAreFair
CHECK_DEADLOCK FALSE
