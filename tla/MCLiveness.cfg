SPECIFICATION LiveSpec
CONSTANTS
  Tasks = {"t1", "t2"}
  Contexts = {"c1"}
  ctx <- MCctx
  Turns = {"t1", "t2", "t3", "t4"}
  Rooms = {"c1", "c2"}
  room <- MCroom
  Callers = {"k1", "k2"}
  caller <- MCcaller
  Native = {"t4"}
  Ttl = 1
  MaxTime = 2
  Requests = {"r1"}
  Retry = TRUE
  Jobs = {"t1", "t2"}
  Keys = {"k1"}
  key <- MCkey
  MaxConns = 2
  MaxQueue = 1
  MaxServers = 2
  Nothing = Nothing
PROPERTIES
  EveryTaskEnds
CHECK_DEADLOCK FALSE
