SPECIFICATION TablesSpec
CONSTANTS
  Grants = {"g1", "g2"}
  Direct = {"d1"}
  Clients = {"c1", "c2"}
  Subjects = {"s1", "s2"}
  Exchanges = {"x1", "x2"}
  Requests = {"r1"}
  TaskIds = {"t1"}
  ScopeSets <- MCScopeSets
  Mortal = {"s1"}
  MaxRemovals = 1
  SlowExchange = FALSE
  SubjectOf <- MCSubjectOf
  Claim <- MCClaim
  Public = Public
  Nothing = Nothing
  Codes = {"k1", "k2"}
  Browsers = {"b1", "b2"}
  Polls = {"q1", "q2"}
  Instances = {"i1"}
  People = {"p1", "p2"}
  Plans <- MCPlans
  Hasty = {"k2"}
  Messages = {"m1", "m2"}
  Issued <- MCIssued
  Expiry <- MCExpiry
  Tokens = {"t1", "t2"}
  Servers = {"i1", "i2"}
  Buys = {"e1", "e2"}
  Shown = {"r1"}
  Clis = {"c1"}
  CacheTtl = 2
  CacheMax = 1
  MaxTtl = 3
  TokenTtl = 4
  Skew = 1
  SlowExchanges = FALSE
  MaxTime = 5
  Keys = {"k1", "k2"}
  Others = {"p1"}
  AdminCalls = {"c1", "c2", "c3"}
  MaxHellos = 2
  Owners = {"p1", "p2"}
  Emails = {"e1"}
  Transfers = {"t1", "t2"}
  Deletions = {"d1"}
  MaxClients = 2
  MaxDirect = 1
  Legacy = Legacy
  Users = {"p1", "p2"}
  Agents = {"a1", "admin"}
  Admin = "admin"
  Contexts = {"x1"}
  MaxTasks = 3
  Cap = 1
  Calls = {"c1", "c2", "c3"}
  MaxIdle = 1
  None = None
INVARIANTS
  OneExchangeEach
  RevokedStaysClosed
  KeysFollowPolicy
PROPERTIES
  LoginsAreOwn
  SessionsEnd
  OwnershipMovesAsShown
  TasksStayOwn
CHECK_DEADLOCK FALSE
