SPECIFICATION ReplaySpec
CONSTANTS
  Agents = {a1}
  Clients = {c1}
  Sockets = {s1, s2}
  Tasks = {t1}
  Runs = {r1, r2}
  None = None
  MaxSeq = 1
  GraceOn = TRUE
  Daemons = {d1}
  PendingLimit = 2
  MaxUpsets = 2
SYMMETRY Symmetry
INVARIANTS
  NoSpuriousGap
  RetainedUntilAccepted
  OutputIsWhole
PROPERTIES
  DeliversInOrder
CHECK_DEADLOCK FALSE
