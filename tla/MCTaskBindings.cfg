SPECIFICATION Spec
CONSTANTS
  Agents = {a1, a2}
  Clients = {c1}
  Sockets = {s1, s2}
  Tasks = {t1}
  Runs = {r1, r2}
  None = None
  MaxSeq = 0
  GraceOn = TRUE
SYMMETRY Symmetry
INVARIANTS
  HoldIsCurrent
  NoOrphanStream
PROPERTIES
  TaskKeepsAgent
  CondemnedIsNotRescued
CHECK_DEADLOCK FALSE
