SPECIFICATION ProcessesSpec
CONSTANTS
  r1 = r1
  r2 = r2
  c1 = c1
  s1 = s1
  s2 = s2
  t1 = t1
  c2 = c2
  p1 = p1
  p2 = p2
  p3 = p3
  Execs = {s1, s2}
  Slots = {r1, r2}
  Boxes = {c1, c2}
  MaxConcurrent = 1
  MaxRequests = 3
  MaxForks = 2
  Doubts = TRUE
  Staged = FALSE
  Nobody = Nobody
  Starters = {s1, s2}
  Stoppers = {t1}
  Pids = {p1, p2, p3}
  Modes = {TRUE, FALSE}
  Strangers = {"foreground"}
  StartsAtOnce = 2
  StartIds = TRUE
  NoOne = NoOne
SYMMETRY Symmetry
INVARIANTS
  NoUseAfterEnd
  DoubtIsContained
PROPERTIES
  OneDaemonTold
CHECK_DEADLOCK FALSE
