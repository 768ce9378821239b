SPECIFICATION Spec
CONSTANTS
  Requests = {r1, r2, r3, r4}
  Auths = {a1}
  ExactTerms = {exact}
  UptoTerms = {upto}
  None = None
  MaxUpsets = 1
SYMMETRY Symmetry
INVARIANTS
  WorkIsPaidFor
PROPERTIES
  UncertainIsKept
CHECK_DEADLOCK FALSE
