SPECIFICATION Spec
CONSTANTS
  Requests = {r1, r2, r3, r4}
  Auths = {a1}
  ExactTerms = {exact}
  UptoTerms = {upto}
  None = None
  MaxUpsets = 1
INVARIANT AcceptedIsDispatched
CHECK_DEADLOCK FALSE
