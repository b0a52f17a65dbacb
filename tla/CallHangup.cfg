SPECIFICATION Spec
CONSTANTS
  Calls = {c1, c2}
  Sipnots = {n1}
  None = None
  MaxCalls = 1
INVARIANTS
  HungUpIsOver
CHECK_DEADLOCK FALSE
