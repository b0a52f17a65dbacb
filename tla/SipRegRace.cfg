SPECIFICATION Spec
CONSTANTS
  MaxRegs = 2
  LoopMax = 2
INVARIANT RegisteredIsBound
CHECK_DEADLOCK FALSE
