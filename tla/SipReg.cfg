SPECIFICATION FairSpec
CONSTANTS
  MaxRegs = 2
  LoopMax = 2
INVARIANTS
  NeverDormant
  MemorySafe
  LeavesNoBinding
PROPERTIES
  NoRegisterOnceDropped
  AsksOrGoes
CHECK_DEADLOCK FALSE
