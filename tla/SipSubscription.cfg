SPECIFICATION FairSpec
CONSTANTS
  FailMax = 2
  LoopMax = 2
INVARIANTS
  MemorySafety
  NeverDormant
  EndIsSettled
PROPERTIES
  ReleasedIsFreed
  EndIsLearnt
CHECK_DEADLOCK FALSE
