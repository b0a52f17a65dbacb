SPECIFICATION FairSpec
CONSTANT LoopMax = 2
INVARIANTS
  MemorySafety
  OneNotifyAndItsExpiry
  NoLostUpdate
  EndIsSettled
PROPERTIES
  FinalIsLast
  ReleasedIsFreed
CHECK_DEADLOCK FALSE
