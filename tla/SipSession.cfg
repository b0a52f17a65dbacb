SPECIFICATION FairSpec
CONSTANTS
  Infos = {i1}
  MaxSeq = 3
  MaxReplies = 3
  LoopMax = 2
INVARIANTS
  MemorySafety
  NoHalfOpenCall
  PutOffNotForgotten
  ToldOfEnd
PROPERTIES
  ImplementsSession
  ReleasedIsFreed
CHECK_DEADLOCK FALSE
