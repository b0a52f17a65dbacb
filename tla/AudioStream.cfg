SPECIFICATION Spec
CONSTANTS
  Wrap = 16
  Packets = {1, 2, 3, 4}
  Sources = {1, 4}
  FirstSeq = 14
  Pt = c1
  Switched = {3, 4}
  NewPt = c3
  Others = {2}
  Codecs = {c1, c2, c3}
  Wide = {c3}
  Plc = {c3}
  MinDelays = {0, 1, 2}
  MaxDelays = {2}
  DevSizes = {0, 3}
  WideSize = 3
  SampMax = 3
  BufMax = 2
  LostMax = 4
  BackMax = 4
  Reorder = 1
  MaxUpdates = 1
  MaxTroubles = 1
  None = None
INVARIANTS
  MemorySafety
  PlaysInOrder
  KeepsWhatArrives
PROPERTY
  DecodedIsHeard
CHECK_DEADLOCK FALSE
