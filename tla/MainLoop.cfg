SPECIFICATION FairSpec
CONSTANTS
  Timers = {t1, t2}
  Workers = {w1}
  Bare = {b1}
  Loop = loop
  None = None
  DelayMax = 3
  IntSpan = 6
  Slack = 1
  Room = 1
  MaxTroubles = 1
INVARIANTS
  ListSound
  WakesInTime
PROPERTIES
  LoopServes
CHECK_DEADLOCK FALSE
