SPECIFICATION FairSpec
CONSTANTS
  Calls = {c1, c2}
  Sipnots = {n1, n2}
  None = None
  MaxCalls = 2
INVARIANTS
  NotifierBalance
  StateMatchesSession
  EndReportedOnce
  NeverStuck
PROPERTIES
  IncomingIsSettled
CHECK_DEADLOCK FALSE
