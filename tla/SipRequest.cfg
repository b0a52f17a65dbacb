SPECIFICATION RequestSpec
CONSTANTS
  Reqs = {r1, r2}
  Plain = {r2}
  Srvs = {s1}
  Host = host
  A = {a4}
  AAAA = {a6}
  Supported = {0, 1}
  IPv6 = TRUE
  Routes = {"address", "port", "name"}
  None = None
  Talkers = {a6}
  MaxTroubles = 1
INVARIANTS
  MemorySafety
  OutcomeIsRight
CHECK_DEADLOCK FALSE
