SPECIFICATION FairSpec
CONSTANTS
  ProxyJobs = {p1, p2}
  MetricsJobs = {m1}
  Grace = 2
INVARIANTS InTime MetricsLast
PROPERTIES CutOnlyLate Stops
CHECK_DEADLOCK FALSE
