SPECIFICATION FairSpec
CONSTANTS
  r1 = r1
  r2 = r2
  s1 = s1
  s2 = s2
  s3 = s3
  p1 = p1
  t1 = t1
  Runtimes = {r1, r2}
  Starts = {s1, s2, s3}
  Stops = {p1}
  Ticks = {t1}
  RuntimeOf <- TwoRuntimes
  MaxSignals = 1
  MaxFaults = 1
  None = None
INVARIANTS SocketsAreHeld
PROPERTIES LostLeaseNoticed
CHECK_DEADLOCK FALSE
