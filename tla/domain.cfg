SPECIFICATION MCSpec
CONSTANTS
  Jids = {g1, g2}
  LabelIds = {l1, l2}
  MaxAttempts = 2
  Null = Null
  r1 = r1  r2 = r2  r3 = r3
  k1 = k1  k2 = k2
  d1 = d1  d2 = d2
  s1 = s1  s2 = s2
  j1 = j1  x1 = x1
  Requests = {r1, r2, r3}
  KeyOf <- MCKeyOf
  SeedMembers <- MCSeedMembers
  SeedStatuses = {"active", "left", "deleted"}
  Newcomer = "zoe"
  Destroyers = {d1, d2}
  Sessions = {s1, s2}
  SeedSessions <- MCSeedSessions
  OwnJobs = {j1}
  OtherJobs = {x1}
  Rows = 4
  SeedRows <- MCSeedRows
  WalkedQueries = {"ListChats", "ListInstanceChats"}
  AskedSorts <- MCSorts
  AskedFilters <- MCFilters
  AskedLimits = {1, 3}
  MaxPageSize = 2
  MaxChanges = 2
  q1 = q1  w1 = w1  w2 = w2
  RequestKeys = {q1}
  WindowKeys <- MCWindowKeys
  MaxJobs = 2
  MaxRefusals = 1
  MaxRestarts = 1
SYMMETRY MCSymmetry
INVARIANTS LibraryIsConsistent RowsAgree GroupsChangeAsTold WalkSlipsOncePerChange QueueKeepsItsWord
PROPERTIES DestroyedIsCleaned
CHECK_DEADLOCK FALSE
