SPECIFICATION Spec
CONSTANTS
  j1 = j1
  j2 = j2
  k1 = k1
  r1 = r1
  r2 = r2
  Jobs = {j1, j2}
  Keys = {k1}
  Requests = {r1, r2}
  JobOf <- TwoJobs
  KeyOf <- OneKey
  Workers = {w1, w2}
  MaxAttempts = 2
  MaxInterrupts = 1
  Timely = {"lease", "retry", "enqueue"}
  NoJob = NoJob
  NoKey = NoKey
INVARIANTS OneHolder AcceptedCallsAgree
PROPERTIES RerunOnlyAfterInterrupt ImplementsLedger
