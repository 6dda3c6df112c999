SPECIFICATION Spec
CONSTANTS
  j1 = j1
  j2 = j2
  k1 = k1
  r1 = r1
  r2 = r2
  Jobs = {j1}
  Keys = {k1}
  Requests = {r1}
  JobOf <- OneJob
  KeyOf <- FirstKey
  Workers = {w1, w2}
  MaxAttempts = 2
  MaxInterrupts = 0
  Timely = {"lease", "retry"}
  NoJob = NoJob
  NoKey = NoKey
INVARIANTS NotRunningInTwoWorkers
