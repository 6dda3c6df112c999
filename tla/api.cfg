\* Every request alone; three that share the limiter; three that change keys; and
\* three commands to the provider runtime.
CONSTANTS
  q1 = q1
  q2 = q2
  q3 = q3
  p1 = p1
  p2 = p2
  admin = admin
  bound = bound
  monitor = monitor
  spare = spare
  x = x
  sAdmin = sAdmin
  sBound = sBound
  sMonitor = sMonitor
  sSpare = sSpare
  own = own
  foreign = foreign
  Requests = {q1, q2, q3}
  Processes = {p1, p2}
  Keys = {admin, bound, monitor, spare}
  Secrets = {sAdmin, sBound, sMonitor, sSpare}
  Instances = {own, foreign}
  Refs = {admin, bound, monitor, spare, x}
  Access <- MCAccess
  Workloads <- MCWorkloads
  Limit = 1
  MaxWindow = 1
  MaxFaults = 1
  NoKey = NoKey
  NoSecret = NoSecret
  NoRef = NoRef
  NoInstance = NoInstance
  c1 = c1
  c2 = c2
  c3 = c3
  Commands = {c1, c2, c3}
  CommandSets <- MCCommandSets
  ErrorCodes = {401, 408, 409, 428, 429, 503}
  NoCode = NoCode
  NoRecord = NoRecord
  MaxTicks = 1
  MaxLosses = 1
SPECIFICATION MCSpec
INVARIANTS DenialsAudited LimitPerWindow BridgeIsTrue
PROPERTIES KeysChangeOnPurpose
CHECK_DEADLOCK FALSE
