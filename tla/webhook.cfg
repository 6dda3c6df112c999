\* Two calls about one delivery, two dispatchers, one crash or failed statement.
CONSTANTS
  d1 = d1
  r1 = r1
  retryKey = retryKey
  bulkKey = bulkKey
  c1 = c1
  c2 = c2
  Deliveries = {d1, r1}
  Scheduled = {d1}
  Keys = {retryKey, bulkKey}
  Dispatchers = {w1, w2}
  Commands = {c1, c2}
  KindsOf <- MCKindsOf
  TargetsOf <- MCTargetsOf
  KeyOf <- MCKeyOf
  RedriveOf <- MCRedriveOf
  MaxAttempts = 2
  MaxInterrupts = 1
  Timely = TRUE
  NoDelivery = NoDelivery
  NoKey = NoKey
SPECIFICATION FairSpec
INVARIANTS RetryBudget SettledTogether
PROPERTIES DeliveredMovesOnlyRaced DeliveriesEnd
CHECK_DEADLOCK FALSE
