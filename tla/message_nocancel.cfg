SPECIFICATION FairSpec
CONSTANTS
  c1 = c1
  c2 = c2
  c3 = c3
  k1 = k1
  k2 = k2
  x1 = x1
  Commands = {c1, c2, c3}
  Original <- SendsAndRetry
  Keys = {k1, k2}
  KeyOf <- ThreeKeys
  Cancels = {}
  Target <- CancelNone
  MaxAttempts = 2
  MaxInterrupts = 1
  NoMessage = NoMessage
  NoKey = NoKey
INVARIANTS QueuedWorkIsVisible
PROPERTIES RetryRacesNothing QueuedIsDecided
CHECK_DEADLOCK FALSE
