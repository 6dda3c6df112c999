SPECIFICATION Spec
CONSTANTS
  c1 = c1
  c2 = c2
  c3 = c3
  k1 = k1
  k2 = k2
  x1 = x1
  Commands = {c1, c2}
  Original <- TwoSends
  Keys = {k1, k2}
  KeyOf <- SameKey
  Cancels = {x1}
  Target <- CancelFirst
  MaxAttempts = 2
  MaxInterrupts = 2
  NoMessage = NoMessage
  NoKey = NoKey
INVARIANTS StatusTellsTheTruth DuplicateNeedsDoubt RefusedNeverSent OneMessageSentPerKey
CHECK_DEADLOCK FALSE
