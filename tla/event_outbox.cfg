SPECIFICATION FairSpec
CONSTANTS
  a1 = a1
  a2 = a2
  a3 = a3
  e1 = e1
  e2 = e2
  e3 = e3
  Events = {e1, e2, e3}
  Calls = {a1, a2, a3}
  Plan <- Repeated
  Rank <- ThirdFirst
  Consumers = {c1}
  BatchSize = 2
  Refused = {e3}
  Readers = {r1}
  Limit = 1
  MaxFaults = 2
INVARIANTS AppendsStand RepublishedForAReason MissedOnlyOvertaken
PROPERTIES PublishedEventually
CHECK_DEADLOCK FALSE
