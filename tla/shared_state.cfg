SPECIFICATION MCSpec
CONSTANTS
  worker = worker
  provider = provider
  fact1 = fact1
  fact2 = fact2
  fact3 = fact3
  fact4 = fact4
  signal = signal
  Process = {worker, provider}
  Inode = {i1, i2, i3}
  NoInode = NoInode
  Torn = Torn
  EmptyState <- EmptyLog
  EventId = {fact1, fact2, fact3, fact4, signal}
  Appends <- MCAppends
  RetentionLimit = 2
  MaxSequence = 4
  MaxStops = 1
  MaxFailures = 1
  api = api
  olderWorker = olderWorker
  command = command
  Migrators = {api, olderWorker, command}
  Commands = {command}
  Known <- MCKnown
  MaxStarts = 4
  MaxBreaks = 1
SYMMETRY Interchangeable
INVARIANTS WholeUnlessOverlapped RecordedForGood SchemaIsWhole
CHECK_DEADLOCK FALSE
