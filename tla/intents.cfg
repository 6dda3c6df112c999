SPECIFICATION MCSpec
CONSTANTS
  Environments <- MCEnvironments
  Process = {"api", "worker", "provider"}
  Inode = {i1, i2}
  NoInode = NoInode
  Torn = Torn
  EmptyState <- NoIntents
  send1 = send1
  send2 = send2
  retry1 = retry1
  intent1 = intent1
  intent2 = intent2
  Message = {send1, send2, retry1}
  Original <- MCOriginal
  Intent = {intent1, intent2}
  IntentOf <- MCIntentOf
  NoMessage = NoMessage
  MaxStops = 1
  MaxFailures = 1
  Runtimes = {r1, r2}
  Sessions = {s1, s2}
  NoCredentials = NoCredentials
  MaxBoots = 2
  MaxUpdates = 2
  MaxRefusals = 1
SYMMETRY Interchangeable
INVARIANTS ProductionShares CredentialsAreKept
PROPERTIES IntentsAreFound
CHECK_DEADLOCK FALSE
