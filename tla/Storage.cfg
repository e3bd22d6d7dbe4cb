CONSTANTS
  Entries <- SomeEntries
  FirstConfig = "c0"
  MaxIndex = 3
  Me = 1
  Candidates = {2, 3}
  MaxTerm = 2
  MaxLeaderTerm = 3
  Chunks = 2
  FirstOffset = 1
  MaxNet = 2
SPECIFICATION StorageSpec
INVARIANTS
  LogRecoverable
  ConfigInLog
  VotesSound
PROPERTIES
  ImplementsLogSpec
  SnapshotSound
CHECK_DEADLOCK FALSE
