CONSTANTS
  Uses = {"raft", "vectordb", "client"}
  HeaderBytes = 2
  Capacity = 8
  MaxWaste = 3
  Bodies = {1, 2, 3}
  MaxMessages = 3
  Servers = {s1, s2}
  Peers = {p1, p2}
  MaxAccepts = 2
  MaxWrites = 1
  Lengths = {0, 127, 128, 16384, 2097152}
  Counts = {0, 1, 2}
SPECIFICATION NetSpec
INVARIANTS
  FramingIntact
  ClosedOnlyWithBacklog
  HandlesSound
  RoundTrip
  WithinBuffer
PROPERTIES
  StreamProgress
  StopReturns
CHECK_DEADLOCK FALSE
