CONSTANTS
  Producers = {11, 12}
  Pushing = {11}
  ThreadNum = 2
  Ids = {1, 2}
  MaxQueue = 2
  MaxPush = 1
  Callers = {"a", "b"}
  Stoppers = {"s"}
  MaxCalls = 1
SPECIFICATION SedaSpec
INVARIANTS
  StopDrains
  LoopSafe
PROPERTIES
  SedaImplementsExecutor
  PoolProgress
  StopEndsThreads
  LoopProgress
CHECK_DEADLOCK FALSE
