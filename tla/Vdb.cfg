SPECIFICATION MCSpec
CONSTANTS
  TableNames = {t1, t2}
  LongNames = {t2}
  FirstTable = t1
  StoredKeys = {1, 2}
  MaxPartitions = 2
  MaxReplicas = 2
  KeyNum = 3
  Vectors = {v1}
  MaxIndexes = 2
  MaxDeletes = 1
  MaxStops = 2
  MaxCrashes = 1
INVARIANTS
  StoreIntact
  ItemsHaveKeys
  NoKeyTwice
  
CHECK_DEADLOCK FALSE
