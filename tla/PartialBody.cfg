CONSTANTS
  Uses = {"raft"}
  HeaderBytes = 2
  Capacity = 7
  MaxWaste = 3
  Bodies = {1, 2}
  MaxMessages = 3
SPECIFICATION Spec
PROPERTY LoopResponds
CHECK_DEADLOCK FALSE
