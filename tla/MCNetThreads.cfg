SPECIFICATION FairSpec
CONSTANTS
  Requests <- MCRequests
  Types = {"any", "t", "u"}
  AnyType = "any"
  MessageTypes <- MCMessageTypes
  MaxListeners = 2
  MaxThreads = 2
INVARIANTS
  AllReleased
  TablesHold
  InOrder
PROPERTIES
  RightListeners
  Arrives
CHECK_DEADLOCK FALSE
