SPECIFICATION FairSpec
CONSTANTS
  Inf = 9
  Packets = {1, 2, 3, 4}
  Length <- MCLength
  Kinds = {"packetqueue", "simple", "JobQueue"}
  Periods = {3, 9}
  MaxCapacity = 2
  Delays = {0, 3}
INVARIANTS
  DueWithSomething
  OnePerRequest
  NotStranded
  LeavesWhenDue
CHECK_DEADLOCK FALSE
PROPERTIES
  ImplementsFifo
  Delivered
