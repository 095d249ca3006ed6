SPECIFICATION FairSpec
CONSTANTS
  Processors = {0, 1}
  Jobs = {1, 2, 3, 4}
  NoJob = NoJob
  Capacities <- MCCapacities
  Strategies <- AllStrategies
INVARIANTS
  AccountsExact
  FailsOnlyUnequal
PROPERTIES
  ShortestQueue
  Served
CHECK_DEADLOCK FALSE
