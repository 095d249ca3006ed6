SPECIFICATION FairSpec
CONSTANTS
  MSS = 2
  DUP_ACK_LIMIT = 2
  WND_CWND_MAX = 4
  Thresholds = {0, 2}
  Marks = {TRUE, FALSE}
  Packets = 3
  Capacity = 2
INVARIANTS
  BufferHolds
  BufferSafe
  NotStranded
PROPERTIES
  ImplementsStream
  AllAcknowledged
CHECK_DEADLOCK FALSE
