SPECIFICATION Spec
CONSTANTS
  MSS = 2
  DUP_ACK_LIMIT = 2
  WND_CWND_MAX = 4
  Thresholds = {0, 2}
  Marks = {TRUE, FALSE}
  Packets = 3
  Capacity = 2
CHECK_DEADLOCK FALSE
INVARIANT ConfirmedLeaves
