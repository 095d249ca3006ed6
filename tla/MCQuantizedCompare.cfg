SPECIFICATION Spec
CONSTANTS
  Inf = 20
  Kinds = {"compare"}
  MaxV = 2
  MaxData = 1
  Levels <- MCLevels
  Bands <- MCBands
  Quanta = {1}
INVARIANT Compares
CHECK_DEADLOCK FALSE
