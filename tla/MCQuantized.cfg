SPECIFICATION Spec
CONSTANTS
  Inf = 20
  Kinds = {"qss_switch", "qss", "qss_bounded", "hysteretic", "cross_detect", "cross_detect_withDynamicOutput", "compare", "qss_saturation", "qss_quantizer", "qss_signal_filter"}
  MaxV = 2
  MaxData = 1
  Levels <- MCLevels
  Bands <- MCBands
  Quanta = {1, 2}
INVARIANTS
  Selects
  ComparesUnlessAstray
  WithinQuantum
  SideKnown
PROPERTIES
  HysteresisRight
  Settles
CHECK_DEADLOCK FALSE
