SPECIFICATION RtSpec
CONSTANTS
  a1 = a1
  b = b
  A = A
  Top = Top
  Atomic = {a1, b}
  Coupled = {A, Top}
  Root = Top
  D <- MCD
  Level <- MCLevel
  IC <- MCIC
  EIC <- MCEIC
  EOC <- MCEOC
  Ports = {1}
  Sigmas = {0, 2, 9}
  INF = 9
  Tf = 4
  MaxSteps = 3
  Timed = TRUE
  Listeners = {a1}
  InputSigmas = {0, 9}
  RealTime = {b}
  RtMax = 5
  MaxMessages = 2
INVARIANTS
  HeapsKnowTimesInRealTime
CHECK_DEADLOCK FALSE
