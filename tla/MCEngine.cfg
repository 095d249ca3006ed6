SPECIFICATION FairSpec
CONSTANTS
  a1 = a1
  a2 = a2
  b = b
  A = A
  B = B
  Top = Top
  Atomic = {a1, a2, b}
  Coupled = {A, B, Top}
  Root = Top
  D <- MCD
  Level <- MCLevel
  IC <- MCIC
  EIC <- MCEIC
  EOC <- MCEOC
  Ports = {1, 2}
  Sigmas <- MCSigmas
  INF = 9
  Tf = 2
  MaxSteps = 2
  Leaves <- MCLeaves
  Rank <- MCRank
  Reach <- MCReach
  Route <- MCRoute
  None = None
INVARIANTS
  TransitionChildIsFirst
  ElapsedTimeLegal
  ImminentFirst
  NothingMissed
  HeapsKnowTimes
PROPERTIES
  Terminates
  ImplementsFlatDEVS
CHECK_DEADLOCK FALSE
