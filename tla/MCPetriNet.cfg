SPECIFICATION Spec
CONSTANTS
  p1 = p1
  p2 = p2
  x1 = x1
  x2 = x2
  src = src
  trg = trg
  Places = {p1, p2}
  Inner = {x1, x2}
  Sources = {src}
  Triggered = {trg}
  Pre <- MCPre
  Weight <- MCWeight
  Arcs <- MCArcs
  Orders <- MCOrders
  Delays = {0, 1}
  Marks = {0, 2}
  INF = 9
  Tf = 2
INVARIANTS
  NoneForgotten
  NextIsEarliest
  FiringUndisturbed
PROPERTIES
  ImplementsTokenGame
CHECK_DEADLOCK FALSE
