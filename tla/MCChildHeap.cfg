\* ChildHeap with five children and three times: safety and refinement.
CONSTANTS
  Size = 5
  Depth = 3
  Times = {1, 2, 3}
  PadTime = 100
SPECIFICATION Spec
INVARIANTS NextIsFirst
PROPERTIES ImplementsMinChild
