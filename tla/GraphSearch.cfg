\* A cycle of all four nodes is longer than MaxCycleSize.
CONSTANTS
  Nodes = {n1, n2, n3, n4}
  Graphs <- AllGraphs
  MaxEdges = 5
  MaxParallel = 2
  Limits = {1, 2, None}
  MaxCycleSize = 3
  None = None
SPECIFICATION Spec
CHECK_DEADLOCK FALSE
SYMMETRY Symmetry
INVARIANTS CyclesSound ComponentsExact CyclesListed
