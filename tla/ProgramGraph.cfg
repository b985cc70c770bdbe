\* Weights 1 and 3 are in conflict, 1 and 2 or 2 and 3 are not.
CONSTANTS
  n1 = n1
  n2 = n2
  NodeIds = {n1, n2}
  Triples <- Edges
  Weights = {1, 2, 3}
  Tolerance = 1
  MaxEdges = 2
SPECIFICATION Spec
INVARIANT WellFormed
PROPERTY MergeAccounted
