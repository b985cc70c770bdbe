\* Every overlap of three fragments of one or two nodes and every ranking in
\* the first call; two smaller calls on the same engine after it.
CONSTANTS
  low = low
  high = high
  n1 = n1
  n2 = n2
  Rules = {low, high}
  Priority <- TwoPriorities
  Ids = {1, 2, 3}
  Nodes = {n1, n2}
  Inputs <- AllInputs
  LaterInputs <- FewInputs
  MaxIterations = 3
  MaxCalls = 3
SPECIFICATION Spec
CHECK_DEADLOCK FALSE
INVARIANTS TypeOK NoOverlap DominantKept RemovalsExplained ConsidersThisGraph
