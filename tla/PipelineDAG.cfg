CONSTANTS
  Names = {1, 2, 3, 4}
  DepLists <- Lists
  MaxRuns = 2
  None = None
SPECIFICATION Spec
CHECK_DEADLOCK FALSE
INVARIANTS TypeOK SortSound RemainingBlocked ReportsCycle
PROPERTY ImplementsContract
