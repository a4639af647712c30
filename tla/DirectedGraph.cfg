SPECIFICATION FairSpec
CONSTANT Node = {n1, n2, n3}
INVARIANTS
  TypeOK
  OrderedIsTopological
  NothingOnlyForCycle
  NothingLeftInProgress
PROPERTIES
  ImplementsTopologicalSort
  SortTerminates
CHECK_DEADLOCK FALSE
