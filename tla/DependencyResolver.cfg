SPECIFICATION FairSpec
CONSTANTS
  t1 = t1
  t2 = t2
  t3 = t3
  lib = lib
  app = app
  Target = {t1, t2, t3}
  ProductName = {lib, app}
  Unresolved = Unresolved
  Projects <- MCProjects
  Schemes <- MCSchemes
  StackLimit = 4
INVARIANTS
  ResolvesSoundly
PROPERTY AcyclicBuildIsOrdered
CHECK_DEADLOCK FALSE
