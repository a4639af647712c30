SPECIFICATION Spec
CONSTANTS
  Architectures <- TwoArchitectures
  TargetDescriptions <- MCTargetDescriptions
INVARIANTS
  PrioritiesKeepTheOrder
  OnlyTheProjectMakesCycles
CHECK_DEADLOCK FALSE
