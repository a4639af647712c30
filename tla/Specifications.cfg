\* The build specifications, from the files of the domains to the rule that
\* builds a file.
CONSTANTS
  Catalogs <- MCCatalogs
  Files <- MCFiles
  Targets <- MCTargets
  MaxDepth = 8
  NONE = NONE
SPECIFICATION Spec
INVARIANT
  RegistrationIsComplete
  FilesMeetTheirRules
PROPERTY
  InheritsOnce
CHECK_DEADLOCK FALSE
