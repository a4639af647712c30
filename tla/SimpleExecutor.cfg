SPECIFICATION Spec
CONSTANTS
  app = app
  lib = lib
  object = object
  binary = binary
  generated = generated
  list = list
  supportDirectory = supportDirectory
  Target = {app, lib}
  Path = {object, binary, generated, list}
  Directory = {supportDirectory}
  Builds <- MCBuilds
INVARIANTS
  ToolsRunInOrder
  OutcomeIsTrue
PROPERTIES
  NothingRunsAfterFailure
CHECK_DEADLOCK FALSE
