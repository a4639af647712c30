SPECIFICATION Spec
CONSTANTS
  app = app
  lib = lib
  aggregate = aggregate
  appName = appName
  libName = libName
  allName = allName
  source = source
  object = object
  binary = binary
  generated = generated
  library = library
  list = list
  Target = {app, lib, aggregate}
  Name = {appName, libName, allName}
  Path = {source, object, binary, generated, library, list}
  Builds <- MCBuilds
INVARIANTS
  NothingIsOvertaken
  NinjaTakesSoundBuilds
CHECK_DEADLOCK FALSE
