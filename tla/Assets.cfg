\* actool over small catalogs and the built-in tools over small directories.
CONSTANTS
  ScaleOf <- MCScaleOf
  SizeOf <- MCSizeOf
  VersionOf <- MCVersionOf
  NameBytes <- MCNameBytes
  ValueLength = 16
  Directories <- MCDirectories
  Files <- MCFiles
  CommandLines <- MCCommandLines
  Indeterminate <- MCIndeterminate
  Absent = Absent
  Unreadable = Unreadable
  Nil = Nil
  Nothing <- MCNothing
  CurrentDirectory <- MCCurrentDirectory
  SourceRoot <- MCSourceRoot
  Versions <- MCVersions
  PathOf <- MCPathOf
  Invocations <- MCInvocations
  MaxCalls = 3
  MaxFaults = 2
SPECIFICATION FilesSpec
INVARIANT
  BlocksAreWhole
  NamesLeadToTheirImages
  ProductNamesItsImages
  SuccessIsTrue
PROPERTY
  OnlyOutputsChange
CHECK_DEADLOCK FALSE
