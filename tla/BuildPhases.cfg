\* The phases of small targets, each tool of which may be missing.
CONSTANTS
  LowerCaseOf <- MCLowerCaseOf
  SumOf <- MCSumOf
  Tools <- MCTools
  FileTypes <- MCFileTypes
  TargetDescriptions <- MCTargetDescriptions
  Build <- MCBuild
SPECIFICATION Spec
INVARIANT
  HeadersAreFound
  DerivedFilesAreMade
  OneMakerEach
  NothingIsLost
  CompilesWaitForSwift
  PrecompiledHeaderFits
CHECK_DEADLOCK FALSE
