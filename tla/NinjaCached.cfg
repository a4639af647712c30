SPECIFICATION Spec
CONSTANTS
  plain = plain
  conditional = conditional
  release = release
  settings = settings
  releaseSettings = releaseSettings
  Configuration = {plain, conditional, release}
  Arguments = {settings, releaseSettings}
  canonicalArguments <- MCCanonicalArguments
  Accepted <- MCAccepted
  Target = {app, lib}
  NoFile = NoFile
  Truncated = Truncated
  MaxVersion = 1
  MaxTime = 2
SYMMETRY TargetSymmetry
INVARIANT CachedNinjaIsSafe
