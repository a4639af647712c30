\* The projects, configuration files and schemes that a build context is made of.
CONSTANTS
  Disks <- MCDisks
  MaxProjects = 6
  NONE = NONE
SPECIFICATION Spec
INVARIANT
  CirclesAreRead
  NestedProjectsAreLoaded
  NamesAreFollowed
CHECK_DEADLOCK FALSE
