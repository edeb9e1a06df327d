SPECIFICATION Spec
CONSTANTS
  Par <- Single
  ProtBuffer = 2
  CanSplit = TRUE
  MayCrash = {}
INVARIANTS
  FramingInSync
CHECK_DEADLOCK FALSE
