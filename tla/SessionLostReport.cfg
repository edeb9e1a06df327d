SPECIFICATION FairSpec
CONSTANTS
  Par <- Forward3
  ProtBuffer = 2
  CanSplit = FALSE
  MayCrash = {}
PROPERTIES
  FinalisesWhenIdle
CHECK_DEADLOCK FALSE
