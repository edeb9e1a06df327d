SPECIFICATION FairSpec
CONSTANTS
  Par <- Reverse
  ProtBuffer = 2
  CanSplit = FALSE
  MayCrash = {"Client"}
PROPERTIES
  FinalisesWhenIdle
CHECK_DEADLOCK FALSE
