SPECIFICATION FairSpec
CONSTANTS
  Par <- HalfU16
  ProtBuffer = 2
  CanSplit = FALSE
  MayCrash = {}
PROPERTIES
  EstablishesAllStreams
CHECK_DEADLOCK FALSE
