SPECIFICATION FairSpec
CONSTANTS
  Par <- Forward3
  ProtBuffer = 3
  CanSplit = FALSE
  MayCrash = {}
INVARIANTS
  TypeOK
  SendersNeverFail
PROPERTIES
  TestCompletes
