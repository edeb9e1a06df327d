SPECIFICATION FairSpec
CONSTANTS
  Par <- Both
  ProtBuffer = 2
  CanSplit = TRUE
  MayCrash = {"Client", "Server"}
INVARIANTS
  StreamsPaired
  LoadAfterAllConnected
  StartLoadOnce
  ServerResultsExact
PROPERTIES
  ImplementsLifecycle
  ImplementsStreams
  ClientEnds
  ExchangeEnds
CHECK_DEADLOCK FALSE
