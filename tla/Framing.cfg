SPECIFICATION FairSpec
CONSTANTS
  Messages <- Kinds
  Size <- Lengths3
  Prefix = 2
  MaxMessage = 2
  Capacity = 3
  MaxSent = 3
INVARIANTS
  TypeOK
  OnlyOversizeRefused
PROPERTIES
  ImplementsQueue
  Delivers
