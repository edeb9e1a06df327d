SPECIFICATION FairSpec
CONSTANTS
  Clients <- Two
  Parallel <- TwoAndNone
  Directions <- AnyOfA
  MayDie <- OnlyA
  CookieLen = 2
  Capacity = 2
  MaxData = 1
INVARIANTS
  TypeOK
  OnlyOwnData
  CountsAgree
  RowsPair
  ResultsArrive
  SumsAreTrue
PROPERTIES
  ImplementsByteStreams
  ServerEnds
  ClientsEnd
