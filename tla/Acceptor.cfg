SPECIFICATION FairSpec
CONSTANTS
  a = a
  b = b
  c3 = c3
  Nobody = Nobody
  Clients <- Three
  Streams = 2
  ProtBuffer = 1
  Silent <- None
  Slow <- OnlyB
  MayDie <- OnlyA
INVARIANTS
  TypeOK
  OneTestAtATime
  StreamsAreOwn
  DataNeverStartsTest
  NeverRefused
PROPERTIES
  OnlyAcceptEndsLoad
  EveryoneAnswered
  NegotiationEnds
CHECK_DEADLOCK FALSE
