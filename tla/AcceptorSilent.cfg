SPECIFICATION FairSpec
CONSTANTS
  a = a
  b = b
  c3 = c3
  Nobody = Nobody
  Clients <- Two
  Streams = 1
  ProtBuffer = 1
  Silent <- OnlyA
  Slow <- None
  MayDie <- None
PROPERTIES
  KeepsAccepting
CHECK_DEADLOCK FALSE
