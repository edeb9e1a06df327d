SPECIFICATION FairSpec
CONSTANTS
  TimeSeconds = 3
  Measure = TRUE
  Block = 2
  Second = 2
  Win = 1
  Baseline = 1
  Capacity = 2
  MayDie = {"Sender", "Receiver"}
  Timed = {"Receiver"}
  MaxBytes = 3
  MaxLate = 1
INVARIANTS
  TypeOK
  ReceivedWereSent
  IntervalsAddUp
  SamplesTile
  WindowsTile
PROPERTIES
  ImplementsStream
  StreamEnds
