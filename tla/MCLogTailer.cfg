\* Three logs that may be renamed over, disappear or be truncated in place.
CONSTANTS
  MaxGen = 3
  MaxSize = 3
  Moves <- AlsoTruncated
  None = None
SPECIFICATION FairSpec
INVARIANTS
  TypeOK
  ConsumedExactly
  LinesAreWhole
PROPERTIES
  CatchesUp
  TruncationNoticed
  StopEnds
CHECK_DEADLOCK FALSE
