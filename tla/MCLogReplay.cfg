\* Every log of five lines, a deque of two events, so that the third evicts.
CONSTANTS
  Guid = {g1, g2}
  Contract = {c1, c2}
  Generator = {x1}
  Completion <- MCCompletion
  Time <- MCTime
  WINDOW = 1
  MAXLEN = 2
  MaxLines = 5
  None = None
SPECIFICATION MCSpec
INVARIANTS
  TypeOK
  ActiveMatchesMarkers
  LifecycleNamesAgree
  LoopFindsClosest
  ActiveIsReplay
  AttributionHappened
  EvictionCostsNothing
SYMMETRY Symmetry
CHECK_DEADLOCK FALSE
