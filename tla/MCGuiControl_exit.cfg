\* The user leaves; nothing crashes.
CONSTANTS
  Core = {p1}
  Crashes = FALSE
  None = None
SPECIFICATION FairSpec
PROPERTIES
  ExitEnds
CHECK_DEADLOCK FALSE
