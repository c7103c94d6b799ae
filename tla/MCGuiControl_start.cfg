\* A start from the installed program and from the source.
CONSTANTS
  Core = {p1}
  Crashes = FALSE
  None = None
SPECIFICATION Spec
PROPERTIES
  StartSparesWindow
CHECK_DEADLOCK FALSE
