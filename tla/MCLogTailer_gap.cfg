\* A log seen missing between two sessions.
CONSTANTS
  MaxGen = 2
  MaxSize = 3
  Moves <- AlsoRemoved
  None = None
SPECIFICATION Spec
INVARIANTS
  SessionsNotMixed
CHECK_DEADLOCK FALSE
