\* One mission: accepted, a blueprint, and no completion.
CONSTANTS
  Guid = {g1}
  Contract = {c1}
  Generator = {x1}
  Completion <- MCCompletion
  Time <- MCTime
  WINDOW = 1
  MAXLEN = 2
  None = None
  File <- TwoFiles
  MaxLines = 3
SPECIFICATION MCSpec
INVARIANTS
  BlueprintsOfCompletedMissions
CHECK_DEADLOCK FALSE
