\* Two missions in two logs of three lines: a mission may be completed in both.
CONSTANTS
  Guid = {g1, g2}
  Contract = {c1}
  Generator = {x1}
  Completion <- MCCompletion
  Time <- MCTime
  WINDOW = 1
  MAXLEN = 2
  None = None
  File <- TwoFiles
  MaxLines = 3
SPECIFICATION MCSpec
INVARIANTS
  ImportTypeOK
  ExportsFirstCompletions
  BlueprintsFromTheirLog
SYMMETRY Symmetry
CHECK_DEADLOCK FALSE
