\* One directory by its HOTFIX folder, rewritten to its root when saved, one by its
\* LIVE folder.
CONSTANTS
  Dir <- MCDir
  ByHand <- MCByHand
  Bases <- MCBases
  Fallback <- MCFallback
  Groups = 2
  Torn = Torn
  None = None
SPECIFICATION FairSpec
INVARIANTS
  TypeOK
  SearchFindsLog
  LaunchAgrees
  TestsShowThisRun
PROPERTIES
  TasksReturn
