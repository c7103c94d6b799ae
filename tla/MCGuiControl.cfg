\* Two watcher processes: the window's own and an orphan or one started by hand.
CONSTANTS
  Core = {p1, p2}
  Crashes = TRUE
  None = None
SPECIFICATION FairSpec
INVARIANTS
  TypeOK
  NoForgottenChild
  ExactlyOnePoll
  
PROPERTIES
  StatusCatchesUp
  QuitStopsWatcher
\* A window that was left, with no watcher running, does nothing.
CHECK_DEADLOCK FALSE
