\* One client, one mission, a queue of two events.
CONSTANTS
  Guid = {g1}
  Contract = {c1}
  Generator = {x1}
  Completion <- CompleteOnly
  Time <- OneTime
  WINDOW = 1
  MAXLEN = 1
  None = None
  Conn = {k1}
  QMAX = 2
SPECIFICATION FairSpec
PROPERTIES
  BroadcastEnds
  DeadClientReleased
  QuietLogConverges
