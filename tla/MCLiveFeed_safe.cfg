\* Two clients, one mission, a queue of one event.
CONSTANTS
  Guid = {g1}
  Contract = {c1}
  Generator = {x1}
  Completion <- CompleteOnly
  Time <- OneTime
  WINDOW = 1
  MAXLEN = 1
  None = None
  Conn = {k1, k2}
  QMAX = 1
SPECIFICATION FeedSpec
INVARIANTS
  FeedTypeOK
  NoClientDiverges
SYMMETRY Symmetry
