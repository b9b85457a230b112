SPECIFICATION FairSpec
CONSTANTS
  a1 = a1  d1 = d1  d2 = d2  g1 = g1  g2 = g2  w1 = w1  w2 = w2
  None = None  ENOENT = ENOENT  EIO = EIO
  Apps = {a1}
  Depots = {d1, d2}
  Gids = {g1, g2}
  Workers = {w1, w2}
  MaxSnapshot = 2
  IndexSpan = 16
INVARIANTS
  TreeLeadsToSlots
  PathsLeadToDirs
  StaleIdsServeNoOther
PROPERTIES
  IdsAreNeverReused
  EveryRequestIsAnswered
