SPECIFICATION FairSpec
CONSTANTS
  None = None
  Chunks = {1, 2, 3}
  Config <- SmallManifests
  Parallelism = 2
  MaxAttempts = 3
  Faults = {"fetch", "write", "panic", "io", "remove", "signal"}
INVARIANTS
  NothingLeftInFlight
PROPERTIES
  InterruptStopsSubmitting
  RunEnds
CHECK_DEADLOCK FALSE
