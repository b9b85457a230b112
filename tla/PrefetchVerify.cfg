SPECIFICATION Spec
CONSTANTS
  None = None
  Chunks = {1, 2, 3}
  Config <- SmallManifests
  Parallelism = 2
  MaxAttempts = 3
  Faults = {}
INVARIANTS
  GoodFramesVerify
CHECK_DEADLOCK FALSE
