SPECIFICATION FairSpec
CONSTANTS
  Leftovers = 3
  MaxFaults = 6
INVARIANTS
  OrphansAreExcused
  TouchesNoDeadMount
PROPERTIES
  Recovers
  UnmountEnds
CHECK_DEADLOCK FALSE
