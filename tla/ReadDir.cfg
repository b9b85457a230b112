SPECIFICATION FairSpec
CONSTANTS
  Names = {1, 2, 3}
  Patterns <- Searches
  MaxIno = 5
  MaxRestarts = 1
  Rooms = {0, 1, 2}
  None = None
INVARIANTS
  ListedOnce
  ScanIsWhole
PROPERTIES
  ImplementsListing
  ListingEnds
