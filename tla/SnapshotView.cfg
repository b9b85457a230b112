SPECIFICATION Spec
CONSTANTS
  Names = {"a", "b"}
  Manifests <- Small
  MaxDepth = 3
  None = None
INVARIANTS
  IdsAreTheirPaths
  KindsAgree
  ListingsAreComplete
  EverythingIsReachable
