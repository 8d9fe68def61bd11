SPECIFICATION Spec
CONSTANTS
  NODE_S = 3
  ALIGN = 2
  NLists = 5
  Regions <- TwoRegions
  Requests = {1, 4, 9}
  NULL = NULL
INVARIANTS
  Tiling
  FreeListExact
  FindsBestFit
  NoLeakNoClobber
PROPERTIES
  Malloc
CHECK_DEADLOCK FALSE
