SPECIFICATION FairSpec
CONSTANTS
  Callouts = {c1, c2}
  c1 = c1
  c2 = c2
  NULL = NULL
  MaxCnt = 9
  WordMax = 31
  SetTicks = {0, 1, 3}
  RearmTicks = {}
  CbCancel = FALSE
  Latency = 1
  LapSafe = TRUE
  LateCap = 6
INVARIANTS
  Prompt
  TicksLeftHonest
PROPERTIES
  NeverEarly
  FiresOnlyPending
  EventuallyFires
