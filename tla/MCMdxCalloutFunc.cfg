SPECIFICATION Spec
CONSTANTS
  Callouts = {c1, c2, c3}
  c1 = c1
  c2 = c2
  c3 = c3
  NULL = NULL
  MaxCnt = 4
  WordMax = 31
  SetTicks = {1, 2}
  RearmTicks = {2}
  CbCancel = TRUE
  Latency = 1
  LapSafe = FALSE
  LateCap = 0
SYMMETRY Symmetry
INVARIANTS
  TypeOK
  ListIntegrity
  TimerArmed
