SPECIFICATION Spec
CONSTANTS
  td_c = td_c
  slp_c = slp_c
  tmr_c = tmr_c
  NULL = NULL
  MaxCnt = 6
  WordMax = 31
  Latency = 1
  LateCap = 0
  Freq = 2
  Million = 3
  Word = 16
  WaitUsecs = {4}
  SleepUsecs = {1, 3}
  PeriodUs = 4
  MaxCount = 1
  MaxPeriods = 1
  DriftCap = 4
  MaxFreq = 12
PROPERTY
  WaitNeverEarly
