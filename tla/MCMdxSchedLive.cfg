SPECIFICATION FairSpec
CONSTANTS
  c1 = c1
  t1 = t1
  t2 = t2
  CPUs = {c1}
  BootCPU = c1
  Threads = {t1, t2}
  Main = t1
  NULL = NULL
  NPrio = 2
  Prio <- SamePrio
  Preemptive = {t1, t2}
  Ops = {"timedwait", "post", "create"}
  Mutex = TRUE
  InitCount = 1
  MaxIssued = 1
PROPERTIES
  TimedWaitEnds
  ReadyRuns
