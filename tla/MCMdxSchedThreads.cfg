SPECIFICATION Spec
CONSTANTS
  c1 = c1
  c2 = c2
  t1 = t1
  t2 = t2
  CPUs = {c1, c2}
  BootCPU = c1
  Threads = {t1, t2}
  Main = t1
  NULL = NULL
  NPrio = 3
  Prio <- MainFirst
  Preemptive = {t1}
  Ops = {"timedwait", "shortwait", "sleep", "yield", "exit", "create"}
  Mutex = FALSE
  InitCount = 0
  MaxIssued = 0
INVARIANTS
  OnePlace
  FreedIsGone
  NoPanic
  AvailHonest
  NeverAllAtRest
CHECK_DEADLOCK FALSE
