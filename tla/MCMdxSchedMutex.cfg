SPECIFICATION Spec
CONSTANTS
  c1 = c1
  c2 = c2
  t1 = t1
  t2 = t2
  CPUs = {c1, c2}
  BootCPU = c1
  Threads = {t1, t2}
  Main = t1
  NULL = NULL
  NPrio = 2
  Prio <- SamePrio
  Preemptive = {t1, t2}
  Ops = {"wait", "timedwait", "trywait", "post", "create"}
  Mutex = TRUE
  InitCount = 1
  MaxIssued = 1
INVARIANTS
  OnePlace
  NoPanic
  PermitsConserved
  NoSpinDeadlock
PROPERTY
  Semaphore
