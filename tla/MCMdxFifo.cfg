SPECIFICATION FifoSpec
CONSTANTS
  c1 = c1
  c2 = c2
  t1 = t1
  t2 = t2
  t3 = t3
  e1 = e1
  e2 = e2
  CPUs = {c1, c2}
  BootCPU = c1
  Threads = {t1, t2, t3}
  Main = t1
  NULL = NULL
  NPrio = 2
  Prio <- SamePrio
  Preemptive = {t1}
  Ops = {"wait", "trywait", "post", "create"}
  Mutex = FALSE
  InitCount = 0
  MaxIssued = 2
  Entries = {e1, e2}
SYMMETRY Symmetry
INVARIANTS
  PermitMeansEntry
  NoStrandedEntry
CHECK_DEADLOCK FALSE
