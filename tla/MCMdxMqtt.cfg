SPECIFICATION Spec
CONSTANTS
  t1 = t1
  t2 = t2
  rx = rx
  Callers = {t1, t2}
  Poller = rx
  NULL = NULL
  Kinds = {"connect", "subscribe", "publish0", "publish1", "publish2", "ping", "disconnect"}
  Timeouts = 0
  IdMod = 2
  MaxReq = 2
  Garbled = {"PUBCOMP"}
SYMMETRY Symmetry
INVARIANTS
  NoDanglingRequest
  ResultHonest
  WireWhole
  LockOrder
