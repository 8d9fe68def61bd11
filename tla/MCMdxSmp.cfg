SPECIFICATION FairSpec
CONSTANTS
  c1 = c1
  c2 = c2
  c3 = c3
  CPUs = {c1, c2, c3}
  NULL = NULL
  Masks <- SomeMasks
  Notifiers = {c1}
INVARIANTS
  NoStrayTryst
PROPERTIES
  Rendezvous
  RendezvousEnds
  PanicStops
CHECK_DEADLOCK FALSE
