SPECIFICATION FairSpec
CONSTANTS
  Apps = {a1, a2}
  Mortals = {}
  NumSlots = 2
  PoolSize = 3
  RxRingSize = 2
  Sockets = {k1, k2}
  None = None
INVARIANTS SlotExclusive FreeNeverDropped CommandsConserved CloseHitsOwnSocket NoNullDeref EventsReachOwner
PROPERTIES AllocatorSpec ClosedSlotsReturn
CHECK_DEADLOCK FALSE
