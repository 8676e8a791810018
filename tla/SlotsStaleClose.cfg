SPECIFICATION Spec
CONSTANTS
  Apps = {a1, a2}
  Mortals = {a1}
  NumSlots = 2
  PoolSize = 3
  RxRingSize = 2
  Sockets = {k1, k2}
  None = None
SYMMETRY Symmetry
INVARIANTS CloseHitsOwnSocket
CHECK_DEADLOCK FALSE
