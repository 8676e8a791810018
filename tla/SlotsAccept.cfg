SPECIFICATION Spec
CONSTANTS
  Apps = {a1}
  Mortals = {}
  NumSlots = 3
  PoolSize = 3
  RxRingSize = 2
  Sockets = {k1, k2}
  None = None
SYMMETRY Symmetry
PROPERTIES NoSilentLoss AllocatorSpec
CHECK_DEADLOCK FALSE
