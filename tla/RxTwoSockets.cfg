SPECIFICATION Spec
CONSTANTS
  Socks = {s1, s2}
  None = None
  RxRingSize = 2
  CacheSize = 2
  Burst = 1
  SelRingSize = 3
  CmdRoom = 2
  MaxData = 2
  Timeout = TRUE
SYMMETRY Symmetry
INVARIANTS EventDelivered BacklogServed
