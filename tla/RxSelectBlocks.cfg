SPECIFICATION FairSpec
CONSTANTS
  Socks = {s1}
  None = None
  RxRingSize = 3
  CacheSize = 3
  Burst = 2
  SelRingSize = 3
  CmdRoom = 3
  MaxData = 3
  Timeout = FALSE
PROPERTY SelectReturns
CHECK_DEADLOCK FALSE
