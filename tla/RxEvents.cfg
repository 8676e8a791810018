SPECIFICATION FairSpec
CONSTANTS
  Socks = {s1}
  None = None
  RxRingSize = 4
  CacheSize = 3
  Burst = 3
  SelRingSize = 3
  CmdRoom = 3
  MaxData = 4
  Timeout = TRUE
INVARIANTS EventDelivered SubmitNeverFails StreamIntact BacklogServed
PROPERTIES AllReceived
