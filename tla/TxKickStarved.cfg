SPECIFICATION Spec
CONSTANTS
  TxRingSize = 3
  PoolSize = 3
  MaxSend = 3
INVARIANTS KickRetryNotifies
