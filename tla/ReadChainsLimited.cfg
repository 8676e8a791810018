SPECIFICATION Spec
CONSTANTS
  MaxBytes = 6
  MaxSegLen = 3
  MaxSegs = 2
  MaxRing = 2
  Limits = {0, 1, 2, 3, 4}
INVARIANT NothingLost
CHECK_DEADLOCK FALSE
