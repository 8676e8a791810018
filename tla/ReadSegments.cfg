SPECIFICATION Spec
CONSTANTS
  MaxBytes = 9
  MaxSegLen = 4
  MaxSegs = 1
  MaxRing = 3
  Limits = {0, 1, 2, 3, 5}
INVARIANTS ReadsContiguous NothingLost LengthsExact BuffersAccounted
CHECK_DEADLOCK FALSE
