CONSTANTS
  Cells = {c1, c2}
  Slots = {s1, s2}
  QLimit = 1
  SlowLink = FALSE
  MaxDrift = 1
  None = None
SPECIFICATION Spec
INVARIANT AcceptAborts
