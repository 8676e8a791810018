CONSTANTS
  Cells = {c1, c2}
  Slots = {s1, s2}
  QLimit = 1
  SlowLink = TRUE
  MaxDrift = 1
  None = None
SPECIFICATION Spec
INVARIANTS
  QueuedAreAnnounced
  CountersCover
  HeldAreOpen
  QueuesSound
  UpcallHasPcb
  ClosureReported
  CellsAccounted
PROPERTY PassDrainsLists
SYMMETRY Symmetry
