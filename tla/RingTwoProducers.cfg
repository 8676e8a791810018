SPECIFICATION Spec
CONSTANTS
  Producers = {p1, p2}
  Consumers = {c1}
  Mortals = {}
  Size = 4
  Wrap = 8
  Bases = {6}
  MultiProd = FALSE
  MultiCons = FALSE
  MaxBulk = 1
  MaxObjs = 3
PROPERTY FifoSpec
