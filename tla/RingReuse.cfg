SPECIFICATION Spec
CONSTANTS
  Producers = {p1, p2}
  Consumers = {c1, c2}
  Mortals = {p1}
  Size = 2
  Wrap = 8
  Bases = {7}
  MultiProd = TRUE
  MultiCons = TRUE
  MaxBulk = 2
  MaxObjs = 4
INVARIANTS TypeOK ClaimsDisjoint GotInOrder
PROPERTY FifoSpec
