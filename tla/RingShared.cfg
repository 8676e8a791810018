SPECIFICATION FairSpec
CONSTANTS
  Producers = {p1, p2}
  Consumers = {c1, c2}
  Mortals = {p1}
  Size = 4
  Wrap = 8
  Bases = {7}
  MultiProd = TRUE
  MultiCons = TRUE
  MaxBulk = 2
  MaxObjs = 3
INVARIANTS TypeOK ClaimsDisjoint GotInOrder
PROPERTIES FifoSpec OperationsEnd
