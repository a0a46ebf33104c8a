SPECIFICATION Spec
CONSTANTS
  Procs = {p1, p2}
  NoProc = NoProc
  Intr = Intr
  Blocks = {b1, b2, b3}
  NoBlock = NoBlock
  Values = {v1, v2}
  NBUF = 2
  Nums = {4, 6}
  Turns = 1
  MaxPins = 1
SYMMETRY BCacheSymmetry
INVARIANTS  DiskSleepers RequestsExact
PROPERTY CacheIsStore
