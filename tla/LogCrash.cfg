SPECIFICATION Spec
CONSTANTS
  Procs = {p1, p2}
  Blocks = {b1, b2}
  Values = {v0, v1}
  NoProc = NoProc
  NoBlock = NoBlock
  NoBuf = NoBuf
  MAXOPBLOCKS = 2
  LOGSIZE = 4
  NLOG = 6
  OpBlocks = 2
  OpReads = 2
  IdleReads = 1
INVARIANTS  PinExact
 
SYMMETRY Symmetry
