SPECIFICATION LiveSpec
CONSTANTS
  Procs = {p1, p2}
  Blocks = {b1, b2, b3, b4}
  Values = {v0}
  NoProc = NoProc
  NoBlock = NoBlock
  NoBuf = NoBuf
  MAXOPBLOCKS = 2
  LOGSIZE = 4
  NLOG = 5
  OpBlocks = 1
  OpReads = 1
  IdleReads = 1
INVARIANT NoLogPanic
PROPERTIES Woken
