SPECIFICATION Spec
CONSTANTS
  Readers = {r1}
  Writers = {w1}
  INPUT_BUF_SIZE = 2
  UART_TX_BUF_SIZE = 2
  Wrap = 4
  ConsoleLens = {2}
  BSIZE = 2
  NDIRECT = 2
  DataBlocks = 5
  MAXOPBLOCKS = 6
  Slots = {1, 2}
  PGSIZE = 2
  Limit = 13
  Units = {2, 3, 5}
  Morecore = 4
  MAXARGS = 3
  Pids = {1, 2, 3, 4, 5}
  NOFILE = 5
  ForkFails = TRUE
  TreeDepth = 3
  Sleepers = {p1, p2}
  TickWrap = 5
  Width = 5
  DIRSIZ = 2
  BufSize = 4
  PatternLen = 4
  TextLen = 2
  PathLen = 5
  InputLen = 5
  MemLen = 6
INVARIANTS
  ConsoleAwake FileBlocks TablesExact HeapKept CommandsRun SleepExact LibraryExact
PROPERTIES
  ConsoleInOrder FileIsSequence
