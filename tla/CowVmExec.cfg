SPECIFICATION Spec
CONSTANTS
  Procs = {i, a}
  InitProc = i
  Pages = {g1, g2, g3, g4}
  low = low
  LowSlots <- MCLowSlots
  PteIndex <- MCPteIndex
  MaxVa = 3
  StoreVas = {0, 2}
  Syscalls = {"sbrk"}
  InitCalls = {"exec"}
  SegSizes = {1}
  Values = {v1}
  Zero = Zero
  Junk = Junk
  NoPage = NoPage
  NoProc = NoProc
SYMMETRY Symmetry
CHECK_DEADLOCK FALSE
INVARIANTS
  PagesCounted
PROPERTY
  MemoryIsPrivate
