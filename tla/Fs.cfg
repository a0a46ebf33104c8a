SPECIFICATION Spec
CONSTANTS
  Procs = {p1, p2}
  InitProc = p1
  NoProc = NoProc
  NINODES = 3
  NFILE = 1
  NOFILE = 2
  Names = {"a", "b"}
  Requests <- MCRequests
  InitRequests <- MCInitRequests
  Crashes = TRUE
INVARIANTS LinksExact RefsExact  NoLockCycle
