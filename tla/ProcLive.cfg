SPECIFICATION LiveSpec
CONSTANTS
  NPROC = 2
  Cpus = {c1, c2}
  Ops = {"fork", "exit", "wait", "kill"}
  InitOps = {"fork", "wait"}
  KillPids = {2}
  MaxPid = 2
  NoCpu = NoCpu
PROPERTIES WaitReturns KilledStops
CHECK_DEADLOCK FALSE
