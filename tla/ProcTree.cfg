SPECIFICATION Spec
CONSTANTS
  NPROC = 3
  Cpus = {c1, c2}
  Ops = {"fork", "exit", "wait", "kill", "sleeplock"}
  InitOps = {"fork", "wait"}
  KillPids = {2}
  MaxPid = 3
  NoCpu = NoCpu
SYMMETRY CpuSymmetry
INVARIANTS SwitchOK NoOrphan NoLostWakeup SleepLockOK KillHitsTarget
