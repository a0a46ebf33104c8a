SPECIFICATION Spec
CONSTANTS
  Procs = {p1, p2, p3}
  NoProc = NoProc
  Bytes = {a, b}
  Junk = Junk
  PIPESIZE = 2
  Wrap = 4
  Lens = {3}
CHECK_DEADLOCK FALSE
SYMMETRY PipeSymmetry
INVARIANTS SleepersHaveCause FreedOnce
PROPERTY PipeIsFifo
