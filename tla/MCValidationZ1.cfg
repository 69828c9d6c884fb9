SPECIFICATION Spec
CONSTANTS
  Cells <- MCCells
  N_REQUESTS = 5
  LineSize = 4
  Command <- MCCommand
  Noise = {1, 9}
  StopTimes = {0, 3}
  MaxNoise = 5
  MaxLosses = 2
  MaxCopies = 2
  MaxLate = 1
INVARIANTS SilentWithoutCommand
CHECK_DEADLOCK FALSE
