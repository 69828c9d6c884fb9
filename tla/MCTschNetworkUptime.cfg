SPECIFICATION Spec
CONSTANTS
  Nodes = {c, n}
  Coordinator = c
  TimeslotLength = 2
  TicksPerClock = 2
  GuardTime = 1
  Unknown = Unknown
  LongRange = 8
  MaxTime = 8
INVARIANTS
  TypeOK
  UptimeAccurate
  UnknownNeverSent
  LatencyAccurate
CHECK_DEADLOCK FALSE
