SPECIFICATION Spec
CONSTANTS
  ClockRange = 42
  RTIMER_GUARD = 2
  Intervals <- MC_Intervals
  MaxLag = 26
INVARIANTS
  TypeOK
  RefPriorToNow
  ArmedAhead
PROPERTY
  MissIsExact
  WrapInvisible
