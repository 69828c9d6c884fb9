SPECIFICATION Spec
CONSTANTS
  Nodes = {a, b}
  HoppingSequence <- MC_HoppingSequence
  Slotframe = 3
  TSCH_BURST_MAX_LEN = 3
  MaxQueue = 3
  MaxAsn = 8
  MaxMisses = 1
SYMMETRY MC_Symmetry
INVARIANTS
  TypeOK
  BurstMeets
  BurstKeepsChannel
  BurstLength
CHECK_DEADLOCK FALSE
