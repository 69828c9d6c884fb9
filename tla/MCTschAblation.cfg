SPECIFICATION FairSpec
CONSTANTS
  NoLink = NoLink
  Links <- MC_Links
  HoppingSequence <- MC_HoppingSequence
  JoinSequence <- MC_AllChannels
  TSCH_BURST_MAX_LEN = 3
  TimeslotLength = 10
  DesyncThreshold = 1
  SYNC_IE_BOUND = 2
  AckCorrections <- MC_AckCorrections
  Drifts <- MC_Drifts
  Compensations <- MC_Compensations
  DequeuedCapacity = 1
  InputCapacity = 1
  Coordinators = {FALSE}
  TSCH_TIMESYNC_DRIFT_CORRECTION = FALSE
  TSCH_CCA_ENABLED = TRUE
  TSCH_RADIO_ON_DURING_TIMESLOT = TRUE
  MaxGap = 2
  MaxAsn = 3
  MaxMisses = 1
INVARIANTS
  SlotGrid
PROPERTIES
  RadioLeftOnOnlyIfFull
  LockPromise
