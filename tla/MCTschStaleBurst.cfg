SPECIFICATION Spec
CONSTANTS
  NoLink = NoLink
  Links <- MC_Links
  HoppingSequence <- MC_HoppingSequence
  JoinSequence <- MC_AllChannels
  TSCH_BURST_MAX_LEN = 3
  TimeslotLength = 10
  DesyncThreshold = 1
  SYNC_IE_BOUND = 2
  AckCorrections <- MC_AckCorrections
  Drifts <- MC_Drifts
  Compensations <- MC_NoCompensation
  DequeuedCapacity = 1
  InputCapacity = 1
  Coordinators = {FALSE}
  TSCH_TIMESYNC_DRIFT_CORRECTION = TRUE
  TSCH_CCA_ENABLED = FALSE
  TSCH_RADIO_ON_DURING_TIMESLOT = FALSE
  MaxGap = 2
  MaxAsn = 4
  MaxMisses = 1
INVARIANTS
  HopOutsideBurst
