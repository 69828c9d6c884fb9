SPECIFICATION FairSpec
CONSTANTS
  contiki = contiki
  riot = riot
  Clients <- MC_Contiki
  RiotClients <- MC_None
  Copied <- MC_Contiki
  N_REQUESTS = 2
  WarmupSuffices = TRUE
  MaxOutages = 1
CHECK_DEADLOCK FALSE
PROPERTY
  RequestsSent
