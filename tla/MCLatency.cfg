SPECIFICATION FairSpec
CONSTANTS
  contiki = contiki
  riot = riot
  Clients <- MC_Clients
  RiotClients <- MC_Riot
  Copied <- MC_Contiki
  N_REQUESTS = 2
  WarmupSuffices = TRUE
  MaxOutages = 1
CHECK_DEADLOCK FALSE
INVARIANTS
  TypeOK
  RowIsLatency
  PdrHonest
PROPERTY
  RequestsSentOnRoute
