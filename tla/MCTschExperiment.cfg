SPECIFICATION FairSpec
CONSTANTS
  Nodes = {n1, n2}
  MaxTurns = 2
  MaxReboots = 1
INVARIANTS
  TypeOK
  AssociatedCount
  DeliveryAccounts
PROPERTY
  KeepsSending
CHECK_DEADLOCK FALSE
