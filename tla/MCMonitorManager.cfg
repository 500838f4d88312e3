CONSTANTS
  Objects = {roon, other}
  Clients = {c1, c2}
  MaxPending = 3
SPECIFICATION FairSpec
CHECK_DEADLOCK FALSE
INVARIANTS
  WatcherPerRegistration
  CountCoversClients
  DeadClientsAreBeingNoticed
PROPERTY
  DeadClientsAreForgotten
