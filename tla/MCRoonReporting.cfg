CONSTANTS
  Roon = Roon
  Clients = {c1, c2}
  Paths = {p1, p2}
  NoPath = NoPath
  Empty = Empty
  Unknown = Unknown
  MaxPending = 3
  MaxInbox = 2
SPECIFICATION FairSpec
INVARIANTS
  ClientsAreNeverMisled
  JoinedClientsAreRegistered
PROPERTY
  ImplementsRegistration
  CallsAreAnswered
