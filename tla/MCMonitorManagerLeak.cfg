CONSTANTS
  Objects = {roon}
  Clients = {c1, c2}
  MaxPending = 3
SPECIFICATION Spec
SYMMETRY Symmetry
CHECK_DEADLOCK FALSE
INVARIANT ReportsStopWithTheLastClient
