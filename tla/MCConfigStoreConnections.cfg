CONSTANTS
  Names = {a, b}
  Ids = {modelled, plain}
  Elems = {}
  Params = {}
  Values = {}
  Choices = {}
  Sinks = {o}
  Inputs = {i}
  SelectorOf <- MCSelectorOf
  selector = selector
  modelled = modelled
  None = None
  Void = Void
  Malformed = Malformed
  Floating = Floating
  Wild = Wild
SPECIFICATION Spec
SYMMETRY Symmetry
INVARIANTS
  TypeOK
  NoDanglingConnections
  DeviceLogIsExact
  ConnectionLogIsSound
  LostConnectionsAreLogged
  NewConnectionsAreReported
  DeviceChangesAreReported
