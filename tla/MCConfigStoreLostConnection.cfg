CONSTANTS
  Names = {a, b}
  Ids = {modelled}
  Elems = {}
  Params = {}
  Values = {}
  Choices = {}
  Sinks = {o}
  Inputs = {i}
  SelectorOf <- MCSelectorOf
  selector = selector
  modelled = modelled
  None = None
  Void = Void
  Malformed = Malformed
  Floating = Floating
  Wild = Wild
SPECIFICATION Spec
SYMMETRY Symmetry
INVARIANT LostConnectionsAreReported
