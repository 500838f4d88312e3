CONSTANTS
  Names = {a, b}
  Ids = {modelled}
  Elems = {e}
  Params = {selector}
  Values = {good, bad}
  Choices = {good}
  Sinks = {}
  Inputs = {}
  SelectorOf <- MCSelectorOf
  selector = selector
  modelled = modelled
  None = None
  Void = Void
  Malformed = Malformed
  Floating = Floating
  Wild = Wild
SPECIFICATION Spec
SYMMETRY Symmetry
INVARIANTS
  NoLeftovers
  TrackerFollowsValues
  ChangedValuesAreReported
