SPECIFICATION Spec
CONSTANTS
  flag = flag
  knob = knob
  gain = gain
  dsp = dsp
  amp = amp
  nowhere = nowhere
  Setups <- MCSetups
  ControlsAt <- MCControlsAt
  Paths <- MCPaths
  MethodOf <- MCMethodOf
  NoReport = NoReport
  Bits <- MCBits
  FixPointRange = {0, 1}
  UIntMax = 7
  None = None
  Failed = Failed
INVARIANTS
  ReportIsExact
  SuppressedControlsAreSilent
  OnlyChangesAreReported
  MappedValuesKeepTheirOrder
