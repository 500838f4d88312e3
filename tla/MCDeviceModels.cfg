SPECIFICATION FairSpec
CONSTANTS
  d1 = d1
  d2 = d2
  d3 = d3
  nobody = nobody
  Names <- MCNames
  Databases <- MCDatabases
  Probes <- MCProbes
  Bits <- MCBits
  FixPointRange = {0, 1}
  UIntMax = 7
  All = "all"
  None = None
  Failed = Failed
  Unconnected = Unconnected
INVARIANTS
  FlatDevicesAreResolved
  OnlySoundDatabasesAreServed
  SelectorsFitMappings
  ChoicesSelectTheirPads
  SelectorIndexIsInvertible
  ValuesSurviveTransport
PROPERTIES
  FlattenEnds
CHECK_DEADLOCK FALSE
