SPECIFICATION FairSpec
CONSTANTS
  self = self
  pa = pa
  eq = eq
  src = src
  spdif = spdif
  strm = strm
  in = in
  out = out
  spk = spk
  Devices = {self, pa, eq}
  Root = self
  Elements = {src, spdif, strm, in, out, spk}
  LocalPaths <- MCLocalPaths
  Connections <- MCConnections
  None = None
INVARIANTS
  PathHasDeviceNames
  EnumerationIsExact
  ReachedSinksAreReported
PROPERTY EnumerationEnds
CHECK_DEADLOCK FALSE
