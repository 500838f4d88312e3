SPECIFICATION FairSpec
CONSTANTS
  i1 = i1
  i2 = i2
  s = s
  x = x
  d = d
  o1 = o1
  o2 = o2
  Static = {i1, i2, s, o1, o2}
  Switching = {x, d}
  Sub = {o2}
  Candidates <- MCCandidates
  Mappings <- MCMappings
  Unconnected = Unconnected
  Floating = Floating
INVARIANTS
  PathIsActiveChain
  EnumerationIsExact
PROPERTIES
  EnumerationEnds
CHECK_DEADLOCK FALSE
