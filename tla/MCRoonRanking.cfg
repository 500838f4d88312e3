SPECIFICATION RankingSpec
CONSTANTS
  digital = digital
  analog = analog
  phones = phones
  record = record
  virtual = virtual
  m1 = m1
  m2 = m2
  Sinks = {digital, analog, phones, record}
  SinkRank <- MCSinkRank
  SinkMethod <- MCSinkMethod
  Ends = {digital, analog, phones, record, virtual}
  Addresses = {a1, a2, a3}
  Free = Free
  NULL = NULL
  NoMethod = NoMethod
INVARIANTS
  BestPathIsReportedUntilClear
