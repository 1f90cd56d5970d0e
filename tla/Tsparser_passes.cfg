SPECIFICATION FairSpec
CONSTANTS
  PatPid = 0
  a = a
  v = v
  s = s
  PmtPid = {a}
  EsPid = {0, a, v, s}
  Kind = {"pes", "mp2v", "video", "scte35"}
  Nil = Nil
  MaxLen = 3
  MinHeader = 2
  MaxFile = 6
  PatSection <- MCPatSection
  PmtSection <- MCPmtSection
  File <- MCFile
  Packet <- Packets
  Routing <- MCRouting
INVARIANTS
  FedInOrder
  ReportsNeedTheWholeFile
  RowsOfTheWholeFile
PROPERTIES
  Terminates
  ImplementsPsiParser
  ImplementsDemux
