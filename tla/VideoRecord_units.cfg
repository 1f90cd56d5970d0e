SPECIFICATION Spec
CONSTANTS
  Codec = {"h264", "h265", "mp2v"}
  Pes <- MCPes
  Cuts = {0, 2, 4, 7}
  MinHeader = 7
  Nil = Nil
  MaxUnits = 3
  MaxPkts = 5
INVARIANTS
  KeyFramesLogged
  UnitRowsMatch
PROPERTIES
  ImplementsRecords
