SPECIFICATION FairMuxSpec
CONSTANTS
  PatPid = 0
  a = a
  b = b
  PmtPid = {a, b}
  es1 = es1
  es2 = es2
  EsPid = {es1, es2}
  avc = avc
  scte = scte
  Kind = {avc, scte}
  Nil = Nil
  MaxLen = 5
  Payload = 2
  Upsets = {"join", "loss", "shared"}
  PatSection <- MCPatSection
  PmtSection <- MCPmtSection
INVARIANTS
  UndisturbedIsUntorn
PROPERTIES
  PanicNeedsDisturbance
  FirstPassEnds
