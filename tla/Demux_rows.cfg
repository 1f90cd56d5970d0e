SPECIFICATION DemuxSpec
CONSTANTS
  e1 = e1
  e2 = e2
  EsPid = {e1, e2}
  Nil = Nil
  MinHeader = 2
  MaxFile = 4
  Packet <- MCPacket
  Routing <- MCRouting
INVARIANTS
  EveryStartHasItsRow
  ClockIsTheLatest
  EachPcrListedOnce
  HeaderAndSizeAreItsOwn

  
