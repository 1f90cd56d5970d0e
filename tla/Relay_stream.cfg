SPECIFICATION FairSpec
CONSTANTS
  UdpSize = 2
  MtuSize = 3
  Sizes <- MCSizes
  Rates <- MCRates
  Second = 2
  Headers = {0, 1, 2}
  NetFaults = {"loss", "duplicate", "reorder"}
  InFlight = 2
  MaxTime = 3
  MaxOut = 4
INVARIANTS
  OnPace
  PlaysTheFile
  SurvivesFullDatagrams
  WholeDatagrams
  OrderKept
PROPERTIES
  CatchesUp
CHECK_DEADLOCK FALSE
