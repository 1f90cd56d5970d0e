SPECIFICATION Spec
CONSTANTS
  PatPid = 0
  Packet <- MCPacket
  Wrap = 16
  MaxInterval = 3
  MaxFile = 4
INVARIANTS
  PatsAreTimed
  GapsAreMarked
