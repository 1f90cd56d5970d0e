SPECIFICATION CapsSpec
CONSTANTS
  None = None
  Payload <- MCPayload
  MaxPackets = 3
INVARIANTS
  LinesPointIntoTheFile
